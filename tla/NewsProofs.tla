----------------------------- MODULE NewsProofs ------------------------------
(***************************************************************************)
(* Notifications and comments: everybody who an event is about is told,    *)
(* once; a comment is announced; notices only move forward; and listings   *)
(* hide nothing. For every number of people and of handlers in flight.     *)
(*                                                                         *)
(* EveryoneToldOnce counts the notices of somebody about an event. ToldInv *)
(* says where each of them comes from: a delivery that is still due, one   *)
(* that some handler has taken, or a notice. A delivery is lost in one way *)
(* only: two handlers that create the preferences of the same person, of   *)
(* which the second meets the unique row of the first. MissInv bounds how  *)
(* often that happens. Until there is a row nobody has lost; afterwards    *)
(* those who have lost and those who still may (they have found no row)    *)
(* are together fewer than the slots, because one of them made the row.    *)
(*                                                                         *)
(* CarryInv says what marking as read and the writing of a comment have    *)
(* behind them, MarkInv what the mark of a reader stands for; with         *)
(* NewsInv, the types and the undisturbed handlers, they are AllNews,      *)
(* which every step keeps.                                                 *)
(***************************************************************************)
EXTENDS HandlersProofs, Comments, FiniteSetTheorems

MutedSets == Mutings \cup {{}}
PrefsRow == [row : BOOLEAN, muted : MutedSets]
EventRow == [about : Nat, to : SUBSET People]
NoticeRow == [to : People, of : Nat, state : {"unread", "read", "gone"}]
CommentRow == [by : People, live : BOOLEAN]
ReadRow == [row : BOOLEAN, upTo : Nat]

\* The local variables of the handlers: of the preferences, of a delivery, and
\* of those that mark the comments as read.
AskLocals == [event : {0}, user : People, muted : MutedSets, wanted : MutedSets,
              then : {"prefs.return", "prefs.save"}]
DeliveryLocals == [event : Nat \ {0}, user : People,
                   category : {"tasks", "projects", "announcements"}, muted : MutedSets]
MarkLocals == [event : {0}, user : People, comment : Nat, read : SUBSET Nat, upTo : Nat]

Marks == {"mark.find", "mark.save", "mark.insert"}

NewsPrepared(at, my) ==
    \/ at \in {"prefs.find", "prefs.insert", "prefs.return", "prefs.save"} /\ my \in AskLocals
    \/ /\ at \in {"prefs.find", "prefs.insert", "notice.insert"} /\ my \in DeliveryLocals
       /\ my.event \in DOMAIN events /\ my.user \in events[my.event].to
    \/ at = "notice.save" /\ my.event = 0 /\ my.id \in DOMAIN notices
    \/ /\ at \in Marks \cup {"comment.task"} /\ my \in MarkLocals
       /\ my.upTo <= Len(comments)
       /\ \/ my.comment = 0 /\ at # "comment.task"
          \/ my.comment \in DOMAIN comments /\ comments[my.comment].by = my.user
    \/ at \in {"comment.save", "comment.remove"} /\ my.event = 0 /\ my.id \in DOMAIN comments

\* What a handler that has overlapped with nobody has read is still so.
NewsChecked(at, my) ==
    /\ at = "notice.save" => notices[my.id].state # "gone"
    /\ at \in Marks /\ my.comment = 0 => my.read = LiveComments
    /\ at = "comment.save" => comments[my.id].live

NewsTables ==
    /\ events \in Seq(EventRow)
    /\ prefs \in [People -> PrefsRow]
    /\ notices \in Seq(NoticeRow)
    /\ comments \in Seq(CommentRow)
    /\ lastRead \in [People -> ReadRow]
    /\ \A u \in People : lastRead[u].upTo <= Len(comments)
    /\ shown \in [People -> SUBSET Nat]

NewsInv ==
    /\ SlotInv
    /\ NewsTables
    /\ \A r \in Slots : InFlight(r) =>
          /\ NewsPrepared(calls[r].at, My(r))
          /\ calls[r].alone => NewsChecked(calls[r].at, My(r))

\* Events and comments stay what they are about, and rows stay in the tables.
NewsGrow ==
    /\ \A e \in DOMAIN events : e \in DOMAIN events' /\ events'[e] = events[e]
    /\ \A c \in DOMAIN comments : c \in DOMAIN comments' /\ comments'[c].by = comments[c].by
    /\ \A n \in DOMAIN notices : n \in DOMAIN notices'
    /\ Len(comments) <= Len(comments')

-----------------------------------------------------------------------------
(* The slots after an event.                                               *)

\* A slot that has been given the delivery to user u of the event announced.
Delivers(s, u, type) ==
    /\ calls'[s].at = "prefs.find" /\ ~calls'[s].alone
    /\ calls'[s].my = Delivery(Len(events) + 1, u, Category(type))

\* The emitter's slots are free, or deliver like others that were free; the
\* rest goes on.
SlotAfter(s, users, type, from) ==
    \/ s \in from /\ ~InFlight(s)'
    \/ /\ s \notin from /\ calls'[s].at = calls[s].at /\ calls'[s].my = calls[s].my
       /\ calls'[s].alone => calls[s].alone
    \/ (s \in from \/ ~InFlight(s)) /\ \E u \in users : Delivers(s, u, type)

\* Each recipient has a slot of its own, unless the type is off.
LEMMA AnnouncedSlots ==
    ASSUME SlotInv, NEW type, NEW users, NEW about, NEW from, from \subseteq Slots,
           Announce(type, users, about, from)
    PROVE  /\ SlotInv'
           /\ \A s \in Slots : SlotAfter(s, users, type, from)
           /\ type \in off => \A s \in Slots : InFlight(s)' => s \notin from /\ calls'[s] = calls[s]
           /\ type \notin off =>
                 /\ \A s \in Slots : ~calls'[s].alone \/ ~InFlight(s)'
                 /\ \A u \in users : \E s \in Slots : Delivers(s, u, type)
                 /\ \E place : \A s \in Slots, u \in users : Delivers(s, u, type) /\ (s \in from \/ ~InFlight(s))
                                                             => place[u] = s
<1>1. CASE type \in off
  <2>1. calls' = [r \in Slots |-> IF r \in from THEN Free ELSE calls[r]]
    BY <1>1 DEF Announce
  <2>2. DOMAIN Free = {"at", "alone", "my"} /\ Free.alone \in BOOLEAN /\ Free.at = "free"
    BY DEF Free
  <2>3. /\ DOMAIN calls' = Slots
        /\ \A s \in Slots : s \in from => calls'[s] = Free
        /\ \A s \in Slots : s \notin from => calls'[s] = calls[s]
    BY <2>1
  <2>4. SlotShape'
    BY <2>2, <2>3 DEF SlotInv, SlotShape
  <2>5. AloneInv'
    BY <2>2, <2>3 DEF SlotInv, AloneInv, InFlight
  <2>6. \A s \in Slots : SlotAfter(s, users, type, from)
    BY <2>2, <2>3 DEF SlotAfter, InFlight
  <2>7. \A s \in Slots : InFlight(s)' => s \notin from /\ calls'[s] = calls[s]
    BY <2>2, <2>3 DEF InFlight
  <2> QED BY <1>1, <2>4, <2>5, <2>6, <2>7 DEF SlotInv
<1>2. CASE type \notin off
  <2>1. PICK place \in [users -> {r \in Slots : ~InFlight(r)} \cup from] :
           /\ \A u, v \in users : place[u] = place[v] => u = v
           /\ Deliver(place, users, from, Len(events) + 1, Category(type))
    BY <1>2 DEF Announce
  <2> DEFINE e == Len(events) + 1
             told(s) == CHOOSE u \in users : place[u] = s
             taken(s) == [at |-> "prefs.find", alone |-> FALSE,
                          my |-> Delivery(e, told(s), Category(type))]
  <2>2. /\ DOMAIN calls' = Slots
        /\ \A s \in Slots : (\E u \in users : place[u] = s) => calls'[s] = taken(s)
        /\ \A s \in Slots : ~(\E u \in users : place[u] = s) /\ s \in from => calls'[s] = Free
        /\ \A s \in Slots : ~(\E u \in users : place[u] = s) /\ s \notin from => calls'[s] = Overlapped(s)
    BY <2>1 DEF Deliver
  <2>3. \A s \in Slots : (\E u \in users : place[u] = s)
                         => /\ told(s) \in users /\ place[told(s)] = s
                            /\ s \in from \/ ~InFlight(s)
    BY <2>1
  <2>4. \A s : /\ DOMAIN taken(s) = {"at", "alone", "my"}
               /\ taken(s).at = "prefs.find" /\ taken(s).alone = FALSE
               /\ taken(s).my = Delivery(e, told(s), Category(type))
    OBVIOUS
  <2> HIDE DEF told, taken
  <2>5. DOMAIN Free = {"at", "alone", "my"} /\ Free.alone \in BOOLEAN /\ Free.at = "free"
    BY DEF Free
  <2>6. \A s \in Slots : (\E u \in users : place[u] = s) => Delivers(s, told(s), type)
    BY <2>2, <2>4 DEF Delivers
  <2>7. \A s \in Slots : SlotAfter(s, users, type, from)
    <3> SUFFICES ASSUME NEW s \in Slots PROVE SlotAfter(s, users, type, from)
      OBVIOUS
    <3>1. CASE \E u \in users : place[u] = s
      BY <2>3, <2>6, <3>1 DEF SlotAfter
    <3>2. CASE ~(\E u \in users : place[u] = s) /\ s \in from
      BY <2>2, <2>5, <3>2 DEF SlotAfter, InFlight
    <3>3. CASE ~(\E u \in users : place[u] = s) /\ s \notin from
      <4>1. /\ calls'[s].at = calls[s].at /\ calls'[s].my = calls[s].my
        BY <2>2, <3>3, OverlappedShape
      <4>2. calls'[s] = Overlapped(s)
        BY <2>2, <3>3
      <4>3. calls'[s].alone => calls[s].alone
        <5>1. CASE InFlight(s)
          BY <4>2, <5>1, OverlappedShape
        <5>2. CASE ~InFlight(s)
          BY <4>2, <5>2 DEF Overlapped
        <5> QED BY <5>1, <5>2
      <4> QED BY <3>3, <4>1, <4>3 DEF SlotAfter
    <3> QED BY <3>1, <3>2, <3>3
  <2>8. \A s \in Slots : ~calls'[s].alone \/ ~InFlight(s)'
    <3> SUFFICES ASSUME NEW s \in Slots PROVE ~calls'[s].alone \/ ~InFlight(s)'
      OBVIOUS
    <3>1. CASE \E u \in users : place[u] = s
      BY <2>6, <3>1 DEF Delivers
    <3>2. CASE ~(\E u \in users : place[u] = s) /\ s \in from
      BY <2>2, <2>5, <3>2 DEF InFlight
    <3>3. CASE ~(\E u \in users : place[u] = s) /\ s \notin from
      BY <2>2, <3>3, OverlappedShape DEF InFlight
    <3> QED BY <3>1, <3>2, <3>3
  <2>9. SlotShape'
    <3> SUFFICES ASSUME NEW s \in Slots
                 PROVE  DOMAIN calls'[s] = {"at", "alone", "my"} /\ calls'[s].alone \in BOOLEAN
      BY <2>2 DEF SlotShape
    <3>1. CASE \E u \in users : place[u] = s
      BY <2>2, <2>4, <3>1
    <3>2. CASE ~(\E u \in users : place[u] = s) /\ s \in from
      BY <2>2, <2>5, <3>2
    <3>3. CASE ~(\E u \in users : place[u] = s) /\ s \notin from
      BY <2>2, <3>3, OverlappedShape
    <3> QED BY <3>1, <3>2, <3>3
  <2>10. AloneInv'
    BY <2>8 DEF AloneInv
  <2>11. \A u \in users : \E s \in Slots : Delivers(s, u, type)
    <3> SUFFICES ASSUME NEW u \in users PROVE \E s \in Slots : Delivers(s, u, type)
      OBVIOUS
    <3>1. place[u] \in Slots
      BY <2>1
    <3>2. told(place[u]) = u
      BY <2>1, <2>3, <3>1
    <3> QED BY <2>6, <3>1, <3>2
  <2>12. \A s \in Slots, u \in users : Delivers(s, u, type) /\ (s \in from \/ ~InFlight(s)) => place[u] = s
    <3> SUFFICES ASSUME NEW s \in Slots, NEW u \in users, Delivers(s, u, type), s \in from \/ ~InFlight(s)
                 PROVE  place[u] = s
      OBVIOUS
    <3>1. CASE \E v \in users : place[v] = s
      <4>0. \A v, c : Delivery(e, v, c).user = v
        BY DEF Delivery
      <4> HIDE DEF e
      <4>3. /\ calls'[s].my = Delivery(e, told(s), Category(type))
            /\ calls'[s].my = Delivery(e, u, Category(type))
        BY <2>6, <3>1 DEF Delivers, e
      <4>1. calls'[s].my.user = told(s) /\ calls'[s].my.user = u
        BY <4>0, <4>3
      <4> QED BY <2>3, <3>1, <4>1
    <3>2. CASE ~\E v \in users : place[v] = s
      <4>1. calls'[s].at = "free"
        BY <2>2, <2>5, <3>2, OverlappedShape DEF InFlight
      <4> QED BY <4>1 DEF Delivers
    <3> QED BY <3>1, <3>2
  <2> QED BY <1>2, <2>7, <2>8, <2>9, <2>10, <2>11, <2>12 DEF SlotInv
<1> QED BY <1>1, <1>2

-----------------------------------------------------------------------------
(* The steps of one handler.                                               *)

\* What is prepared stays so where nothing is taken from the tables.
LEMMA PreparedGrows ==
    ASSUME NewsTables, NewsTables', NewsGrow, NEW at, NEW my, NewsPrepared(at, my)
    PROVE  NewsPrepared(at, my)'
<1>1. /\ Len(comments) \in Nat /\ Len(comments)' \in Nat /\ Len(comments) <= Len(comments')
      /\ \A c \in DOMAIN comments : c \in DOMAIN comments' /\ comments'[c].by = comments[c].by
  BY Ids DEF NewsTables, NewsGrow
<1>2. /\ \A e \in DOMAIN events : e \in DOMAIN events' /\ events'[e] = events[e]
      /\ \A n \in DOMAIN notices : n \in DOMAIN notices'
  BY DEF NewsGrow
<1>3. my \in MarkLocals /\ my.upTo <= Len(comments) => my.upTo <= Len(comments')
  <2>1. my \in MarkLocals => my.upTo \in Nat
    BY DEF MarkLocals
  <2> QED BY <1>1, <2>1
<1> QED BY <1>1, <1>2, <1>3 DEF NewsPrepared

\* A step of one handler: what the others have prepared stays as it was.
LEMMA NewsStep ==
    ASSUME NewsInv, NEW r \in Slots, SlotInv', OthersWait(r), OthersOverlap(r),
           NewsTables', NewsGrow,
           InFlight(r)' => NewsPrepared(calls[r].at, calls[r].my)',
           InFlight(r)' /\ calls'[r].alone => NewsChecked(calls[r].at, calls[r].my)'
    PROVE  NewsInv'
<1> SUFFICES ASSUME NEW s \in Slots, InFlight(s)'
             PROVE  /\ NewsPrepared(calls[s].at, calls[s].my)'
                    /\ calls'[s].alone => NewsChecked(calls[s].at, calls[s].my)'
  BY DEF NewsInv, My
<1>1. CASE s = r
  BY <1>1
<1>2. CASE s # r
  <2>1. calls'[s].at = calls[s].at /\ calls'[s].my = calls[s].my /\ ~calls'[s].alone
    BY <1>2 DEF OthersWait, OthersOverlap
  <2>2. NewsPrepared(calls[s].at, calls[s].my)
    BY <2>1 DEF NewsInv, InFlight, My
  <2>3. PICK place, locals : place = calls[s].at /\ locals = calls[s].my
    OBVIOUS
  <2>4. NewsPrepared(place, locals)'
    BY <2>2, <2>3, PreparedGrows DEF NewsInv
  <2>5. calls'[s].at = place /\ calls'[s].my = locals
    BY <2>1, <2>3
  <2> QED BY <2>1, <2>4, <2>5 DEF NewsPrepared
<1> QED BY <1>1, <1>2

\* A request arrives.
LEMMA NewsReceives ==
    ASSUME NewsInv, NEW r \in Slots, NEW call, call # "free", NEW locals,
           Receive(r, call, locals), NewsTables', NewsGrow,
           NewsPrepared(call, locals)', NewsChecked(call, locals)'
    PROVE  /\ NewsInv'
           /\ ~InFlight(r) /\ calls'[r].at = call /\ calls'[r].my = locals
           /\ OthersWait(r)
<1>1. /\ SlotInv'
      /\ ~InFlight(r) /\ calls'[r].at = call /\ calls'[r].my = locals
      /\ OthersWait(r) /\ OthersOverlap(r)
  BY Received DEF NewsInv
<1>2. NewsPrepared(calls[r].at, calls[r].my)' /\ NewsChecked(calls[r].at, calls[r].my)'
  BY <1>1 DEF NewsPrepared, NewsChecked
<1> QED BY <1>1, <1>2, NewsStep

\* A handler goes on.
LEMMA NewsGoesOn ==
    ASSUME NewsInv, NEW r \in Slots, InFlight(r), NEW call, call # "free", NEW locals,
           Await(r, call, locals) \/ (AwaitNext(r, call) /\ locals = My(r)),
           NewsTables', NewsGrow,
           NewsPrepared(call, locals)', calls[r].alone => NewsChecked(call, locals)'
    PROVE  /\ NewsInv'
           /\ calls'[r].at = call /\ calls'[r].my = locals
           /\ OthersWait(r)
<1>1. /\ SlotInv'
      /\ calls'[r].at = call /\ calls'[r].my = locals
      /\ calls'[r].alone = calls[r].alone
      /\ OthersWait(r) /\ OthersOverlap(r)
  BY WentOn, WentNext DEF NewsInv, My
<1>2. /\ NewsPrepared(calls[r].at, calls[r].my)'
      /\ calls[r].alone => NewsChecked(calls[r].at, calls[r].my)'
  BY <1>1 DEF NewsPrepared, NewsChecked
<1> QED BY <1>1, <1>2, NewsStep

\* A handler answers.
LEMMA NewsAnswers ==
    ASSUME NewsInv, NEW r \in Slots, InFlight(r), Answer(r), NewsTables', NewsGrow
    PROVE  NewsInv' /\ ~InFlight(r)' /\ OthersWait(r)
<1>1. SlotInv' /\ ~InFlight(r)' /\ OthersWait(r) /\ OthersOverlap(r)
  BY Answered DEF NewsInv
<1> QED BY <1>1, NewsStep

\* A handler of one call.
LEMMA NewsAtOnce ==
    ASSUME NewsInv, AtOnce, NewsTables', NewsGrow
    PROVE  /\ NewsInv'
           /\ \A s \in Slots : calls'[s].at = calls[s].at /\ calls'[s].my = calls[s].my
<1>1. /\ SlotInv'
      /\ \A s \in Slots : /\ calls'[s].at = calls[s].at /\ calls'[s].my = calls[s].my
                          /\ InFlight(s)' => ~calls'[s].alone
  BY Overlaps DEF NewsInv
<1> SUFFICES ASSUME NEW s \in Slots, InFlight(s)'
             PROVE  NewsPrepared(calls[s].at, calls[s].my)'
  BY <1>1 DEF NewsInv, My
<1>2. NewsPrepared(calls[s].at, calls[s].my)
  BY <1>1 DEF NewsInv, InFlight, My
<1>3. PICK place, locals : place = calls[s].at /\ locals = calls[s].my
  OBVIOUS
<1>4. NewsPrepared(place, locals)'
  BY <1>2, <1>3, PreparedGrows DEF NewsInv
<1>5. calls'[s].at = place /\ calls'[s].my = locals
  BY <1>1, <1>3
<1> QED BY <1>4, <1>5 DEF NewsPrepared

\* The tables where nothing is written.
LEMMA NewsUntouched ==
    ASSUME NewsInv, UNCHANGED <<events, prefs, notices, comments, lastRead, shown>>
    PROVE  /\ NewsTables' /\ NewsGrow
           /\ \A at, my : NewsPrepared(at, my)' <=> NewsPrepared(at, my)
           /\ \A at, my : NewsChecked(at, my)' <=> NewsChecked(at, my)
<1>1. NewsTables'
  BY DEF NewsInv, NewsTables
<1>2. Len(comments) \in Nat
  BY Ids DEF NewsInv, NewsTables
<1>3. NewsGrow
  BY <1>2 DEF NewsGrow
<1>4. \A at, my : NewsPrepared(at, my)' <=> NewsPrepared(at, my)
  BY DEF NewsPrepared
<1>5. \A at, my : NewsChecked(at, my)' <=> NewsChecked(at, my)
  BY DEF NewsChecked, LiveComments
<1> QED BY <1>1, <1>3, <1>4, <1>5

-----------------------------------------------------------------------------
(* What a step leaves as it is.                                            *)

DeliversTo(s, e, u) ==
    /\ calls[s].at \in {"prefs.find", "prefs.insert", "notice.insert"}
    /\ e # 0 /\ My(s).event = e /\ My(s).user = u

Inserts(s, u) == calls[s].at = "prefs.insert" /\ My(s).user = u
InsertsMark(s, u) == calls[s].at = "mark.insert" /\ My(s).user = u
Carries(s, c) == calls[s].at \in Marks \cup {"comment.task"} /\ c # 0 /\ My(s).comment = c

ToldQuiet ==
    /\ UNCHANGED <<events, withheld, missed>>
    /\ DOMAIN notices' = DOMAIN notices
    /\ \A n \in DOMAIN notices : notices'[n].of = notices[n].of /\ notices'[n].to = notices[n].to
    /\ \A s \in Slots : \A e, u : DeliversTo(s, e, u)' <=> DeliversTo(s, e, u)

\* Nobody comes to the insertion of a row that is there.
MissQuiet ==
    /\ UNCHANGED missed
    /\ \A u \in People : prefs'[u].row = prefs[u].row
    /\ \A s \in Slots, u \in People : prefs[u].row /\ Inserts(s, u)' => Inserts(s, u)

MarkQuiet ==
    /\ \A u \in People : lastRead'[u].row = lastRead[u].row
    /\ \A s \in Slots, u \in People : lastRead[u].row /\ InsertsMark(s, u)' => InsertsMark(s, u)

CarryQuiet ==
    /\ \A e \in DOMAIN events : e \in DOMAIN events' /\ events'[e].about = events[e].about
    /\ \A e \in DOMAIN events' : e \in DOMAIN events \/ events'[e].about = 0
    /\ DOMAIN comments' = DOMAIN comments
    /\ \A c \in DOMAIN comments : comments'[c].by = comments[c].by
    /\ \A s \in Slots : \A c : Carries(s, c)' <=> Carries(s, c)

Quiet == ToldQuiet /\ MissQuiet /\ MarkQuiet /\ CarryQuiet

TablesQuiet ==
    /\ UNCHANGED <<events, withheld, missed>>
    /\ DOMAIN notices' = DOMAIN notices
    /\ \A n \in DOMAIN notices : notices'[n].of = notices[n].of /\ notices'[n].to = notices[n].to
    /\ \A u \in People : prefs'[u].row = prefs[u].row /\ lastRead'[u].row = lastRead[u].row
    /\ DOMAIN comments' = DOMAIN comments
    /\ \A c \in DOMAIN comments : comments'[c].by = comments[c].by

SlotQuiet(s) ==
    /\ \A e, u : DeliversTo(s, e, u)' <=> DeliversTo(s, e, u)
    /\ \A u \in People : prefs[u].row /\ Inserts(s, u)' => Inserts(s, u)
    /\ \A u \in People : lastRead[u].row /\ InsertsMark(s, u)' => InsertsMark(s, u)
    /\ \A c : Carries(s, c)' <=> Carries(s, c)

\* A handler that stays where it is has no part in the counting,
LEMMA WaitingQuiet ==
    ASSUME NEW s, calls'[s].at = calls[s].at, calls'[s].my = calls[s].my
    PROVE  SlotQuiet(s)
BY DEF SlotQuiet, DeliversTo, Inserts, InsertsMark, Carries, My

\* and neither has a step in which all the slots are quiet,
LEMMA SlotsQuiet ==
    ASSUME TablesQuiet, \A s \in Slots : SlotQuiet(s)
    PROVE  Quiet
<1>1. ToldQuiet
  BY DEF TablesQuiet, SlotQuiet, ToldQuiet
<1>2. MissQuiet
  BY DEF TablesQuiet, SlotQuiet, MissQuiet
<1>3. MarkQuiet
  BY DEF TablesQuiet, SlotQuiet, MarkQuiet
<1>4. CarryQuiet
  <2>1. \A s \in Slots : \A c : Carries(s, c)' <=> Carries(s, c)
    BY DEF SlotQuiet
  <2> QED BY <2>1 DEF TablesQuiet, CarryQuiet
<1> QED BY <1>1, <1>2, <1>3, <1>4 DEF Quiet

\* such as one of a quiet handler while the others wait,
LEMMA StepQuiet ==
    ASSUME TablesQuiet, NEW r \in Slots, OthersWait(r), SlotQuiet(r)
    PROVE  Quiet
BY WaitingQuiet, SlotsQuiet DEF OthersWait

\* or one in which everybody stays.
LEMMA StoodQuiet ==
    ASSUME TablesQuiet, \A s \in Slots : calls'[s].at = calls[s].at /\ calls'[s].my = calls[s].my
    PROVE  Quiet
BY WaitingQuiet, SlotsQuiet

-----------------------------------------------------------------------------
(* Preferences.                                                            *)

\* A request about preferences.
LEMMA AskKeepsNews ==
    ASSUME NewsInv, NEW r \in Slots, NEW u \in People, NEW wanted \in MutedSets,
           NEW then \in {"prefs.return", "prefs.save"}, AskPreferences(r, u, wanted, then),
           UNCHANGED commentVars
    PROVE  NewsInv' /\ Quiet
<1> PICK given : given = [event |-> 0, user |-> u, muted |-> {}, wanted |-> wanted, then |-> then]
  OBVIOUS
<1>1. /\ UNCHANGED <<events, prefs, notices, withheld, missed, comments, lastRead, shown>>
      /\ Receive(r, "prefs.find", given)
  BY DEF AskPreferences, noticeVars, commentVars
<1>2. given \in AskLocals /\ given.event = 0
  BY DEF AskLocals, MutedSets
<1>3. NewsTables' /\ NewsGrow
  BY <1>1, NewsUntouched
<1>4. NewsPrepared("prefs.find", given)' /\ NewsChecked("prefs.find", given)'
  BY <1>2 DEF NewsPrepared, NewsChecked, Marks
<1>5. /\ NewsInv' /\ ~InFlight(r)
      /\ calls'[r].at = "prefs.find" /\ calls'[r].my = given /\ OthersWait(r)
  BY <1>1, <1>3, <1>4, NewsReceives
<1>6. TablesQuiet
  BY <1>1 DEF TablesQuiet
<1>7. SlotQuiet(r)
  BY <1>2, <1>5 DEF SlotQuiet, DeliversTo, Inserts, InsertsMark, Carries, Marks, InFlight, My
<1> QED BY <1>5, <1>6, <1>7, StepQuiet

\* The row of somebody's preferences is there or comes to be.
LEMMA PrefsRowed ==
    ASSUME NewsTables, NEW u \in People, prefs' = [prefs EXCEPT ![u].row = TRUE],
           UNCHANGED <<events, notices, comments, lastRead, shown>>
    PROVE  NewsTables' /\ NewsGrow /\ \A at, my : NewsPrepared(at, my)' <=> NewsPrepared(at, my)
<1>1. prefs' \in [People -> PrefsRow]
  BY DEF NewsTables, PrefsRow
<1>2. Len(comments) \in Nat
  BY Ids DEF NewsTables
<1>3. NewsTables'
  BY <1>1 DEF NewsTables
<1>4. NewsGrow
  BY <1>2 DEF NewsGrow
<1>5. \A at, my : NewsPrepared(at, my)' <=> NewsPrepared(at, my)
  BY DEF NewsPrepared
<1> QED BY <1>3, <1>4, <1>5

\* Who is delivered to, or asks, has the rest of the local variables still.
LEMMA MutedLocals ==
    ASSUME NEW my, NEW muted \in MutedSets, my \in AskLocals \cup DeliveryLocals,
           NEW next, next = [my EXCEPT !.muted = muted]
    PROVE  /\ my \in AskLocals => next \in AskLocals /\ next.then = my.then
           /\ my \in DeliveryLocals => next \in DeliveryLocals
           /\ next.event = my.event /\ next.user = my.user
BY DEF AskLocals, DeliveryLocals

\* The preferences are looked up for a request or for a delivery.
LEMMA PrefsLocals ==
    ASSUME NewsInv, NEW r \in Slots, NEW have,
           \/ OnPreferences(r) /\ have = My(r).then
           \/ ~OnPreferences(r) /\ have = "notice.insert",
           Awaits(r, "prefs.find") \/ Awaits(r, "prefs.insert")
    PROVE  /\ InFlight(r) /\ have # "free"
           /\ \/ My(r) \in AskLocals /\ have \in {"prefs.return", "prefs.save"} /\ My(r).event = 0
              \/ /\ My(r) \in DeliveryLocals /\ have = "notice.insert" /\ My(r).event # 0
                 /\ My(r).event \in DOMAIN events /\ My(r).user \in events[My(r).event].to
           /\ My(r).user \in People /\ prefs[My(r).user] \in PrefsRow
<1> DEFINE my == My(r)
           u == My(r).user
<1>1. InFlight(r) /\ calls[r].at \in {"prefs.find", "prefs.insert"}
  BY DEF Awaits, InFlight
<1>2. NewsPrepared(calls[r].at, my)
  BY <1>1 DEF NewsInv
<1>3. \/ my \in AskLocals /\ have \in {"prefs.return", "prefs.save"} /\ my.event = 0
      \/ /\ my \in DeliveryLocals /\ have = "notice.insert" /\ my.event # 0
         /\ my.event \in DOMAIN events /\ u \in events[my.event].to
  <2>1. CASE my \in AskLocals
    BY <1>1, <2>1 DEF AskLocals, OnPreferences
  <2>2. CASE my \notin AskLocals
    <3>1. /\ my \in DeliveryLocals
          /\ my.event \in DOMAIN events /\ u \in events[my.event].to
      BY <1>1, <1>2, <2>2 DEF NewsPrepared, Marks
    <3>2. my.event # 0
      BY <3>1 DEF DeliveryLocals
    <3> QED BY <3>1, <3>2 DEF OnPreferences
  <2> QED BY <2>1, <2>2
<1>4. u \in People /\ prefs[u] \in PrefsRow
  BY <1>3 DEF AskLocals, DeliveryLocals, NewsInv, NewsTables
<1>5. have # "free"
  BY <1>3
<1> QED BY <1>1, <1>3, <1>4, <1>5

\* The query for the preferences.
LEMMA FindPrefsKeepsNews ==
    ASSUME NewsInv, NEW r \in Slots, NEW have,
           \/ OnPreferences(r) /\ have = My(r).then
           \/ ~OnPreferences(r) /\ have = "notice.insert",
           FindPrefs(r, have), UNCHANGED <<events, notices, withheld, missed, commentVars>>
    PROVE  NewsInv' /\ Quiet
<1> PICK my : my = My(r)
  OBVIOUS
<1>1. Awaits(r, "prefs.find") /\ UNCHANGED <<events, prefs, notices, withheld, missed, comments, lastRead, shown>>
  BY DEF FindPrefs, commentVars
<1>2. /\ InFlight(r) /\ have # "free"
      /\ \/ my \in AskLocals /\ have \in {"prefs.return", "prefs.save"} /\ my.event = 0
         \/ /\ my \in DeliveryLocals /\ have = "notice.insert" /\ my.event # 0
            /\ my.event \in DOMAIN events /\ my.user \in events[my.event].to
      /\ my.user \in People /\ prefs[my.user] \in PrefsRow
  BY <1>1, PrefsLocals
<1>3. NewsTables' /\ NewsGrow
  BY <1>1, NewsUntouched
<1>4. TablesQuiet
  BY <1>1 DEF TablesQuiet
<1>5. CASE prefs[my.user].row
  <2>1. PICK muted, next : muted = prefs[my.user].muted /\ next = [my EXCEPT !.muted = muted]
    OBVIOUS
  <2>2. muted \in MutedSets
    BY <1>2, <2>1 DEF PrefsRow
  <2>3. Await(r, have, next)
    BY <1>5, <2>1 DEF FindPrefs, PrefsFound
  <2>4. my \in AskLocals \cup DeliveryLocals
    BY <1>2
  <2>5. /\ my \in AskLocals => next \in AskLocals /\ next.then = my.then
        /\ my \in DeliveryLocals => next \in DeliveryLocals
        /\ next.event = my.event /\ next.user = my.user
    BY <2>1, <2>2, <2>4, MutedLocals
  <2>6. NewsPrepared(have, next)' /\ (calls[r].alone => NewsChecked(have, next)')
    BY <1>1, <1>2, <2>5 DEF NewsPrepared, NewsChecked, Marks
  <2>7. NewsInv' /\ calls'[r].at = have /\ calls'[r].my = next /\ OthersWait(r)
    BY <1>2, <1>3, <2>3, <2>6, NewsGoesOn
  <2>8. SlotQuiet(r)
    BY <1>1, <1>2, <2>5, <2>7 DEF SlotQuiet, DeliversTo, Inserts, InsertsMark, Carries, Marks, Awaits, My
  <2> QED BY <1>4, <2>7, <2>8, StepQuiet
<1>6. CASE ~prefs[my.user].row
  <2>1. AwaitNext(r, "prefs.insert")
    BY <1>6 DEF FindPrefs, PrefsFound
  <2>2. NewsPrepared("prefs.insert", my)' /\ (calls[r].alone => NewsChecked("prefs.insert", my)')
    BY <1>1, <1>2 DEF NewsPrepared, NewsChecked, Marks
  <2>3. NewsInv' /\ calls'[r].at = "prefs.insert" /\ calls'[r].my = my /\ OthersWait(r)
    BY <1>2, <1>3, <2>1, <2>2, NewsGoesOn
  <2>4. SlotQuiet(r)
    BY <1>1, <1>2, <1>6, <2>3 DEF SlotQuiet, DeliversTo, Inserts, InsertsMark, Carries, Marks, Awaits, My
  <2> QED BY <1>4, <2>3, <2>4, StepQuiet
<1> QED BY <1>5, <1>6

\* An insertion of the preferences takes a slot from those that wait for it.
LEMMA InsertPrefsKeepsNews ==
    ASSUME NewsInv, NEW r \in Slots, NEW have,
           \/ OnPreferences(r) /\ have = My(r).then
           \/ ~OnPreferences(r) /\ have = "notice.insert",
           InsertPrefs(r, have), UNCHANGED <<events, notices, withheld, missed, commentVars>>
    PROVE  /\ NewsInv'
           /\ ToldQuiet /\ MarkQuiet /\ CarryQuiet
           /\ OthersWait(r) /\ calls'[r].at # "prefs.insert"
<1> PICK my : my = My(r)
  OBVIOUS
<1>1. Awaits(r, "prefs.insert") /\ UNCHANGED <<events, notices, withheld, missed, comments, lastRead, shown>>
  BY DEF InsertPrefs, commentVars
<1>2. /\ InFlight(r) /\ have # "free"
      /\ \/ my \in AskLocals /\ have \in {"prefs.return", "prefs.save"} /\ my.event = 0
         \/ /\ my \in DeliveryLocals /\ have = "notice.insert" /\ my.event # 0
            /\ my.event \in DOMAIN events /\ my.user \in events[my.event].to
      /\ my.user \in People /\ prefs[my.user] \in PrefsRow
  BY <1>1, PrefsLocals
<1>3. prefs' = [prefs EXCEPT ![my.user].row = TRUE]
  BY DEF InsertPrefs
<1>4. NewsTables' /\ NewsGrow
  BY <1>1, <1>2, <1>3, PrefsRowed DEF NewsInv
<1>5. PICK next : next = [my EXCEPT !.muted = {}]
  OBVIOUS
<1>6. Await(r, have, next)
  BY <1>5 DEF InsertPrefs
<1>7. {} \in MutedSets /\ my \in AskLocals \cup DeliveryLocals
  BY <1>2 DEF MutedSets
<1>8. /\ my \in AskLocals => next \in AskLocals /\ next.then = my.then
      /\ my \in DeliveryLocals => next \in DeliveryLocals
      /\ next.event = my.event /\ next.user = my.user
  BY <1>5, <1>7, MutedLocals
<1>9. NewsPrepared(have, next)' /\ (calls[r].alone => NewsChecked(have, next)')
  BY <1>1, <1>2, <1>8 DEF NewsPrepared, NewsChecked, Marks
<1>10. NewsInv' /\ calls'[r].at = have /\ calls'[r].my = next /\ OthersWait(r)
  BY <1>2, <1>4, <1>6, <1>9, NewsGoesOn
<1>11. SlotQuiet(r)
  BY <1>1, <1>2, <1>8, <1>10 DEF SlotQuiet, DeliversTo, Inserts, InsertsMark, Carries, Marks, Awaits, My
<1>12. \A s \in Slots : SlotQuiet(s)
  BY <1>10, <1>11, WaitingQuiet DEF OthersWait
<1>13. ToldQuiet
  BY <1>1, <1>12 DEF ToldQuiet, SlotQuiet
<1>14. MarkQuiet
  BY <1>1, <1>12 DEF MarkQuiet, SlotQuiet
<1>15. CarryQuiet
  <2>1. \A s \in Slots : \A c : Carries(s, c)' <=> Carries(s, c)
    BY <1>12 DEF SlotQuiet
  <2> QED BY <1>1, <2>1 DEF CarryQuiet
<1>16. calls'[r].at # "prefs.insert"
  BY <1>2, <1>10
<1> QED BY <1>10, <1>13, <1>14, <1>15, <1>16

\* A request for the preferences, or for their change, loses the race.
LEMMA CollisionKeepsNews ==
    ASSUME NewsInv, NEW r \in Slots, PrefsCollide(r), Answer(r),
           UNCHANGED <<events, notices, withheld, commentVars>>
    PROVE  /\ NewsInv' /\ OthersWait(r) /\ ~InFlight(r)'
           /\ MarkQuiet /\ CarryQuiet
           /\ OnPreferences(r) /\ UNCHANGED missed => ToldQuiet /\ MissQuiet
<1>1. /\ Awaits(r, "prefs.insert") /\ InFlight(r)
      /\ UNCHANGED <<events, prefs, notices, withheld, comments, lastRead, shown>>
  BY DEF PrefsCollide, commentVars, Awaits, InFlight
<1>2. NewsTables' /\ NewsGrow
  BY <1>1, NewsUntouched
<1>3. NewsInv' /\ ~InFlight(r)' /\ OthersWait(r)
  BY <1>1, <1>2, NewsAnswers
<1>4. \A s \in Slots : s # r => SlotQuiet(s)
  BY <1>3, WaitingQuiet DEF OthersWait
<1>5. /\ \A u \in People : ~InsertsMark(r, u)'
      /\ \A c : ~Carries(r, c)' /\ ~Carries(r, c)
      /\ \A u \in People : ~Inserts(r, u)'
      /\ OnPreferences(r) => \A e, u : ~DeliversTo(r, e, u)' /\ ~DeliversTo(r, e, u)
  BY <1>1, <1>3 DEF Inserts, InsertsMark, Carries, DeliversTo, OnPreferences, InFlight, Awaits, Marks
<1>6. MarkQuiet
  BY <1>1, <1>4, <1>5 DEF MarkQuiet, SlotQuiet
<1>7. CarryQuiet
  <2>1. \A s \in Slots : \A c : Carries(s, c)' <=> Carries(s, c)
    BY <1>4, <1>5 DEF SlotQuiet
  <2> QED BY <1>1, <2>1 DEF CarryQuiet
<1>8. ASSUME OnPreferences(r), UNCHANGED missed
      PROVE  ToldQuiet /\ MissQuiet
  <2>1. ToldQuiet
    BY <1>1, <1>4, <1>5, <1>8 DEF ToldQuiet, SlotQuiet
  <2>2. MissQuiet
    BY <1>1, <1>4, <1>5, <1>8 DEF MissQuiet, SlotQuiet
  <2> QED BY <2>1, <2>2
<1> QED BY <1>3, <1>6, <1>7, <1>8

\* The last calls of a request about preferences.
LEMMA AnswersForPreferences ==
    ASSUME NewsInv, NEW r \in Slots, ReturnPreferences(r) \/ SavePreferences(r), UNCHANGED commentVars
    PROVE  NewsInv' /\ Quiet
<1> PICK my : my = My(r)
  OBVIOUS
<1>1. /\ calls[r].at \in {"prefs.return", "prefs.save"} /\ InFlight(r) /\ Answer(r)
      /\ UNCHANGED <<events, notices, withheld, missed, comments, lastRead, shown>>
  BY DEF ReturnPreferences, SavePreferences, Awaits, InFlight, noticeVars, commentVars
<1>2. my \in AskLocals
  BY <1>1 DEF NewsInv, NewsPrepared, Marks
<1>3. my.user \in People /\ my.wanted \in MutedSets
  BY <1>2 DEF AskLocals
<1>4. /\ prefs' \in [People -> PrefsRow]
      /\ \A u \in People : prefs'[u].row = prefs[u].row
  <2>1. CASE ReturnPreferences(r)
    BY <2>1 DEF ReturnPreferences, NewsInv, NewsTables
  <2>2. CASE SavePreferences(r)
    <3>1. prefs' = [prefs EXCEPT ![my.user].muted = my.wanted] /\ prefs \in [People -> PrefsRow]
      BY <2>2 DEF SavePreferences, NewsInv, NewsTables
    <3> QED BY <1>3, <3>1 DEF PrefsRow
  <2> QED BY <2>1, <2>2
<1>5. NewsTables' /\ NewsGrow
  <2>1. Len(comments) \in Nat
    BY Ids DEF NewsInv, NewsTables
  <2>2. NewsTables'
    BY <1>1, <1>4 DEF NewsInv, NewsTables
  <2>3. NewsGrow
    BY <1>1, <2>1 DEF NewsGrow
  <2> QED BY <2>2, <2>3
<1>6. NewsInv' /\ ~InFlight(r)' /\ OthersWait(r)
  BY <1>1, <1>5, NewsAnswers
<1>7. TablesQuiet
  BY <1>1, <1>4 DEF TablesQuiet
<1>8. SlotQuiet(r)
  BY <1>1, <1>6 DEF SlotQuiet, DeliversTo, Inserts, InsertsMark, Carries, Marks, InFlight
<1> QED BY <1>6, <1>7, <1>8, StepQuiet

-----------------------------------------------------------------------------
(* Deliveries.                                                             *)

\* The category's preference, then the insertion: a delivery ends.
LEMMA InsertNoticeKeepsNews ==
    ASSUME NewsInv, NEW r \in Slots, InsertNotice(r), UNCHANGED commentVars
    PROVE  /\ NewsInv' /\ OthersWait(r) /\ ~InFlight(r)'
           /\ MissQuiet /\ MarkQuiet /\ CarryQuiet
           /\ UNCHANGED <<events, missed>>
           /\ \E e, u : /\ DeliversTo(r, e, u)
                        /\ \/ notices' = Append(notices, Notice(u, e)) /\ UNCHANGED withheld
                           \/ withheld' = withheld \cup {<<e, u>>} /\ UNCHANGED notices
<1> PICK my : my = My(r)
  OBVIOUS
<1>1. /\ calls[r].at = "notice.insert" /\ InFlight(r) /\ Answer(r)
      /\ UNCHANGED <<events, prefs, missed, comments, lastRead, shown>>
  BY DEF InsertNotice, Awaits, InFlight, commentVars
<1>2. my \in DeliveryLocals /\ my.event \in DOMAIN events /\ my.user \in events[my.event].to
  BY <1>1 DEF NewsInv, NewsPrepared, Marks
<1>3. my.user \in People /\ my.event \in Nat \ {0}
  BY <1>2 DEF DeliveryLocals
<1>4. \/ notices' = Append(notices, Notice(my.user, my.event)) /\ UNCHANGED withheld
      \/ withheld' = withheld \cup {<<my.event, my.user>>} /\ UNCHANGED notices
  BY DEF InsertNotice
<1>5. notices' \in Seq(NoticeRow) /\ \A n \in DOMAIN notices : n \in DOMAIN notices'
  <2>1. Notice(my.user, my.event) \in NoticeRow
    BY <1>3 DEF Notice, NoticeRow
  <2>2. notices \in Seq(NoticeRow)
    BY DEF NewsInv, NewsTables
  <2>3. CASE UNCHANGED notices
    BY <2>2, <2>3
  <2>4. CASE notices' = Append(notices, Notice(my.user, my.event))
    <3>1. PICK next : next = notices'
      OBVIOUS
    <3>2. next = Append(notices, Notice(my.user, my.event))
      BY <2>4, <3>1
    <3>3. /\ next \in Seq(NoticeRow)
          /\ Len(notices) \in Nat /\ DOMAIN notices = 1..Len(notices)
          /\ DOMAIN next = 1..(Len(notices) + 1)
      BY <2>1, <2>2, <3>2, Inserted
    <3>4. \A n \in DOMAIN notices : n \in DOMAIN next
      BY <3>3
    <3> QED BY <3>1, <3>3, <3>4
  <2> QED BY <1>4, <2>3, <2>4
<1>6. NewsTables' /\ NewsGrow
  <2>1. Len(comments) \in Nat
    BY Ids DEF NewsInv, NewsTables
  <2>2. NewsTables'
    BY <1>1, <1>5 DEF NewsInv, NewsTables
  <2>3. NewsGrow
    BY <1>1, <1>5, <2>1 DEF NewsGrow
  <2> QED BY <2>2, <2>3
<1>7. NewsInv' /\ ~InFlight(r)' /\ OthersWait(r)
  BY <1>1, <1>6, NewsAnswers
<1>8. \A s \in Slots : s # r => SlotQuiet(s)
  BY <1>7, WaitingQuiet DEF OthersWait
<1>9. /\ \A u \in People : ~InsertsMark(r, u)' /\ ~Inserts(r, u)'
      /\ \A c : ~Carries(r, c)' /\ ~Carries(r, c)
  BY <1>1, <1>7 DEF Inserts, InsertsMark, Carries, InFlight, Marks
<1>10. MissQuiet
  BY <1>1, <1>8, <1>9 DEF MissQuiet, SlotQuiet
<1>11. MarkQuiet
  BY <1>1, <1>8, <1>9 DEF MarkQuiet, SlotQuiet
<1>12. CarryQuiet
  <2>1. \A s \in Slots : \A c : Carries(s, c)' <=> Carries(s, c)
    BY <1>8, <1>9 DEF SlotQuiet
  <2> QED BY <1>1, <2>1 DEF CarryQuiet
<1>13. DeliversTo(r, my.event, my.user)
  BY <1>1, <1>3 DEF DeliversTo
<1> QED BY <1>1, <1>4, <1>7, <1>10, <1>11, <1>12, <1>13

\* What follows an event is known by its place and its kind.
LEMMA DeliveryIs ==
    ASSUME NEW e, NEW u, NEW type
    PROVE  /\ Delivery(e, u, Category(type)).event = e
           /\ Delivery(e, u, Category(type)).user = u
           /\ e \in Nat \ {0} /\ u \in People => Delivery(e, u, Category(type)) \in DeliveryLocals
<1>1. Category(type) \in {"tasks", "projects", "announcements"}
  BY DEF Category
<1>2. {} \in MutedSets
  BY DEF MutedSets
<1> QED BY <1>1, <1>2 DEF Delivery, DeliveryLocals

\* An event is one more, and what it is about is a comment or nothing.
LEMMA EventAdded ==
    ASSUME NewsTables, NEW about \in Nat, NEW users \in SUBSET People,
           events' = Append(events, [about |-> about, to |-> users]),
           UNCHANGED <<prefs, notices, comments, lastRead, shown>>
    PROVE  /\ NewsTables' /\ NewsGrow
           /\ Len(events) \in Nat /\ DOMAIN events = 1..Len(events)
           /\ Len(events) + 1 \in Nat \ {0}
           /\ Len(events) + 1 \in DOMAIN events'
           /\ Len(events) + 1 \notin DOMAIN events
           /\ events'[Len(events) + 1].about = about /\ events'[Len(events) + 1].to = users
           /\ \A e \in DOMAIN events' : e \in DOMAIN events \/ e = Len(events) + 1
<1> PICK row : row = [about |-> about, to |-> users]
  OBVIOUS
<1>1. row \in EventRow /\ row.about = about /\ row.to = users
  BY DEF EventRow
<1>2. PICK next : next = events'
  OBVIOUS
<1>3. events \in Seq(EventRow) /\ next = Append(events, row)
  BY <1>2 DEF NewsTables
<1>4. /\ next \in Seq(EventRow)
      /\ Len(events) \in Nat /\ DOMAIN events = 1..Len(events)
      /\ DOMAIN next = 1..(Len(events) + 1)
      /\ next[Len(events) + 1] = row
      /\ \A i \in DOMAIN events : next[i] = events[i]
      /\ \A i \in DOMAIN next : i \in DOMAIN events \/ i = Len(events) + 1
  BY <1>1, <1>3, Inserted
<1>5. NewsTables'
  BY <1>2, <1>4 DEF NewsTables
<1>6. Len(comments) \in Nat
  BY Ids DEF NewsTables
<1>7. /\ \A i \in DOMAIN events : i \in DOMAIN next
      /\ Len(events) + 1 \in DOMAIN next /\ Len(events) + 1 \notin DOMAIN events
      /\ Len(events) + 1 \in Nat \ {0}
  BY <1>4
<1>8. NewsGrow
  BY <1>2, <1>4, <1>6, <1>7 DEF NewsGrow
<1> QED BY <1>1, <1>2, <1>4, <1>5, <1>7, <1>8

\* The event that comes next, and its deliveries to the users.
NewlyTold(users) == \E e :
    /\ UNCHANGED <<notices, missed>>
    /\ e \notin DOMAIN events /\ e \in DOMAIN events' /\ events'[e].to = users
    /\ \A d \in DOMAIN events : d \in DOMAIN events' /\ events'[d] = events[d]
    /\ \A d \in DOMAIN events' : d \in DOMAIN events \/ d = e
    /\ \A s \in Slots : \A d, u : d # e => (DeliversTo(s, d, u)' <=> DeliversTo(s, d, u))
    /\ \A s \in Slots : \A u : DeliversTo(s, e, u)' => u \in users
    /\ \A s, t \in Slots : \A u : DeliversTo(s, e, u)' /\ DeliversTo(t, e, u)' => s = t
    /\ withheld' = withheld \/ withheld' = withheld \cup {<<e, u>> : u \in users}
    /\ \A u \in users : \/ <<e, u>> \in withheld'
                        \/ \E s \in Slots : DeliversTo(s, e, u)'

\* No delivery is under way of an event that is yet to come.
LEMMA NoneBefore ==
    ASSUME NewsInv, NEW s \in Slots, NEW e, NEW u, DeliversTo(s, e, u)
    PROVE  e \in DOMAIN events /\ u \in events[e].to /\ e # Len(events) + 1
<1>1. InFlight(s)
  BY DEF DeliversTo, InFlight
<1>2. My(s) \in DeliveryLocals /\ e \in DOMAIN events /\ u \in events[e].to
  BY <1>1 DEF NewsInv, NewsPrepared, DeliversTo, AskLocals, MarkLocals, Marks
<1>3. Len(events) \in Nat /\ DOMAIN events = 1..Len(events)
  BY Ids DEF NewsInv, NewsTables
<1>4. Len(events) + 1 \notin DOMAIN events
  BY <1>3
<1> QED BY <1>2, <1>4

\* An administrator's notification.
LEMMA AdminCreatesKeepsNews ==
    ASSUME NewsInv, NEW r \in Slots, NEW u \in People, NEW type, AdminCreates(r, u, type),
           UNCHANGED commentVars
    PROVE  /\ NewsInv' /\ NewlyTold({u})
           /\ MissQuiet /\ MarkQuiet /\ CarryQuiet
<1> PICK given : given = Delivery(Len(events) + 1, u, Category(type))
  OBVIOUS
<1>1. /\ Receive(r, "prefs.find", given)
      /\ events' = Append(events, [about |-> 0, to |-> {u}])
      /\ UNCHANGED <<prefs, notices, withheld, missed, comments, lastRead, shown>>
  BY DEF AdminCreates, noticeVars, commentVars
<1>2. /\ NewsTables' /\ NewsGrow
      /\ Len(events) + 1 \in Nat \ {0}
      /\ Len(events) + 1 \in DOMAIN events' /\ Len(events) + 1 \notin DOMAIN events
      /\ events'[Len(events) + 1].about = 0 /\ events'[Len(events) + 1].to = {u}
      /\ \A e \in DOMAIN events' : e \in DOMAIN events \/ e = Len(events) + 1
  BY <1>1, EventAdded DEF NewsInv
<1>3. given \in DeliveryLocals /\ given.event = Len(events) + 1 /\ given.user = u
  BY <1>2, DeliveryIs
<1>4. NewsPrepared("prefs.find", given)' /\ NewsChecked("prefs.find", given)'
  BY <1>2, <1>3 DEF NewsPrepared, NewsChecked, Marks
<1>5. /\ NewsInv' /\ ~InFlight(r)
      /\ calls'[r].at = "prefs.find" /\ calls'[r].my = given /\ OthersWait(r)
  BY <1>1, <1>2, <1>4, NewsReceives
<1>6. \A s \in Slots : s # r => SlotQuiet(s)
  BY <1>5, WaitingQuiet DEF OthersWait
<1>7. /\ \A v \in People : ~InsertsMark(r, v)' /\ ~Inserts(r, v)'
      /\ \A c : ~Carries(r, c)' /\ ~Carries(r, c)
  BY <1>5 DEF Inserts, InsertsMark, Carries, InFlight, Marks
<1>8. MissQuiet
  BY <1>1, <1>6, <1>7 DEF MissQuiet, SlotQuiet
<1>9. MarkQuiet
  BY <1>1, <1>6, <1>7 DEF MarkQuiet, SlotQuiet
<1>10. \A e \in DOMAIN events : e \in DOMAIN events' /\ events'[e] = events[e]
  BY <1>2 DEF NewsGrow
<1>11. CarryQuiet
  <2>1. \A s \in Slots : \A c : Carries(s, c)' <=> Carries(s, c)
    BY <1>6, <1>7 DEF SlotQuiet
  <2> QED BY <1>1, <1>2, <1>10, <2>1 DEF CarryQuiet
<1>0. PICK e : e = Len(events) + 1
  OBVIOUS
<1>12. /\ \A s \in Slots : s # r => \A d, v : DeliversTo(s, d, v)' <=> DeliversTo(s, d, v)
       /\ \A d, v : ~DeliversTo(r, d, v)
       /\ \A d, v : DeliversTo(r, d, v)' <=> d = e /\ v = u
  <2>1. \A d, v : ~DeliversTo(r, d, v)
    BY <1>5 DEF DeliversTo, InFlight
  <2>2. \A d, v : DeliversTo(r, d, v)' <=> d = e /\ v = u
    BY <1>0, <1>2, <1>3, <1>5 DEF DeliversTo, My
  <2> QED BY <1>6, <2>1, <2>2 DEF SlotQuiet
<1>13. \A s \in Slots : \A v : DeliversTo(s, e, v)' <=> s = r /\ v = u
  BY <1>0, <1>12, NoneBefore
<1>14. NewlyTold({u})
  BY <1>0, <1>1, <1>2, <1>10, <1>12, <1>13 DEF NewlyTold
<1> QED BY <1>5, <1>8, <1>9, <1>11, <1>14

\* An event is announced.
LEMMA AnnounceKeepsNews ==
    ASSUME NewsInv, NEW type, NEW users \in SUBSET People, NEW about \in Nat, NEW from \in SUBSET Slots,
           Announce(type, users, about, from), UNCHANGED commentVars,
           \A s \in from : calls[s].at = "comment.task"
    PROVE  /\ NewsInv' /\ NewlyTold(users)
           /\ MissQuiet /\ MarkQuiet
           /\ about = 0 /\ from = {} => CarryQuiet
           /\ events'[Len(events) + 1].about = about
           /\ \A s \in Slots : \A c : Carries(s, c)' <=> s \notin from /\ Carries(s, c)
<1>1. /\ events' = Append(events, [about |-> about, to |-> users])
      /\ UNCHANGED <<prefs, notices, missed, comments, lastRead, shown>>
  BY DEF Announce, commentVars
<1>2. /\ NewsTables' /\ NewsGrow
      /\ Len(events) + 1 \in Nat \ {0}
      /\ Len(events) + 1 \in DOMAIN events' /\ Len(events) + 1 \notin DOMAIN events
      /\ events'[Len(events) + 1].about = about /\ events'[Len(events) + 1].to = users
      /\ \A e \in DOMAIN events' : e \in DOMAIN events \/ e = Len(events) + 1
  BY <1>1, EventAdded DEF NewsInv
<1>3. /\ SlotInv'
      /\ \A s \in Slots : SlotAfter(s, users, type, from)
      /\ type \in off => \A s \in Slots : InFlight(s)' => s \notin from /\ calls'[s] = calls[s]
      /\ type \notin off =>
            /\ \A s \in Slots : ~calls'[s].alone \/ ~InFlight(s)'
            /\ \A u \in users : \E s \in Slots : Delivers(s, u, type)
            /\ \E place : \A s \in Slots, u \in users : Delivers(s, u, type) /\ (s \in from \/ ~InFlight(s))
                                                        => place[u] = s
  BY AnnouncedSlots DEF NewsInv
<1>4. PICK e : e = Len(events) + 1
  OBVIOUS
<1>5. \A s \in Slots, u \in users : Delivers(s, u, type) =>
         /\ calls'[s].at = "prefs.find" /\ ~calls'[s].alone
         /\ calls'[s].my \in DeliveryLocals /\ calls'[s].my.event = e /\ calls'[s].my.user = u
  <2> SUFFICES ASSUME NEW s \in Slots, NEW u \in users, Delivers(s, u, type)
               PROVE  /\ calls'[s].at = "prefs.find" /\ ~calls'[s].alone
                      /\ calls'[s].my \in DeliveryLocals /\ calls'[s].my.event = e /\ calls'[s].my.user = u
    OBVIOUS
  <2>1. u \in People
    OBVIOUS
  <2>2. /\ Delivery(e, u, Category(type)).event = e
        /\ Delivery(e, u, Category(type)).user = u
        /\ Delivery(e, u, Category(type)) \in DeliveryLocals
    BY <1>2, <1>4, <2>1, DeliveryIs
  <2> QED BY <1>4, <2>2 DEF Delivers
<1>6. \A s \in Slots : \/ s \in from /\ ~InFlight(s)'
                       \/ s \notin from /\ calls'[s].at = calls[s].at /\ calls'[s].my = calls[s].my
                       \/ (s \in from \/ ~InFlight(s)) /\ \E u \in users : Delivers(s, u, type)
  BY <1>3 DEF SlotAfter
<1>7. NewsInv'
  <2> SUFFICES ASSUME NEW s \in Slots, InFlight(s)'
               PROVE  /\ NewsPrepared(calls[s].at, calls[s].my)'
                      /\ calls'[s].alone => NewsChecked(calls[s].at, calls[s].my)'
    BY <1>2, <1>3 DEF NewsInv, My
  <2>1. CASE \E u \in users : Delivers(s, u, type)
    BY <1>2, <1>4, <1>5, <2>1 DEF NewsPrepared
  <2>2. CASE ~\E u \in users : Delivers(s, u, type)
    <3>1. /\ calls'[s].at = calls[s].at /\ calls'[s].my = calls[s].my
          /\ calls'[s].alone => calls[s].alone
      BY <1>3, <2>2 DEF SlotAfter
    <3>2. PICK at, my : at = calls[s].at /\ my = calls[s].my
      OBVIOUS
    <3>3. NewsPrepared(at, my) /\ (calls[s].alone => NewsChecked(at, my))
      BY <3>1, <3>2 DEF NewsInv, InFlight, My
    <3>4. NewsPrepared(at, my)'
      BY <1>2, <3>3, PreparedGrows DEF NewsInv
    <3>5. NewsChecked(at, my) => NewsChecked(at, my)'
      BY <1>1 DEF NewsChecked, LiveComments
    <3>6. calls'[s].at = at /\ calls'[s].my = my
      BY <3>1, <3>2
    <3> QED BY <3>1, <3>3, <3>4, <3>5, <3>6 DEF NewsPrepared, NewsChecked
  <2> QED BY <2>1, <2>2
<1>8. \A s \in Slots : \/ /\ s \in from \/ ~InFlight(s)
                          /\ \A d, u : ~DeliversTo(s, d, u)
                          /\ \A u \in People : ~Inserts(s, u)' /\ ~InsertsMark(s, u)'
                          /\ \A c : ~Carries(s, c)' /\ (s \notin from => ~Carries(s, c))
                       \/ s \notin from /\ SlotQuiet(s)
  <2> SUFFICES ASSUME NEW s \in Slots, s \notin from => ~InFlight(s),
                      calls'[s].at \in {"free", "prefs.find"}
               PROVE  /\ \A d, u : ~DeliversTo(s, d, u)
                      /\ \A u \in People : ~Inserts(s, u)' /\ ~InsertsMark(s, u)'
                      /\ \A c : ~Carries(s, c)' /\ (s \notin from => ~Carries(s, c))
    BY <1>5, <1>6, WaitingQuiet DEF InFlight
  <2> QED BY DEF DeliversTo, Inserts, InsertsMark, Carries, Marks, InFlight
<1>9. MissQuiet
  BY <1>1, <1>8 DEF MissQuiet, SlotQuiet
<1>10. MarkQuiet
  BY <1>1, <1>8 DEF MarkQuiet, SlotQuiet
<1>11. \A s \in Slots : \A c : Carries(s, c)' <=> s \notin from /\ Carries(s, c)
  BY <1>8 DEF SlotQuiet
<1>12. \A d \in DOMAIN events : d \in DOMAIN events' /\ events'[d] = events[d]
  BY <1>2 DEF NewsGrow
<1>13. about = 0 /\ from = {} => CarryQuiet
  <2> SUFFICES ASSUME about = 0, from = {}
               PROVE  CarryQuiet
    OBVIOUS
  <2>1. \A s \in Slots : \A c : Carries(s, c)' <=> Carries(s, c)
    BY <1>11
  <2> QED BY <1>1, <1>2, <1>12, <2>1 DEF CarryQuiet
<1>14. NewlyTold(users)
  <2>1. \A s \in Slots : \A d, u : DeliversTo(s, d, u)' =>
           \/ s \notin from /\ DeliversTo(s, d, u)
           \/ d = e /\ u \in users /\ Delivers(s, u, type) /\ (s \in from \/ ~InFlight(s))
    <3> SUFFICES ASSUME NEW s \in Slots, NEW d, NEW u, DeliversTo(s, d, u)',
                        ~(s \notin from /\ DeliversTo(s, d, u))
                 PROVE  d = e /\ u \in users /\ Delivers(s, u, type) /\ (s \in from \/ ~InFlight(s))
      OBVIOUS
    <3>1. InFlight(s)'
      BY DEF DeliversTo, InFlight
    <3>2. ~(s \notin from /\ calls'[s].at = calls[s].at /\ calls'[s].my = calls[s].my)
      BY DEF DeliversTo, My
    <3>3. PICK v \in users : Delivers(s, v, type) /\ (s \in from \/ ~InFlight(s))
      BY <1>6, <3>1, <3>2
    <3>4. calls'[s].my.event = d /\ calls'[s].my.user = u
      BY DEF DeliversTo, My
    <3> QED BY <1>5, <3>3, <3>4
  <2>2. \A s \in Slots : \A d, u : DeliversTo(s, d, u) => DeliversTo(s, d, u)'
    BY <1>8 DEF SlotQuiet
  <2>3. \A s \in Slots : \A u : ~DeliversTo(s, e, u)
    BY <1>4, NoneBefore
  <2>4. \A s \in Slots : \A d, u : d # e => (DeliversTo(s, d, u)' <=> DeliversTo(s, d, u))
    BY <2>1, <2>2
  <2>5. \A s \in Slots : \A u : DeliversTo(s, e, u)' => u \in users
    BY <2>1, <2>3
  <2>6. \A s, t \in Slots : \A u : DeliversTo(s, e, u)' /\ DeliversTo(t, e, u)' => s = t
    <3> SUFFICES ASSUME NEW s \in Slots, NEW t \in Slots, NEW u, DeliversTo(s, e, u)', DeliversTo(t, e, u)'
                 PROVE  s = t
      OBVIOUS
    <3>1. /\ u \in users
          /\ Delivers(s, u, type) /\ (s \in from \/ ~InFlight(s))
          /\ Delivers(t, u, type) /\ (t \in from \/ ~InFlight(t))
      BY <2>1, <2>3
    <3>2. type \notin off
      <4>1. InFlight(s)' /\ s \notin from => InFlight(s) \/ ~InFlight(s)
        OBVIOUS
      <4>2. InFlight(s)'
        BY DEF DeliversTo, InFlight
      <4>3. type \in off => s \notin from /\ calls'[s] = calls[s]
        BY <1>3, <4>2
      <4> QED BY <3>1, <4>2, <4>3 DEF InFlight
    <3> QED BY <1>3, <3>1, <3>2
  <2>7. /\ withheld' = withheld \/ withheld' = withheld \cup {<<e, u>> : u \in users}
        /\ \A u \in users : \/ <<e, u>> \in withheld'
                            \/ \E s \in Slots : DeliversTo(s, e, u)'
    <3>1. CASE type \in off
      <4>1. withheld' = withheld \cup {<<e, u>> : u \in users}
        BY <1>4, <3>1 DEF Announce
      <4> QED BY <4>1
    <3>2. CASE type \notin off
      <4>1. withheld' = withheld
        BY <3>2 DEF Announce
      <4>2. ASSUME NEW u \in users
            PROVE  \E s \in Slots : DeliversTo(s, e, u)'
        <5>1. PICK s \in Slots : Delivers(s, u, type)
          BY <1>3, <3>2
        <5>2. calls'[s].at = "prefs.find" /\ calls'[s].my.event = e /\ calls'[s].my.user = u /\ e # 0
          BY <1>2, <1>4, <1>5, <5>1
        <5> QED BY <5>2 DEF DeliversTo, My
      <4> QED BY <4>1, <4>2
    <3> QED BY <3>1, <3>2
  <2>8. /\ UNCHANGED <<notices, missed>>
        /\ e \notin DOMAIN events /\ e \in DOMAIN events' /\ events'[e].to = users
        /\ \A d \in DOMAIN events' : d \in DOMAIN events \/ d = e
    BY <1>1, <1>2, <1>4
  <2> QED BY <1>12, <2>4, <2>5, <2>6, <2>7, <2>8 DEF NewlyTold
<1> QED BY <1>2, <1>7, <1>9, <1>10, <1>11, <1>13, <1>14

-----------------------------------------------------------------------------
(* What people do with their notifications.                                *)

\* Notifications that get another state.
LEMMA NoticesSettle ==
    ASSUME NewsTables, UNCHANGED <<events, withheld, missed, prefs, comments, lastRead, shown>>,
           notices' = [n \in DOMAIN notices |-> notices'[n]],
           \A n \in DOMAIN notices : /\ notices'[n] \in NoticeRow
                                     /\ notices'[n].to = notices[n].to /\ notices'[n].of = notices[n].of
    PROVE  NewsTables' /\ NewsGrow /\ TablesQuiet
<1>1. PICK next : next = notices'
  OBVIOUS
<1>2. next = [n \in DOMAIN notices |-> next[n]] /\ \A n \in DOMAIN notices : next[n] \in NoticeRow
  BY <1>1
<1>3. notices \in Seq(NoticeRow)
  BY DEF NewsTables
<1>4. next \in Seq(NoticeRow) /\ DOMAIN next = DOMAIN notices
  BY <1>2, <1>3, Rewritten
<1>5. Len(comments) \in Nat
  BY Ids DEF NewsTables
<1>6. NewsTables'
  BY <1>1, <1>4 DEF NewsTables
<1>7. NewsGrow
  BY <1>1, <1>4, <1>5 DEF NewsGrow
<1>8. TablesQuiet
  BY <1>1, <1>4 DEF TablesQuiet
<1> QED BY <1>6, <1>7, <1>8

\* A notice in another state.
LEMMA NoticeState ==
    ASSUME NEW row \in NoticeRow, NEW state \in {"unread", "read", "gone"},
           NEW next, next = [row EXCEPT !.state = state]
    PROVE  next \in NoticeRow /\ next.to = row.to /\ next.of = row.of /\ next.state = state
BY DEF NoticeRow

\* One notice is marked as read,
LEMMA ReadNoticeKeepsNews ==
    ASSUME NewsInv, NEW r \in Slots, NEW n \in DOMAIN notices, ReadNotice(r, n), UNCHANGED commentVars
    PROVE  NewsInv' /\ Quiet
<1> PICK given : given = [event |-> 0, id |-> n]
  OBVIOUS
<1>1. /\ UNCHANGED <<events, prefs, notices, withheld, missed, comments, lastRead, shown>>
      /\ Receive(r, "notice.save", given) /\ notices[n].state # "gone"
  BY DEF ReadNotice, Exists, noticeVars, commentVars
<1>2. given.event = 0 /\ given.id = n
  OBVIOUS
<1>3. NewsTables' /\ NewsGrow
  BY <1>1, NewsUntouched
<1>4. NewsPrepared("notice.save", given)' /\ NewsChecked("notice.save", given)'
  BY <1>1, <1>2 DEF NewsPrepared, NewsChecked, Marks
<1>5. /\ NewsInv' /\ ~InFlight(r)
      /\ calls'[r].at = "notice.save" /\ calls'[r].my = given /\ OthersWait(r)
  BY <1>1, <1>3, <1>4, NewsReceives
<1>6. TablesQuiet
  BY <1>1 DEF TablesQuiet
<1>7. SlotQuiet(r)
  BY <1>5 DEF SlotQuiet, DeliversTo, Inserts, InsertsMark, Carries, Marks, InFlight
<1> QED BY <1>5, <1>6, <1>7, StepQuiet

\* and saved,
LEMMA SaveNoticeKeepsNews ==
    ASSUME NewsInv, NEW r \in Slots, SaveNotice(r), UNCHANGED commentVars
    PROVE  NewsInv' /\ Quiet
<1> PICK id : id = My(r).id
  OBVIOUS
<1>1. /\ calls[r].at = "notice.save" /\ InFlight(r) /\ Answer(r)
      /\ UNCHANGED <<events, withheld, missed, prefs, comments, lastRead, shown>>
      /\ notices' = [notices EXCEPT ![id].state = "read"]
  BY DEF SaveNotice, Awaits, InFlight, commentVars
<1>2. id \in DOMAIN notices
  BY <1>1 DEF NewsInv, NewsPrepared, Marks
<1>3. NewsTables /\ \A n \in DOMAIN notices : notices[n] \in NoticeRow
  BY Ids DEF NewsInv, NewsTables
<1>4. /\ notices' = [n \in DOMAIN notices |-> notices'[n]]
      /\ \A n \in DOMAIN notices : n # id => notices'[n] = notices[n]
      /\ notices'[id] = [notices[id] EXCEPT !.state = "read"]
  BY <1>1, <1>2
<1>5. notices'[id] \in NoticeRow /\ notices'[id].to = notices[id].to /\ notices'[id].of = notices[id].of
  BY <1>2, <1>3, <1>4, NoticeState
<1>6. \A n \in DOMAIN notices : /\ notices'[n] \in NoticeRow
                                /\ notices'[n].to = notices[n].to /\ notices'[n].of = notices[n].of
  BY <1>3, <1>4, <1>5
<1>7. NewsTables' /\ NewsGrow /\ TablesQuiet
  BY <1>1, <1>3, <1>4, <1>6, NoticesSettle
<1>8. NewsInv' /\ ~InFlight(r)' /\ OthersWait(r)
  BY <1>1, <1>7, NewsAnswers
<1>9. SlotQuiet(r)
  BY <1>1, <1>8 DEF SlotQuiet, DeliversTo, Inserts, InsertsMark, Carries, Marks, InFlight
<1> QED BY <1>7, <1>8, <1>9, StepQuiet

\* or many at once, in one call.
LEMMA SettleKeepsNews ==
    ASSUME NewsInv, NEW ids, NEW state \in {"read", "gone"}, Settle(ids, state), UNCHANGED commentVars
    PROVE  NewsInv' /\ Quiet
<1>1. /\ AtOnce
      /\ UNCHANGED <<events, withheld, missed, prefs, comments, lastRead, shown>>
      /\ notices' = [n \in DOMAIN notices |->
                       IF n \in ids THEN [notices[n] EXCEPT !.state = state] ELSE notices[n]]
  BY DEF Settle, commentVars
<1>2. NewsTables /\ \A n \in DOMAIN notices : notices[n] \in NoticeRow
  BY Ids DEF NewsInv, NewsTables
<1>3. ASSUME NEW n \in DOMAIN notices
      PROVE  /\ notices'[n] \in NoticeRow
             /\ notices'[n].to = notices[n].to /\ notices'[n].of = notices[n].of
  <2>1. CASE n \in ids
    <3>1. notices'[n] = [notices[n] EXCEPT !.state = state]
      BY <1>1, <2>1
    <3> QED BY <1>2, <3>1, NoticeState
  <2>2. CASE n \notin ids
    BY <1>1, <1>2, <2>2
  <2> QED BY <2>1, <2>2
<1>4. notices' = [n \in DOMAIN notices |-> notices'[n]]
  BY <1>1
<1>5. NewsTables' /\ NewsGrow /\ TablesQuiet
  BY <1>1, <1>2, <1>3, <1>4, NoticesSettle
<1>6. NewsInv' /\ \A s \in Slots : calls'[s].at = calls[s].at /\ calls'[s].my = calls[s].my
  BY <1>1, <1>5, NewsAtOnce
<1> QED BY <1>5, <1>6, StoodQuiet

\* An event is switched on or off.
LEMMA SwitchKeepsNews ==
    ASSUME NewsInv, NEW type, NEW enabled, SwitchEvent(type, enabled), UNCHANGED commentVars
    PROVE  NewsInv' /\ Quiet
<1>1. AtOnce /\ UNCHANGED <<events, prefs, notices, withheld, missed, comments, lastRead, shown>>
  BY DEF SwitchEvent, noticeVars, commentVars
<1>2. NewsTables' /\ NewsGrow
  BY <1>1, NewsUntouched
<1>3. NewsInv' /\ \A s \in Slots : calls'[s].at = calls[s].at /\ calls'[s].my = calls[s].my
  BY <1>1, <1>2, NewsAtOnce
<1>4. TablesQuiet
  BY <1>1 DEF TablesQuiet
<1> QED BY <1>3, <1>4, StoodQuiet

-----------------------------------------------------------------------------
(* Comments.                                                               *)

\* What a handler that marks the comments knows.
LEMMA MarkKnows ==
    ASSUME NewsInv, NEW r \in Slots, calls[r].at \in Marks \cup {"comment.task"}
    PROVE  /\ InFlight(r) /\ My(r) \in MarkLocals
           /\ My(r).user \in People /\ My(r).comment \in Nat /\ My(r).upTo \in Nat
           /\ My(r).read \in SUBSET Nat
           /\ My(r).upTo <= Len(comments)
           /\ \/ My(r).comment = 0 /\ calls[r].at # "comment.task"
              \/ My(r).comment \in DOMAIN comments /\ comments[My(r).comment].by = My(r).user
<1>1. InFlight(r)
  BY DEF InFlight, Marks
<1>2. /\ My(r) \in MarkLocals /\ My(r).upTo <= Len(comments)
      /\ \/ My(r).comment = 0 /\ calls[r].at # "comment.task"
         \/ My(r).comment \in DOMAIN comments /\ comments[My(r).comment].by = My(r).user
  <2>1. NewsPrepared(calls[r].at, My(r))
    BY <1>1 DEF NewsInv
  <2> QED BY <2>1 DEF NewsPrepared, Marks
<1> QED BY <1>1, <1>2 DEF MarkLocals

\* What a handler that marks knows at first.
LEMMA MarkingIs ==
    ASSUME NEW u \in People, NEW comment \in Nat, NEW read \in SUBSET Nat
    PROVE  /\ Marking(u, comment, read) \in MarkLocals
           /\ Marking(u, comment, read).comment = comment
           /\ Marking(u, comment, read).user = u
           /\ Marking(u, comment, read).read = read
           /\ Marking(u, comment, read).upTo = 0
BY DEF Marking, MarkLocals

\* A comment is one more, and its author's handler carries it.
LEMMA CreateCommentKeepsNews ==
    ASSUME NewsInv, NEW r \in Slots, NEW u \in Authors, CreateComment(r, u),
           UNCHANGED <<events, prefs, off, noticeVars>>
    PROVE  /\ NewsInv'
           /\ ToldQuiet /\ MissQuiet /\ MarkQuiet
           /\ UNCHANGED events
           /\ \E c : /\ c \in Nat \ {0} /\ c \notin DOMAIN comments
                     /\ \A d \in DOMAIN comments' : d \in DOMAIN comments \/ d = c
                     /\ Carries(r, c)'
                     /\ \A s \in Slots : \A d : Carries(s, d)' <=> Carries(s, d) \/ (s = r /\ d = c)
<1>1. PICK c : c = Len(comments) + 1
  OBVIOUS
<1>2. PICK given : given = Marking(u, c, {})
  OBVIOUS
<1>3. /\ Receive(r, "mark.find", given)
      /\ comments' = Append(comments, [by |-> u, live |-> TRUE])
      /\ UNCHANGED <<events, prefs, notices, withheld, missed, lastRead, shown>>
  BY <1>1, <1>2 DEF CreateComment, noticeVars
<1>4. u \in People
  BY AuthorsAssumption
<1>5. PICK row : row = [by |-> u, live |-> TRUE]
  OBVIOUS
<1>6. row \in CommentRow /\ row.by = u
  BY <1>4, <1>5 DEF CommentRow
<1>7. PICK next : next = comments'
  OBVIOUS
<1>8. comments \in Seq(CommentRow) /\ next = Append(comments, row)
  BY <1>3, <1>5, <1>7 DEF NewsInv, NewsTables
<1>9. /\ next \in Seq(CommentRow)
      /\ Len(comments) \in Nat /\ DOMAIN comments = 1..Len(comments)
      /\ Len(next) = Len(comments) + 1 /\ DOMAIN next = 1..(Len(comments) + 1)
      /\ next[Len(comments) + 1] = row
      /\ \A i \in DOMAIN comments : next[i] = comments[i]
      /\ \A i \in DOMAIN next : i \in DOMAIN comments \/ i = Len(comments) + 1
  BY <1>6, <1>8, Inserted
<1>10. /\ c \in Nat \ {0} /\ c \notin DOMAIN comments /\ c \in DOMAIN next /\ next[c].by = u
       /\ Len(comments) <= Len(next) /\ 0 <= Len(next)
       /\ \A i \in DOMAIN comments : i \in DOMAIN next
       /\ \A i \in DOMAIN next : i \in DOMAIN comments \/ i = c
  BY <1>1, <1>6, <1>9
<1>11. NewsTables'
  <2>1. \A v \in People : lastRead[v].upTo <= Len(next)
    <3> SUFFICES ASSUME NEW v \in People
                 PROVE  lastRead[v].upTo <= Len(next)
      OBVIOUS
    <3>1. lastRead[v].upTo \in Nat /\ lastRead[v].upTo <= Len(comments)
      BY DEF NewsInv, NewsTables, ReadRow
    <3> QED BY <1>9, <3>1
  <2> QED BY <1>3, <1>7, <1>9, <2>1 DEF NewsInv, NewsTables
<1>12. NewsGrow
  BY <1>3, <1>7, <1>9, <1>10 DEF NewsGrow
<1>13. given \in MarkLocals /\ given.comment = c /\ given.user = u /\ given.upTo = 0
  <2>1. {} \in SUBSET Nat /\ c \in Nat
    BY <1>10
  <2> QED BY <1>2, <1>4, <2>1, MarkingIs
<1>14. NewsPrepared("mark.find", given)' /\ NewsChecked("mark.find", given)'
  BY <1>7, <1>10, <1>13 DEF NewsPrepared, NewsChecked, Marks
<1>15. /\ NewsInv' /\ ~InFlight(r)
       /\ calls'[r].at = "mark.find" /\ calls'[r].my = given /\ OthersWait(r)
  BY <1>3, <1>11, <1>12, <1>14, NewsReceives
<1>16. \A s \in Slots : s # r => SlotQuiet(s)
  BY <1>15, WaitingQuiet DEF OthersWait
<1>17. /\ \A v \in People : ~InsertsMark(r, v)' /\ ~Inserts(r, v)'
       /\ \A e, v : ~DeliversTo(r, e, v)' /\ ~DeliversTo(r, e, v)
       /\ \A d : (Carries(r, d)' <=> d = c) /\ ~Carries(r, d)
  <2>1. /\ \A v \in People : ~InsertsMark(r, v)' /\ ~Inserts(r, v)'
        /\ \A e, v : ~DeliversTo(r, e, v)' /\ ~DeliversTo(r, e, v)
        /\ \A d : ~Carries(r, d)
    BY <1>15 DEF Inserts, InsertsMark, Carries, DeliversTo, InFlight, Marks
  <2>2. \A d : Carries(r, d)' <=> d = c
    BY <1>10, <1>13, <1>15 DEF Carries, Marks, My
  <2> QED BY <2>1, <2>2
<1>18. ToldQuiet
  BY <1>3, <1>16, <1>17 DEF ToldQuiet, SlotQuiet
<1>19. MissQuiet
  BY <1>3, <1>16, <1>17 DEF MissQuiet, SlotQuiet
<1>20. MarkQuiet
  BY <1>3, <1>16, <1>17 DEF MarkQuiet, SlotQuiet
<1>21. \A s \in Slots : \A d : Carries(s, d)' <=> Carries(s, d) \/ (s = r /\ d = c)
  BY <1>16, <1>17 DEF SlotQuiet
<1>22. \A d \in DOMAIN comments' : d \in DOMAIN comments \/ d = c
  BY <1>7, <1>10
<1> QED BY <1>3, <1>10, <1>15, <1>17, <1>18, <1>19, <1>20, <1>21, <1>22

\* A listing begins.
LEMMA ListCommentsKeepsNews ==
    ASSUME NewsInv, NEW r \in Slots, NEW u \in People, ListComments(r, u),
           UNCHANGED <<events, prefs, off, noticeVars>>
    PROVE  NewsInv' /\ Quiet
<1>1. PICK given : given = Marking(u, 0, LiveComments)
  OBVIOUS
<1>2. /\ Receive(r, "mark.find", given)
      /\ UNCHANGED <<events, prefs, notices, withheld, missed, comments, lastRead, shown>>
  BY <1>1 DEF ListComments, commentVars, noticeVars
<1>3. Len(comments) \in Nat /\ DOMAIN comments = 1..Len(comments)
  BY Ids DEF NewsInv, NewsTables
<1>4. LiveComments \in SUBSET Nat
  BY <1>3 DEF LiveComments
<1>5. given \in MarkLocals /\ given.comment = 0 /\ given.read = LiveComments /\ given.upTo = 0
  BY <1>1, <1>4, MarkingIs
<1>6. NewsTables' /\ NewsGrow
  BY <1>2, NewsUntouched
<1>7. LiveComments' = LiveComments
  BY <1>2 DEF LiveComments
<1>8. NewsPrepared("mark.find", given)' /\ NewsChecked("mark.find", given)'
  BY <1>2, <1>3, <1>5, <1>7 DEF NewsPrepared, NewsChecked, Marks
<1>9. /\ NewsInv' /\ ~InFlight(r)
      /\ calls'[r].at = "mark.find" /\ calls'[r].my = given /\ OthersWait(r)
  BY <1>2, <1>6, <1>8, NewsReceives
<1>10. TablesQuiet
  BY <1>2 DEF TablesQuiet
<1>11. SlotQuiet(r)
  BY <1>5, <1>9 DEF SlotQuiet, DeliversTo, Inserts, InsertsMark, Carries, Marks, InFlight, My
<1> QED BY <1>9, <1>10, <1>11, StepQuiet

\* The query for the mark,
LEMMA FindMarkKeepsNews ==
    ASSUME NewsInv, NEW r \in Slots, FindMark(r), UNCHANGED <<events, prefs, off, noticeVars>>
    PROVE  NewsInv' /\ Quiet
<1>1. PICK my : my = My(r)
  OBVIOUS
<1>2. /\ calls[r].at = "mark.find"
      /\ UNCHANGED <<events, prefs, notices, withheld, missed, comments, lastRead, shown>>
  BY DEF FindMark, Awaits, commentVars, noticeVars
<1>3. /\ InFlight(r) /\ my \in MarkLocals /\ my.user \in People /\ my.upTo <= Len(comments)
      /\ \/ my.comment = 0
         \/ my.comment \in DOMAIN comments /\ comments[my.comment].by = my.user
  BY <1>1, <1>2, MarkKnows DEF Marks
<1>4. calls[r].alone => NewsChecked("mark.find", my)
  BY <1>1, <1>2, <1>3 DEF NewsInv
<1>5. NewsTables' /\ NewsGrow /\ LiveComments' = LiveComments
  BY <1>2, NewsUntouched DEF LiveComments
<1>6. TablesQuiet
  BY <1>2 DEF TablesQuiet
<1>7. Len(comments) \in Nat /\ Len(comments) <= Len(comments)
  BY Ids DEF NewsInv, NewsTables
<1>8. CASE lastRead[my.user].row
  <2>1. PICK next : next = [my EXCEPT !.upTo = Today]
    OBVIOUS
  <2>2. Await(r, "mark.save", next)
    BY <1>1, <1>8, <2>1 DEF FindMark
  <2>3. /\ next \in MarkLocals /\ next.upTo = Len(comments)
        /\ next.comment = my.comment /\ next.user = my.user /\ next.read = my.read
    BY <1>3, <1>7, <2>1 DEF MarkLocals, Today
  <2>4. NewsPrepared("mark.save", next)' /\ (calls[r].alone => NewsChecked("mark.save", next)')
    <3>1. NewsPrepared("mark.save", next)'
      BY <1>2, <1>3, <1>7, <2>3 DEF NewsPrepared, Marks
    <3>2. calls[r].alone => NewsChecked("mark.save", next)'
      BY <1>4, <1>5, <2>3 DEF NewsChecked, Marks
    <3> QED BY <3>1, <3>2
  <2>5. NewsInv' /\ calls'[r].at = "mark.save" /\ calls'[r].my = next /\ OthersWait(r)
    BY <1>3, <1>5, <2>2, <2>4, NewsGoesOn
  <2>6. SlotQuiet(r)
    BY <1>1, <1>2, <2>3, <2>5 DEF SlotQuiet, DeliversTo, Inserts, InsertsMark, Carries, Marks, My
  <2> QED BY <1>6, <2>5, <2>6, StepQuiet
<1>9. CASE ~lastRead[my.user].row
  <2>1. AwaitNext(r, "mark.insert")
    BY <1>1, <1>9 DEF FindMark
  <2>2. NewsPrepared("mark.insert", my)' /\ (calls[r].alone => NewsChecked("mark.insert", my)')
    <3>1. NewsPrepared("mark.insert", my)'
      BY <1>2, <1>3 DEF NewsPrepared, Marks
    <3>2. calls[r].alone => NewsChecked("mark.insert", my)'
      BY <1>4, <1>5 DEF NewsChecked, Marks
    <3> QED BY <3>1, <3>2
  <2>3. NewsInv' /\ calls'[r].at = "mark.insert" /\ calls'[r].my = my /\ OthersWait(r)
    BY <1>1, <1>3, <1>5, <2>1, <2>2, NewsGoesOn
  <2>4. SlotQuiet(r)
    BY <1>1, <1>2, <1>9, <2>3 DEF SlotQuiet, DeliversTo, Inserts, InsertsMark, Carries, Marks, My
  <2> QED BY <1>6, <2>3, <2>4, StepQuiet
<1> QED BY <1>8, <1>9

\* The comments are marked: the handler goes on to announce its own, or shows
\* the ones that it read.
LEMMA MarkedKeepsNews ==
    ASSUME NewsInv, NEW r \in Slots, calls[r].at \in {"mark.save", "mark.insert"}, Marked(r),
           UNCHANGED <<events, prefs, off, noticeVars, comments>>,
           lastRead' \in [People -> ReadRow],
           \A u \in People : lastRead'[u].upTo <= Len(comments)
    PROVE  /\ NewsInv' /\ ToldQuiet /\ MissQuiet /\ CarryQuiet
           /\ OthersWait(r) /\ calls'[r].at \in {"free", "comment.task"}
<1>1. PICK my : my = My(r)
  OBVIOUS
<1>2. UNCHANGED <<events, prefs, notices, withheld, missed, comments>>
  BY DEF noticeVars
<1>3. /\ InFlight(r) /\ my \in MarkLocals /\ my.user \in People /\ my.upTo <= Len(comments)
      /\ my.read \in SUBSET Nat /\ my.comment \in Nat
      /\ \/ my.comment = 0
         \/ my.comment \in DOMAIN comments /\ comments[my.comment].by = my.user
  BY <1>1, MarkKnows DEF Marks
<1>4. shown' \in [People -> SUBSET Nat]
  <2>1. shown \in [People -> SUBSET Nat]
    BY DEF NewsInv, NewsTables
  <2>2. UNCHANGED shown \/ shown' = [shown EXCEPT ![my.user] = @ \cup my.read]
    BY <1>1 DEF Marked
  <2> QED BY <1>3, <2>1, <2>2
<1>5. NewsTables' /\ NewsGrow
  <2>1. Len(comments) \in Nat
    BY Ids DEF NewsInv, NewsTables
  <2>2. NewsTables'
    BY <1>2, <1>4 DEF NewsInv, NewsTables
  <2>3. NewsGrow
    BY <1>2, <2>1 DEF NewsGrow
  <2> QED BY <2>2, <2>3
<1>6. /\ NewsInv' /\ OthersWait(r) /\ calls'[r].at \in {"free", "comment.task"}
      /\ \A c : Carries(r, c)' <=> Carries(r, c)
  <2>1. CASE my.comment # 0
    <3>1. AwaitNext(r, "comment.task")
      BY <1>1, <2>1 DEF Marked
    <3>2. NewsPrepared("comment.task", my)' /\ (calls[r].alone => NewsChecked("comment.task", my)')
      BY <1>2, <1>3, <2>1 DEF NewsPrepared, NewsChecked, Marks
    <3>3. NewsInv' /\ calls'[r].at = "comment.task" /\ calls'[r].my = my /\ OthersWait(r)
      BY <1>1, <1>3, <1>5, <3>1, <3>2, NewsGoesOn
    <3> QED BY <1>1, <3>3 DEF Carries, Marks, My
  <2>2. CASE my.comment = 0
    <3>1. Answer(r)
      BY <1>1, <2>2 DEF Marked
    <3>2. NewsInv' /\ ~InFlight(r)' /\ OthersWait(r)
      BY <1>3, <1>5, <3>1, NewsAnswers
    <3> QED BY <1>1, <2>2, <3>2 DEF Carries, InFlight, Marks
  <2> QED BY <2>1, <2>2
<1>7. \A s \in Slots : s # r => SlotQuiet(s)
  BY <1>6, WaitingQuiet DEF OthersWait
<1>8. /\ \A v \in People : ~Inserts(r, v)'
      /\ \A e, v : ~DeliversTo(r, e, v)' /\ ~DeliversTo(r, e, v)
  BY <1>6 DEF Inserts, DeliversTo
<1>9. ToldQuiet
  BY <1>2, <1>7, <1>8 DEF ToldQuiet, SlotQuiet
<1>10. MissQuiet
  BY <1>2, <1>7, <1>8 DEF MissQuiet, SlotQuiet
<1>11. CarryQuiet
  <2>1. \A s \in Slots : \A c : Carries(s, c)' <=> Carries(s, c)
    BY <1>6, <1>7 DEF SlotQuiet
  <2> QED BY <1>2, <2>1 DEF CarryQuiet
<1> QED BY <1>6, <1>9, <1>10, <1>11

\* and its update.
LEMMA SaveMarkKeepsNews ==
    ASSUME NewsInv, NEW r \in Slots, SaveMark(r), UNCHANGED <<events, prefs, off, noticeVars>>
    PROVE  NewsInv' /\ Quiet
<1>1. PICK my : my = My(r)
  OBVIOUS
<1>2. /\ calls[r].at = "mark.save" /\ Marked(r) /\ UNCHANGED comments
      /\ lastRead' = [lastRead EXCEPT ![my.user].upTo = my.upTo]
  BY <1>1 DEF SaveMark, Awaits
<1>3. my.user \in People /\ my.upTo \in Nat /\ my.upTo <= Len(comments)
  BY <1>1, <1>2, MarkKnows DEF Marks
<1>4. /\ lastRead \in [People -> ReadRow]
      /\ \A u \in People : lastRead[u].upTo <= Len(comments)
  BY DEF NewsInv, NewsTables
<1>5. /\ lastRead' \in [People -> ReadRow]
      /\ \A u \in People : lastRead'[u].upTo <= Len(comments) /\ lastRead'[u].row = lastRead[u].row
  BY <1>2, <1>3, <1>4 DEF ReadRow
<1>6. /\ NewsInv' /\ ToldQuiet /\ MissQuiet /\ CarryQuiet
      /\ OthersWait(r) /\ calls'[r].at \in {"free", "comment.task"}
  BY <1>2, <1>5, MarkedKeepsNews
<1>7. /\ \A s \in Slots : s # r => SlotQuiet(s)
      /\ \A u \in People : ~InsertsMark(r, u)'
  BY <1>6, WaitingQuiet DEF OthersWait, InsertsMark
<1>8. MarkQuiet
  BY <1>5, <1>7 DEF MarkQuiet, SlotQuiet
<1> QED BY <1>6, <1>8 DEF Quiet

\* An insertion of a mark that is there ends with an exception; one that is not
\* goes through.
LEMMA InsertMarkKeepsNews ==
    ASSUME NewsInv, NEW r \in Slots, InsertMark(r), UNCHANGED <<events, prefs, off, noticeVars>>
    PROVE  /\ NewsInv' /\ ToldQuiet /\ MissQuiet
           /\ UNCHANGED <<events, comments>>
           /\ OthersWait(r) /\ InsertsMark(r, My(r).user) /\ My(r).user \in People
           /\ calls'[r].at # "mark.insert"
           /\ \A u \in People : u # My(r).user => lastRead'[u].row = lastRead[u].row
           /\ \/ lastRead[My(r).user].row /\ lastRead'[My(r).user].row /\ ~InFlight(r)'
              \/ ~lastRead[My(r).user].row /\ lastRead'[My(r).user].row /\ CarryQuiet
<1>1. PICK my : my = My(r)
  OBVIOUS
<1>2. calls[r].at = "mark.insert" /\ UNCHANGED comments
  BY DEF InsertMark, Awaits
<1>3. /\ InFlight(r) /\ my.user \in People /\ InsertsMark(r, my.user)
  BY <1>1, <1>2, MarkKnows DEF Marks, InsertsMark
<1>4. /\ lastRead \in [People -> ReadRow]
      /\ \A u \in People : lastRead[u].upTo <= Len(comments)
  BY DEF NewsInv, NewsTables
<1>5. Len(comments) \in Nat
  BY Ids DEF NewsInv, NewsTables
<1>6. CASE lastRead[my.user].row
  <2>1. Answer(r) /\ UNCHANGED <<events, prefs, notices, withheld, missed, comments, lastRead, shown>>
    BY <1>1, <1>2, <1>6 DEF InsertMark, noticeVars
  <2>2. NewsTables' /\ NewsGrow
    BY <2>1, NewsUntouched
  <2>3. NewsInv' /\ ~InFlight(r)' /\ OthersWait(r)
    BY <1>3, <2>1, <2>2, NewsAnswers
  <2>4. \A s \in Slots : s # r => SlotQuiet(s)
    BY <2>3, WaitingQuiet DEF OthersWait
  <2>5. /\ \A v \in People : ~Inserts(r, v)'
        /\ \A e, v : ~DeliversTo(r, e, v)' /\ ~DeliversTo(r, e, v)
    BY <1>2, <2>3 DEF Inserts, DeliversTo, InFlight
  <2>6. ToldQuiet
    BY <2>1, <2>4, <2>5 DEF ToldQuiet, SlotQuiet
  <2>7. MissQuiet
    BY <2>1, <2>4, <2>5 DEF MissQuiet, SlotQuiet
  <2>8. calls'[r].at # "mark.insert"
    BY <2>3 DEF InFlight
  <2> QED BY <1>1, <1>3, <1>6, <2>1, <2>3, <2>6, <2>7, <2>8
<1>7. CASE ~lastRead[my.user].row
  <2>1. Marked(r) /\ lastRead' = [lastRead EXCEPT ![my.user] = [row |-> TRUE, upTo |-> Today]]
    BY <1>1, <1>7 DEF InsertMark
  <2>2. PICK row : row = [row |-> TRUE, upTo |-> Today]
    OBVIOUS
  <2>3. row \in ReadRow /\ row.row /\ row.upTo <= Len(comments)
    BY <1>5, <2>2 DEF ReadRow, Today
  <2>4. lastRead' = [lastRead EXCEPT ![my.user] = row]
    BY <2>1, <2>2
  <2>5. /\ lastRead' \in [People -> ReadRow]
        /\ \A u \in People : lastRead'[u].upTo <= Len(comments)
        /\ lastRead'[my.user].row
        /\ \A u \in People : u # my.user => lastRead'[u].row = lastRead[u].row
    BY <1>3, <1>4, <2>3, <2>4
  <2>6. /\ NewsInv' /\ ToldQuiet /\ MissQuiet /\ CarryQuiet
        /\ OthersWait(r) /\ calls'[r].at \in {"free", "comment.task"}
    BY <1>2, <2>1, <2>5, MarkedKeepsNews
  <2>7. UNCHANGED events
    OBVIOUS
  <2> QED BY <1>1, <1>2, <1>3, <1>7, <2>5, <2>6, <2>7
<1> QED BY <1>6, <1>7

\* A comment that is edited or removed.
LEMMA AsksForComment ==
    ASSUME NewsInv, NEW r \in Slots, NEW call \in {"comment.save", "comment.remove"},
           NEW c \in LiveComments, Receive(r, call, [event |-> 0, id |-> c]), UNCHANGED commentVars,
           UNCHANGED <<events, prefs, off, noticeVars>>
    PROVE  NewsInv' /\ Quiet
<1> PICK given : given = [event |-> 0, id |-> c]
  OBVIOUS
<1>1. /\ UNCHANGED <<events, prefs, notices, withheld, missed, comments, lastRead, shown>>
      /\ Receive(r, call, given) /\ c \in DOMAIN comments /\ comments[c].live
  BY DEF LiveComments, noticeVars, commentVars
<1>2. given.event = 0 /\ given.id = c
  OBVIOUS
<1>3. NewsTables' /\ NewsGrow
  BY <1>1, NewsUntouched
<1>4. NewsPrepared(call, given)' /\ NewsChecked(call, given)'
  BY <1>1, <1>2 DEF NewsPrepared, NewsChecked, Marks
<1>5. /\ NewsInv' /\ ~InFlight(r)
      /\ calls'[r].at = call /\ calls'[r].my = given /\ OthersWait(r)
  BY <1>1, <1>3, <1>4, NewsReceives
<1>6. TablesQuiet
  BY <1>1 DEF TablesQuiet
<1>7. SlotQuiet(r)
  BY <1>5 DEF SlotQuiet, DeliversTo, Inserts, InsertsMark, Carries, Marks, InFlight
<1> QED BY <1>5, <1>6, <1>7, StepQuiet

\* A comment is edited or deleted.
LEMMA WriteCommentKeepsNews ==
    ASSUME NewsInv, NEW r \in Slots, SaveComment(r) \/ SoftDeleteComment(r),
           UNCHANGED <<events, prefs, off, noticeVars>>
    PROVE  NewsInv' /\ Quiet
<1> PICK id : id = My(r).id
  OBVIOUS
<1>1. PICK live \in BOOLEAN :
         /\ calls[r].at \in {"comment.save", "comment.remove"} /\ InFlight(r) /\ Answer(r)
         /\ UNCHANGED <<events, withheld, missed, prefs, notices, lastRead, shown>>
         /\ comments' = [comments EXCEPT ![id].live = live]
  BY DEF SaveComment, SoftDeleteComment, Awaits, InFlight, noticeVars
<1>2. id \in DOMAIN comments
  BY <1>1 DEF NewsInv, NewsPrepared, Marks
<1>3. comments \in Seq(CommentRow) /\ \A c \in DOMAIN comments : comments[c] \in CommentRow
  BY Ids DEF NewsInv, NewsTables
<1>4. PICK next : next = comments'
  OBVIOUS
<1>5. /\ next = [c \in DOMAIN comments |-> next[c]]
      /\ \A c \in DOMAIN comments : c # id => next[c] = comments[c]
      /\ next[id] = [comments[id] EXCEPT !.live = live]
  BY <1>1, <1>2, <1>4
<1>6. next[id] \in CommentRow /\ next[id].by = comments[id].by
  BY <1>2, <1>3, <1>5 DEF CommentRow
<1>7. \A c \in DOMAIN comments : next[c] \in CommentRow /\ next[c].by = comments[c].by
  BY <1>3, <1>5, <1>6
<1>8. next \in Seq(CommentRow) /\ DOMAIN next = DOMAIN comments /\ Len(next) = Len(comments)
  BY <1>3, <1>5, <1>7, Rewritten
<1>9. Len(comments) \in Nat
  BY Ids, <1>3
<1>10. NewsTables'
  BY <1>1, <1>4, <1>8 DEF NewsInv, NewsTables
<1>11. NewsGrow
  BY <1>1, <1>4, <1>7, <1>8, <1>9 DEF NewsGrow
<1>12. NewsInv' /\ ~InFlight(r)' /\ OthersWait(r)
  BY <1>1, <1>10, <1>11, NewsAnswers
<1>13. TablesQuiet
  BY <1>1, <1>4, <1>7, <1>8 DEF TablesQuiet
<1>14. SlotQuiet(r)
  BY <1>1, <1>12 DEF SlotQuiet, DeliversTo, Inserts, InsertsMark, Carries, Marks, InFlight
<1> QED BY <1>12, <1>13, <1>14, StepQuiet

-----------------------------------------------------------------------------
(* A race for a row that is inserted once: until it is there nobody has    *)
(* lost; those who wait for the insertion when it is inserted can lose.    *)

Race(row, lost, waiting) ==
    IF row THEN /\ IsFiniteSet(lost) /\ waiting \subseteq Slots
                /\ Cardinality(lost) + Cardinality(waiting) < Cardinality(Slots)
           ELSE lost = {}

\* At most x is more, and r is not there any more.
OneMore(now, before, x) == now \subseteq before \cup {x}
WithoutHim(now, before, r) == now \subseteq before \ {r}

\* Nobody else loses, and after the insertion nobody else waits;
LEMMA RaceGoesOn ==
    ASSUME NEW row, NEW lost, NEW waiting, Race(row, lost, waiting),
           NEW nowLost, nowLost \subseteq lost,
           NEW nowWaiting, nowWaiting \subseteq Slots, row => nowWaiting \subseteq waiting
    PROVE  Race(row, nowLost, nowWaiting)
<1>1. CASE row
  <2>1. /\ IsFiniteSet(lost) /\ waiting \subseteq Slots /\ nowWaiting \subseteq waiting
        /\ Cardinality(lost) + Cardinality(waiting) < Cardinality(Slots)
    BY <1>1 DEF Race
  <2>2. IsFiniteSet(waiting) /\ IsFiniteSet(Slots)
    BY <2>1, SlotsAssumption, FS_Subset
  <2>3. /\ IsFiniteSet(nowLost) /\ IsFiniteSet(nowWaiting)
        /\ Cardinality(nowLost) <= Cardinality(lost)
        /\ Cardinality(nowWaiting) <= Cardinality(waiting)
    BY <2>1, <2>2, FS_Subset
  <2>4. /\ Cardinality(nowLost) \in Nat /\ Cardinality(nowWaiting) \in Nat
        /\ Cardinality(lost) \in Nat /\ Cardinality(waiting) \in Nat /\ Cardinality(Slots) \in Nat
    BY <2>1, <2>2, <2>3, FS_CardinalityType
  <2>5. Cardinality(nowLost) + Cardinality(nowWaiting) < Cardinality(Slots)
    BY <2>1, <2>3, <2>4
  <2> QED BY <1>1, <2>3, <2>5 DEF Race
<1>2. CASE ~row
  BY <1>2 DEF Race
<1> QED BY <1>1, <1>2

\* one inserts the row before which nobody has lost;
LEMMA RaceWon ==
    ASSUME NEW nowLost, nowLost = {}, NEW r \in Slots,
           NEW nowWaiting, WithoutHim(nowWaiting, Slots, r)
    PROVE  /\ IsFiniteSet(nowLost) /\ nowWaiting \subseteq Slots
           /\ Cardinality(nowLost) + Cardinality(nowWaiting) < Cardinality(Slots)
<1>2. IsFiniteSet(Slots \ {r}) /\ Cardinality(Slots \ {r}) = Cardinality(Slots) - 1
  BY SlotsAssumption, FS_RemoveElement
<1>3. IsFiniteSet(nowWaiting) /\ Cardinality(nowWaiting) <= Cardinality(Slots \ {r})
  BY <1>2, FS_Subset DEF WithoutHim
<1>4. Cardinality(nowWaiting) \in Nat /\ Cardinality(Slots) \in Nat
  BY <1>3, SlotsAssumption, FS_CardinalityType
<1>5. IsFiniteSet(nowLost) /\ Cardinality(nowLost) = 0
  BY FS_EmptySet
<1>6. Cardinality(nowLost) + Cardinality(nowWaiting) < Cardinality(Slots)
  BY <1>2, <1>3, <1>4, <1>5
<1> QED BY <1>5, <1>6 DEF WithoutHim

\* or one of those who waited has lost.
LEMMA RaceLost ==
    ASSUME NEW row, NEW lost, NEW waiting, Race(row, lost, waiting), row = TRUE,
           NEW x, NEW nowLost, OneMore(nowLost, lost, x), NEW r \in waiting,
           NEW nowWaiting, WithoutHim(nowWaiting, waiting, r)
    PROVE  Race(row, nowLost, nowWaiting)
<1>1. /\ IsFiniteSet(lost) /\ waiting \subseteq Slots
      /\ Cardinality(lost) + Cardinality(waiting) < Cardinality(Slots)
  BY DEF Race
<1>2. IsFiniteSet(waiting)
  BY <1>1, SlotsAssumption, FS_Subset
<1>3. IsFiniteSet(waiting \ {r}) /\ Cardinality(waiting \ {r}) = Cardinality(waiting) - 1
  BY <1>2, FS_RemoveElement
<1>4. IsFiniteSet(nowWaiting) /\ Cardinality(nowWaiting) <= Cardinality(waiting \ {r})
  BY <1>3, FS_Subset DEF WithoutHim
<1>5. IsFiniteSet(lost \cup {x})
  BY <1>1, FS_AddElement
<1>6. Cardinality(lost \cup {x}) = Cardinality(lost) \/ Cardinality(lost \cup {x}) = Cardinality(lost) + 1
  BY <1>1, FS_AddElement
<1>7. IsFiniteSet(nowLost) /\ Cardinality(nowLost) <= Cardinality(lost \cup {x})
  BY <1>5, FS_Subset DEF OneMore
<1>8. /\ Cardinality(nowLost) \in Nat /\ Cardinality(nowWaiting) \in Nat
      /\ Cardinality(lost) \in Nat /\ Cardinality(waiting) \in Nat /\ Cardinality(Slots) \in Nat
  BY <1>1, <1>2, <1>4, <1>7, SlotsAssumption, FS_CardinalityType
<1>9. Cardinality(nowLost) + Cardinality(nowWaiting) < Cardinality(Slots)
  BY <1>1, <1>3, <1>4, <1>6, <1>7, <1>8
<1>10. nowWaiting \subseteq Slots
  BY <1>1 DEF WithoutHim
<1> QED BY <1>7, <1>9, <1>10 DEF Race

\* Fewer than there are slots have lost.
LEMMA FewLose ==
    ASSUME NEW row, NEW lost, NEW waiting, Race(row, lost, waiting)
    PROVE  Cardinality(lost) < Cardinality(Slots)
<1>1. Cardinality(Slots) \in Nat /\ Cardinality(Slots) # 0
  BY SlotsAssumption, FS_CardinalityType, FS_EmptySet
<1>2. CASE row
  <2>1. /\ IsFiniteSet(lost) /\ waiting \subseteq Slots
        /\ Cardinality(lost) + Cardinality(waiting) < Cardinality(Slots)
    BY <1>2 DEF Race
  <2>2. IsFiniteSet(waiting)
    BY <2>1, SlotsAssumption, FS_Subset
  <2>3. Cardinality(lost) \in Nat /\ Cardinality(waiting) \in Nat
    BY <2>1, <2>2, FS_CardinalityType
  <2> QED BY <1>1, <2>1, <2>3
<1>3. CASE ~row
  BY <1>1, <1>3, FS_EmptySet DEF Race
<1> QED BY <1>2, <1>3

-----------------------------------------------------------------------------
(* Everybody whom an event concerns is told.                               *)

Told(n, e, u) == n \in DOMAIN notices /\ notices[n].of = e /\ notices[n].to = u
Due(e, u) == e \in DOMAIN events /\ u \in events[e].to
Spared(e, u) == <<e, u>> \in withheld \cup missed

ToldInv ==
    /\ \A s, t \in Slots : \A e, u : DeliversTo(s, e, u) /\ DeliversTo(t, e, u) => s = t
    /\ \A s \in Slots : \A n, e, u : ~(DeliversTo(s, e, u) /\ Told(n, e, u))
    /\ \A m, n, e, u : Told(m, e, u) /\ Told(n, e, u) => m = n
    /\ \A n, e, u : Told(n, e, u) => Due(e, u)
    /\ \A e, u : Spared(e, u) => Due(e, u)
    /\ \A e, u : Due(e, u) => \/ \E n : Told(n, e, u)
                              \/ Spared(e, u)
                              \/ \E s \in Slots : DeliversTo(s, e, u)

\* Steps that announce and deliver nothing.
LEMMA ToldQuietly ==
    ASSUME ToldInv, ToldQuiet
    PROVE  ToldInv'
<1>1. /\ \A n, e, u : Told(n, e, u)' <=> Told(n, e, u)
      /\ \A e, u : Due(e, u)' <=> Due(e, u)
      /\ \A e, u : Spared(e, u)' <=> Spared(e, u)
      /\ \A s \in Slots : \A e, u : DeliversTo(s, e, u)' <=> DeliversTo(s, e, u)
  BY DEF ToldQuiet, Told, Due, Spared
<1> QED BY <1>1 DEF ToldInv

\* A delivery ends: a notification is inserted, or a preference or an exception
\* spares its recipient.
LEMMA ToldEnds ==
    ASSUME ToldInv, NewsInv, NEW r \in Slots, NEW e, NEW u, DeliversTo(r, e, u),
           UNCHANGED events, OthersWait(r), ~InFlight(r)',
           \/ /\ notices' = Append(notices, Notice(u, e))
              /\ UNCHANGED <<withheld, missed>>
           \/ /\ withheld' \cup missed' = withheld \cup missed \cup {<<e, u>>}
              /\ UNCHANGED notices
    PROVE  ToldInv'
<1>1. Due(e, u)
  BY NoneBefore DEF Due
<1>2. \A d, v : Due(d, v)' <=> Due(d, v)
  BY DEF Due
<1>3. /\ \A d, v : DeliversTo(r, d, v) <=> d = e /\ v = u
      /\ \A d, v : ~DeliversTo(r, d, v)'
      /\ \A s \in Slots : s # r => \A d, v : DeliversTo(s, d, v)' <=> DeliversTo(s, d, v)
  BY DEF DeliversTo, OthersWait, InFlight, My
<1>4. \A s \in Slots : \A d, v : DeliversTo(s, d, v)' <=> DeliversTo(s, d, v) /\ ~(d = e /\ v = u)
  BY <1>3 DEF ToldInv
<1>5. CASE notices' = Append(notices, Notice(u, e)) /\ UNCHANGED <<withheld, missed>>
  <2>1. PICK row : row = Notice(u, e)
    OBVIOUS
  <2>2. My(r).user = u /\ My(r).event = e /\ InFlight(r)
    BY DEF DeliversTo, InFlight
  <2>3. u \in People /\ e \in Nat
    <3>1. My(r) \in DeliveryLocals
      BY <2>2 DEF NewsInv, NewsPrepared, DeliversTo, AskLocals, MarkLocals, Marks
    <3> QED BY <2>2, <3>1 DEF DeliveryLocals
  <2>4. row \in NoticeRow /\ row.of = e /\ row.to = u
    BY <2>1, <2>3 DEF Notice, NoticeRow
  <2>5. PICK next : next = notices'
    OBVIOUS
  <2>6. notices \in Seq(NoticeRow) /\ next = Append(notices, row)
    BY <1>5, <2>1, <2>5 DEF NewsInv, NewsTables
  <2>7. /\ Len(notices) \in Nat /\ DOMAIN notices = 1..Len(notices)
        /\ DOMAIN next = 1..(Len(notices) + 1)
        /\ next[Len(notices) + 1] = row
        /\ \A i \in DOMAIN notices : next[i] = notices[i]
        /\ \A i \in DOMAIN next : i \in DOMAIN notices \/ i = Len(notices) + 1
    BY <2>4, <2>6, Inserted
  <2>8. PICK m : m = Len(notices) + 1
    OBVIOUS
  <2>9. m \in DOMAIN next /\ \A i \in DOMAIN notices : i \in DOMAIN next
    BY <2>7, <2>8
  <2>10. \A n, d, v : Told(n, d, v)' <=> Told(n, d, v) \/ (n = m /\ d = e /\ v = u)
    <3>1. m \notin DOMAIN notices
      BY <2>7, <2>8
    <3> QED BY <2>4, <2>5, <2>7, <2>8, <2>9, <3>1 DEF Told
  <2>11. \A d, v : Spared(d, v)' <=> Spared(d, v)
    BY <1>5 DEF Spared
  <2>12. \A n : ~Told(n, e, u)
    BY DEF ToldInv
  <2> QED BY <1>1, <1>2, <1>4, <2>10, <2>11, <2>12 DEF ToldInv
<1>6. CASE withheld' \cup missed' = withheld \cup missed \cup {<<e, u>>} /\ UNCHANGED notices
  <2>1. \A n, d, v : Told(n, d, v)' <=> Told(n, d, v)
    BY <1>6 DEF Told
  <2>2. \A d, v : Spared(d, v)' <=> Spared(d, v) \/ (d = e /\ v = u)
    BY <1>6 DEF Spared
  <2> QED BY <1>1, <1>2, <1>4, <2>1, <2>2 DEF ToldInv
<1> QED BY <1>5, <1>6

\* A new event, with a delivery for each of its recipients.
LEMMA ToldNewly ==
    ASSUME ToldInv, NewsInv, NEW users, NewlyTold(users)
    PROVE  ToldInv'
<1>1. PICK e :
         /\ UNCHANGED <<notices, missed>>
         /\ e \notin DOMAIN events /\ e \in DOMAIN events' /\ events'[e].to = users
         /\ \A d \in DOMAIN events : d \in DOMAIN events' /\ events'[d] = events[d]
         /\ \A d \in DOMAIN events' : d \in DOMAIN events \/ d = e
         /\ \A s \in Slots : \A d, u : d # e => (DeliversTo(s, d, u)' <=> DeliversTo(s, d, u))
         /\ \A s \in Slots : \A u : DeliversTo(s, e, u)' => u \in users
         /\ \A s, t \in Slots : \A u : DeliversTo(s, e, u)' /\ DeliversTo(t, e, u)' => s = t
         /\ withheld' = withheld \/ withheld' = withheld \cup {<<e, u>> : u \in users}
         /\ \A u \in users : \/ <<e, u>> \in withheld'
                             \/ \E s \in Slots : DeliversTo(s, e, u)'
  BY DEF NewlyTold
<1>2. \A d, u : Due(d, u)' <=> Due(d, u) \/ (d = e /\ u \in users)
  BY <1>1 DEF Due
<1>3. \A u : ~Due(e, u)
  BY <1>1 DEF Due
<1>4. \A n, d, u : Told(n, d, u)' <=> Told(n, d, u)
  BY <1>1 DEF Told
<1>5. \A n, u : ~Told(n, e, u)
  BY <1>3 DEF ToldInv
<1>6. \A d, u : d # e => (Spared(d, u)' <=> Spared(d, u))
  BY <1>1 DEF Spared
<1>7. \A u : Spared(e, u)' => u \in users
  <2>1. \A u : ~Spared(e, u)
    BY <1>3 DEF ToldInv
  <2>2. \A u : <<e, u>> \in {<<e, v>> : v \in users} => u \in users
    OBVIOUS
  <2> QED BY <1>1, <2>1, <2>2 DEF Spared
<1>8. \A u \in users : Spared(e, u)' \/ \E s \in Slots : DeliversTo(s, e, u)'
  BY <1>1 DEF Spared
<1>9. \A s, t \in Slots : \A d, u : DeliversTo(s, d, u)' /\ DeliversTo(t, d, u)' => s = t
  BY <1>1 DEF ToldInv
<1>10. \A s \in Slots : \A n, d, u : ~(DeliversTo(s, d, u)' /\ Told(n, d, u)')
  BY <1>1, <1>4, <1>5 DEF ToldInv
<1>11. \A m, n, d, u : Told(m, d, u)' /\ Told(n, d, u)' => m = n
  BY <1>4 DEF ToldInv
<1>12. \A n, d, u : Told(n, d, u)' => Due(d, u)'
  BY <1>2, <1>4 DEF ToldInv
<1>13. \A d, u : Spared(d, u)' => Due(d, u)'
  BY <1>2, <1>6, <1>7 DEF ToldInv
<1>14. \A d, u : Due(d, u)' => \/ \E n : Told(n, d, u)'
                               \/ Spared(d, u)'
                               \/ \E s \in Slots : DeliversTo(s, d, u)'
  <2> SUFFICES ASSUME NEW d, NEW u, Due(d, u)'
               PROVE  (\E n : Told(n, d, u)') \/ Spared(d, u)' \/ \E s \in Slots : DeliversTo(s, d, u)'
    OBVIOUS
  <2>1. CASE d = e
    BY <1>2, <1>3, <1>8, <2>1
  <2>2. CASE d # e
    <3>1. (\E n : Told(n, d, u)) \/ Spared(d, u) \/ \E s \in Slots : DeliversTo(s, d, u)
      BY <1>2, <2>2 DEF ToldInv
    <3> QED BY <1>1, <1>4, <1>6, <2>2, <3>1
  <2> QED BY <2>1, <2>2
<1> QED BY <1>9, <1>10, <1>11, <1>12, <1>13, <1>14 DEF ToldInv

\* What the invariant says of each event is what was promised.
LEMMA ToldIsOnce ==
    ASSUME NewsInv, ToldInv
    PROVE  ToldOnce
<1> SUFFICES ASSUME NEW e \in DOMAIN events, NEW u \in People
             PROVE  /\ Cardinality(Notices(e, u)) <= 1
                    /\ u \in events[e].to <=>
                          \/ Notices(e, u) # {}
                          \/ <<e, u>> \in withheld \cup missed \cup Deliveries
  BY DEF ToldOnce
<1>1. \A n : n \in Notices(e, u) <=> Told(n, e, u)
  BY DEF Notices, Told
<1>2. Cardinality(Notices(e, u)) <= 1
  <2>1. CASE Notices(e, u) = {}
    BY <2>1, FS_EmptySet
  <2>2. CASE Notices(e, u) # {}
    <3>1. PICK n : Notices(e, u) = {n}
      BY <1>1, <2>2 DEF ToldInv
    <3>2. Cardinality({n}) = 1
      BY FS_Singleton
    <3>3. Cardinality(Notices(e, u)) = 1
      BY <3>1, <3>2
    <3> QED BY <3>3
  <2> QED BY <2>1, <2>2
<1>3. \A d, v : (\E s \in Slots : DeliversTo(s, d, v)) <=> <<d, v>> \in Deliveries /\ d # 0
  <2> SUFFICES ASSUME NEW d, NEW v
               PROVE  (\E s \in Slots : DeliversTo(s, d, v)) <=> <<d, v>> \in Deliveries /\ d # 0
    OBVIOUS
  <2>1. \A s \in Slots : DeliversTo(s, d, v) <=> Delivering(s) /\ d = My(s).event /\ v = My(s).user /\ d # 0
    BY DEF DeliversTo, Delivering, OnPreferences, InFlight
  <2>2. <<d, v>> \in Deliveries <=> \E s \in Slots : Delivering(s) /\ d = My(s).event /\ v = My(s).user
    BY DEF Deliveries
  <2> QED BY <2>1, <2>2
<1>4. e # 0
  <2>1. Len(events) \in Nat /\ DOMAIN events = 1..Len(events)
    BY Ids DEF NewsInv, NewsTables
  <2> QED BY <2>1
<1>5. Due(e, u) <=> u \in events[e].to
  BY DEF Due
<1>6. (\E s \in Slots : DeliversTo(s, e, u)) => Due(e, u)
  BY NoneBefore DEF Due
<1>7. (\E n : Told(n, e, u)) <=> Notices(e, u) # {}
  BY <1>1
<1>8. Spared(e, u) <=> <<e, u>> \in withheld \cup missed
  BY DEF Spared
<1>9. Due(e, u) <=> \/ \E n : Told(n, e, u)
                    \/ Spared(e, u)
                    \/ \E s \in Slots : DeliversTo(s, e, u)
  BY <1>6 DEF ToldInv
<1> QED BY <1>2, <1>3, <1>4, <1>5, <1>7, <1>8, <1>9

-----------------------------------------------------------------------------
(* Deliveries that an exception ended.                                     *)

MissedOf(u) == {e \in DOMAIN events : <<e, u>> \in missed}
InsertingFor(u) == {s \in Slots : Inserts(s, u)}

MissInv == \A u \in People : Race(prefs[u].row, MissedOf(u), InsertingFor(u))

EventsStay == \A e \in DOMAIN events : e \in DOMAIN events'

\* An event that is yet to come has missed nobody.
LEMMA MissedStay ==
    ASSUME ToldInv, EventsStay, UNCHANGED missed, NEW u
    PROVE  MissedOf(u)' = MissedOf(u)
<1>1. \A e : <<e, u>> \in missed => e \in DOMAIN events
  BY DEF ToldInv, Spared, Due
<1>2. \A e \in DOMAIN events : e \in DOMAIN events'
  BY DEF EventsStay
<1> QED BY <1>1, <1>2 DEF MissedOf

\* The race for preferences: it goes on,
LEMMA MissedQuietly ==
    ASSUME MissInv, ToldInv, EventsStay, MissQuiet
    PROVE  MissInv'
<1> SUFFICES ASSUME NEW u \in People
             PROVE  Race(prefs'[u].row, MissedOf(u)', InsertingFor(u)')
  BY DEF MissInv, Race
<1>1. MissedOf(u)' = MissedOf(u) /\ prefs'[u].row = prefs[u].row
  BY MissedStay DEF MissQuiet
<1>2. InsertingFor(u)' \subseteq Slots /\ (prefs[u].row => InsertingFor(u)' \subseteq InsertingFor(u))
  BY DEF MissQuiet, InsertingFor
<1>3. Race(prefs[u].row, MissedOf(u), InsertingFor(u))
  BY DEF MissInv
<1>4. PICK row, lost, waiting, nowWaiting :
         row = prefs[u].row /\ lost = MissedOf(u) /\ waiting = InsertingFor(u) /\ nowWaiting = InsertingFor(u)'
  OBVIOUS
<1>5. Race(row, lost, nowWaiting)
  BY <1>2, <1>3, <1>4, RaceGoesOn
<1> QED BY <1>1, <1>4, <1>5

\* The row of somebody's preferences is inserted.
PrefsWon(r) ==
    /\ UNCHANGED missed /\ OthersWait(r) /\ calls'[r].at # "prefs.insert"
    /\ My(r).user \in People /\ prefs[My(r).user].row = FALSE /\ prefs'[My(r).user].row = TRUE
    /\ \A u \in People : u # My(r).user => prefs'[u].row = prefs[u].row

\* somebody inserts them,
LEMMA MissedAfterInsertion ==
    ASSUME MissInv, ToldInv, EventsStay, NEW r \in Slots, PrefsWon(r)
    PROVE  MissInv'
<1> SUFFICES ASSUME NEW u \in People
             PROVE  Race(prefs'[u].row, MissedOf(u)', InsertingFor(u)')
  BY DEF MissInv, Race
<1>1. MissedOf(u)' = MissedOf(u)
  BY MissedStay DEF PrefsWon
<1>2. /\ \A s \in Slots : s # r => (Inserts(s, u)' <=> Inserts(s, u))
      /\ ~Inserts(r, u)'
  BY DEF PrefsWon, OthersWait, Inserts, My
<1>3. Race(prefs[u].row, MissedOf(u), InsertingFor(u))
  BY DEF MissInv
<1>4. PICK row, lost, waiting, nowWaiting :
         row = prefs[u].row /\ lost = MissedOf(u) /\ waiting = InsertingFor(u) /\ nowWaiting = InsertingFor(u)'
  OBVIOUS
<1>5. nowWaiting \subseteq Slots \ {r} /\ nowWaiting \subseteq waiting
  BY <1>2, <1>4 DEF InsertingFor
<1>6. CASE u = My(r).user
  <2>1. row = FALSE /\ prefs'[u].row = TRUE
    BY <1>4, <1>6 DEF PrefsWon
  <2>2. lost = {} /\ WithoutHim(nowWaiting, Slots, r)
    BY <1>3, <1>4, <1>5, <2>1 DEF Race, WithoutHim
  <2>3. /\ IsFiniteSet(lost) /\ nowWaiting \subseteq Slots
        /\ Cardinality(lost) + Cardinality(nowWaiting) < Cardinality(Slots)
    BY <2>2, RaceWon
  <2> QED BY <1>1, <1>4, <2>1, <2>3 DEF Race
<1>7. CASE u # My(r).user
  <2>1. prefs'[u].row = row
    BY <1>4, <1>7 DEF PrefsWon
  <2>2. Race(row, lost, nowWaiting)
    BY <1>3, <1>4, <1>5, RaceGoesOn
  <2> QED BY <1>1, <1>4, <2>1, <2>2
<1> QED BY <1>6, <1>7

\* A delivery loses the race for that row.
PrefsLost(r) ==
    /\ UNCHANGED <<events, prefs>> /\ OthersWait(r) /\ calls'[r].at # "prefs.insert"
    /\ calls[r].at = "prefs.insert" /\ prefs[My(r).user].row
    /\ missed' = missed \cup {<<My(r).event, My(r).user>>}

\* or somebody comes too late.
LEMMA MissedAfterCollision ==
    ASSUME MissInv, NEW r \in Slots, PrefsLost(r)
    PROVE  MissInv'
<1> SUFFICES ASSUME NEW u \in People
             PROVE  Race(prefs'[u].row, MissedOf(u)', InsertingFor(u)')
  BY DEF MissInv, Race
<1>1. UNCHANGED <<events, prefs>>
  BY DEF PrefsLost
<1>2. /\ \A s \in Slots : s # r => (Inserts(s, u)' <=> Inserts(s, u))
      /\ ~Inserts(r, u)'
  BY DEF PrefsLost, OthersWait, Inserts, My
<1>3. Race(prefs[u].row, MissedOf(u), InsertingFor(u))
  BY DEF MissInv
<1>4. PICK row, lost, waiting, nowLost, nowWaiting, e :
         /\ row = prefs[u].row /\ lost = MissedOf(u) /\ waiting = InsertingFor(u)
         /\ nowLost = MissedOf(u)' /\ nowWaiting = InsertingFor(u)' /\ e = My(r).event
  OBVIOUS
<1>5. nowWaiting \subseteq waiting \ {r} /\ nowWaiting \subseteq Slots
  BY <1>2, <1>4 DEF InsertingFor
<1>6. CASE u = My(r).user
  <2>1. row /\ r \in waiting
    BY <1>4, <1>6 DEF PrefsLost, InsertingFor, Inserts
  <2>2. missed' = missed \cup {<<e, u>>}
    BY <1>4, <1>6 DEF PrefsLost
  <2>3. nowLost \subseteq lost \cup {e}
    BY <1>1, <1>4, <2>2 DEF MissedOf
  <2>6. Race(row, lost, waiting)
    BY <1>3, <1>4
  <2>4. WithoutHim(nowWaiting, waiting, r) /\ OneMore(nowLost, lost, e) /\ row = TRUE
    BY <1>5, <2>1, <2>3 DEF WithoutHim, OneMore
  <2>5. Race(row, nowLost, nowWaiting)
    BY <2>1, <2>4, <2>6, RaceLost
  <2> QED BY <1>1, <1>4, <2>5
<1>7. CASE u # My(r).user
  <2>1. \A d : <<d, u>> # <<My(r).event, My(r).user>>
    BY <1>7
  <2>2. nowLost \subseteq lost
    BY <1>1, <1>4, <2>1 DEF MissedOf, PrefsLost
  <2>3. Race(row, nowLost, nowWaiting)
    BY <1>3, <1>4, <1>5, <2>2, RaceGoesOn
  <2> QED BY <1>1, <1>4, <2>3
<1> QED BY <1>6, <1>7

-----------------------------------------------------------------------------
(* Announcements of comments.                                              *)

Untold(u) == {c \in DOMAIN comments : /\ comments[c].by = u
                                      /\ \A e \in DOMAIN events : events[e].about # c
                                      /\ \A s \in Slots : ~Carries(s, c)}
MarkingFor(u) == {s \in Slots : InsertsMark(s, u)}

MarkInv == \A u \in People : Race(lastRead[u].row, Untold(u), MarkingFor(u))

CarryInv ==
    /\ \A s, t \in Slots : \A c : Carries(s, c) /\ Carries(t, c) => s = t
    /\ \A s \in Slots : \A c : \A e \in DOMAIN events : Carries(s, c) => events[e].about # c
    /\ \A d, e \in DOMAIN events : events[d].about = events[e].about /\ events[d].about # 0 => d = e
    /\ \A e \in DOMAIN events : events[e].about = 0 \/ events[e].about \in DOMAIN comments

\* The comments without announcement, counted with the words of this module.
LEMMA UntoldIs ==
    ASSUME NewsInv, NEW u \in People
    PROVE  Unannounced(u) = Untold(u)
<1>1. 0 \notin DOMAIN comments
  <2>1. Len(comments) \in Nat /\ DOMAIN comments = 1..Len(comments)
    BY Ids DEF NewsInv, NewsTables
  <2> QED BY <2>1
<1> SUFFICES ASSUME NEW c \in DOMAIN comments
             PROVE  c \in Announced \cup Announcing \cup BeingMarked <=>
                       \/ \E e \in DOMAIN events : events[e].about = c
                       \/ \E s \in Slots : Carries(s, c)
  BY DEF Unannounced, Untold
<1>2. c \in Announced <=> \E e \in DOMAIN events : events[e].about = c
  BY DEF Announced
<1>3. c \in Announcing <=> \E s \in Slots : calls[s].at = "comment.task" /\ My(s).comment = c
  BY DEF Announcing, InFlight, Awaits
<1>4. c \in BeingMarked <=> \E s \in Slots : calls[s].at \in Marks /\ My(s).comment = c
  BY DEF BeingMarked, Marks
<1>5. \A s \in Slots : Carries(s, c) <=> \/ calls[s].at = "comment.task" /\ My(s).comment = c
                                         \/ calls[s].at \in Marks /\ My(s).comment = c
  BY <1>1 DEF Carries
<1> QED BY <1>2, <1>3, <1>4, <1>5

\* Where no announcement is dropped there are no more of them,
LEMMA UntoldQuietly ==
    ASSUME CarryQuiet, NEW u
    PROVE  Untold(u)' \subseteq Untold(u)
BY DEF CarryQuiet, Untold

\* and the race for the mark goes on,
LEMMA MarkedQuietly ==
    ASSUME MarkInv, MarkQuiet, \A u \in People : Untold(u)' \subseteq Untold(u)
    PROVE  MarkInv'
<1> SUFFICES ASSUME NEW u \in People
             PROVE  Race(lastRead'[u].row, Untold(u)', MarkingFor(u)')
  BY DEF MarkInv, Race
<1>1. lastRead'[u].row = lastRead[u].row
  BY DEF MarkQuiet
<1>2. MarkingFor(u)' \subseteq Slots /\ (lastRead[u].row => MarkingFor(u)' \subseteq MarkingFor(u))
  BY DEF MarkQuiet, MarkingFor
<1>3. Race(lastRead[u].row, Untold(u), MarkingFor(u))
  BY DEF MarkInv
<1>4. PICK row, lost, waiting, nowLost, nowWaiting :
         /\ row = lastRead[u].row /\ lost = Untold(u) /\ waiting = MarkingFor(u)
         /\ nowLost = Untold(u)' /\ nowWaiting = MarkingFor(u)'
  OBVIOUS
<1>5. nowLost \subseteq lost /\ nowWaiting \subseteq Slots /\ (row => nowWaiting \subseteq waiting)
  BY <1>2, <1>4
<1>6. Race(row, nowLost, nowWaiting)
  BY <1>3, <1>4, <1>5, RaceGoesOn
<1> QED BY <1>1, <1>4, <1>6

\* with every comment carried by the same handler.
LEMMA CarriedQuietly ==
    ASSUME CarryInv, CarryQuiet, NewsInv
    PROVE  CarryInv'
<1>1. /\ \A e \in DOMAIN events : e \in DOMAIN events' /\ events'[e].about = events[e].about
      /\ \A e \in DOMAIN events' : e \in DOMAIN events \/ events'[e].about = 0
      /\ DOMAIN comments' = DOMAIN comments
      /\ \A s \in Slots : \A c : Carries(s, c)' <=> Carries(s, c)
  BY DEF CarryQuiet
<1>2. \A s \in Slots : ~Carries(s, 0)
  BY DEF Carries
<1>3. \A s, t \in Slots : \A c : Carries(s, c)' /\ Carries(t, c)' => s = t
  BY <1>1 DEF CarryInv
<1>4. \A s \in Slots : \A c : \A e \in DOMAIN events' : Carries(s, c)' => events'[e].about # c
  BY <1>1, <1>2 DEF CarryInv
<1>5. \A d, e \in DOMAIN events' : events'[d].about = events'[e].about /\ events'[d].about # 0 => d = e
  BY <1>1 DEF CarryInv
<1>6. \A e \in DOMAIN events' : events'[e].about = 0 \/ events'[e].about \in DOMAIN comments'
  BY <1>1 DEF CarryInv
<1> QED BY <1>3, <1>4, <1>5, <1>6 DEF CarryInv

\* A comment is written: its author's handler carries it.
LEMMA CarriedFromTheStart ==
    ASSUME NewsInv, CarryInv, MarkInv, NEW r \in Slots, NEW u \in Authors, CreateComment(r, u),
           UNCHANGED <<events, prefs, off, noticeVars>>
    PROVE  CarryInv' /\ MarkInv'
<1>1. PICK c : /\ c \in Nat \ {0} /\ c \notin DOMAIN comments
               /\ \A d \in DOMAIN comments' : d \in DOMAIN comments \/ d = c
               /\ Carries(r, c)'
               /\ \A s \in Slots : \A d : Carries(s, d)' <=> Carries(s, d) \/ (s = r /\ d = c)
  BY CreateCommentKeepsNews
<1>2. NewsInv' /\ MarkQuiet /\ UNCHANGED events
  BY CreateCommentKeepsNews
<1>3. /\ \A d \in DOMAIN comments : d \in DOMAIN comments' /\ comments'[d].by = comments[d].by
  <2>0. PICK row : row = [by |-> u, live |-> TRUE]
    OBVIOUS
  <2>1. row = [by |-> u, live |-> TRUE] /\ row \in CommentRow
    BY <2>0, AuthorsAssumption DEF CommentRow
  <2>2. PICK next : next = comments' /\ next = Append(comments, row) /\ comments \in Seq(CommentRow)
    BY <2>1 DEF CreateComment, NewsInv, NewsTables
  <2>3. /\ Len(comments) \in Nat /\ DOMAIN comments = 1..Len(comments)
        /\ DOMAIN next = 1..(Len(comments) + 1)
        /\ \A i \in DOMAIN comments : next[i] = comments[i]
    BY <2>1, <2>2, Inserted
  <2>4. \A i \in DOMAIN comments : i \in DOMAIN next
    BY <2>3
  <2> QED BY <2>2, <2>3, <2>4
<1>4. \A s \in Slots : ~Carries(s, c)
  <2> SUFFICES ASSUME NEW s \in Slots, Carries(s, c)
               PROVE  FALSE
    OBVIOUS
  <2>1. calls[s].at \in Marks \cup {"comment.task"} /\ My(s).comment = c /\ c # 0
    BY DEF Carries
  <2> QED BY <1>1, <2>1, MarkKnows
<1>5. \A e \in DOMAIN events : events[e].about # c
  BY <1>1 DEF CarryInv
<1>6. CarryInv'
  <2>1. \A s, t \in Slots : \A d : Carries(s, d)' /\ Carries(t, d)' => s = t
    BY <1>1, <1>4 DEF CarryInv
  <2>2. \A s \in Slots : \A d : \A e \in DOMAIN events' : Carries(s, d)' => events'[e].about # d
    BY <1>1, <1>2, <1>5 DEF CarryInv
  <2>3. \A d, e \in DOMAIN events' : events'[d].about = events'[e].about /\ events'[d].about # 0 => d = e
    BY <1>2 DEF CarryInv
  <2>4. \A e \in DOMAIN events' : events'[e].about = 0 \/ events'[e].about \in DOMAIN comments'
    BY <1>2, <1>3 DEF CarryInv
  <2> QED BY <2>1, <2>2, <2>3, <2>4 DEF CarryInv
<1>7. \A v \in People : Untold(v)' \subseteq Untold(v)
  <2> SUFFICES ASSUME NEW v \in People, NEW d \in Untold(v)'
               PROVE  d \in Untold(v)
    OBVIOUS
  <2>1. /\ d \in DOMAIN comments' /\ comments'[d].by = v
        /\ \A e \in DOMAIN events' : events'[e].about # d
        /\ \A s \in Slots : ~Carries(s, d)'
    BY DEF Untold
  <2>2. d \in DOMAIN comments
    BY <1>1, <2>1
  <2> QED BY <1>1, <1>2, <1>3, <2>1, <2>2 DEF Untold
<1> QED BY <1>2, <1>6, <1>7, MarkedQuietly

\* A mark is inserted, or is there already: only then a comment is carried no
\* further.
LEMMA CarriedPastTheMark ==
    ASSUME NewsInv, CarryInv, MarkInv, NEW r \in Slots, InsertMark(r),
           UNCHANGED <<events, prefs, off, noticeVars>>
    PROVE  CarryInv' /\ MarkInv'
<1>1. /\ UNCHANGED <<events, comments>>
      /\ OthersWait(r) /\ InsertsMark(r, My(r).user) /\ My(r).user \in People
      /\ calls'[r].at # "mark.insert"
      /\ \A u \in People : u # My(r).user => lastRead'[u].row = lastRead[u].row
      /\ \/ lastRead[My(r).user].row /\ lastRead'[My(r).user].row /\ ~InFlight(r)'
         \/ ~lastRead[My(r).user].row /\ lastRead'[My(r).user].row /\ CarryQuiet
  BY InsertMarkKeepsNews
<1>2. /\ \A s \in Slots : s # r => \A c : Carries(s, c)' <=> Carries(s, c)
      /\ \A c : Carries(r, c)' => Carries(r, c)
  <2>1. \A s \in Slots : s # r => \A c : Carries(s, c)' <=> Carries(s, c)
    BY <1>1 DEF OthersWait, Carries, My
  <2>2. ~InFlight(r)' => \A c : ~Carries(r, c)'
    BY DEF InFlight, Carries, Marks
  <2>3. CarryQuiet => \A c : Carries(r, c)' <=> Carries(r, c)
    BY DEF CarryQuiet
  <2> QED BY <1>1, <2>1, <2>2, <2>3
<1>3. CarryInv'
  BY <1>1, <1>2 DEF CarryInv
<1>4. \A c : Carries(r, c) => c = My(r).comment /\ comments[c].by = My(r).user
  BY MarkKnows DEF Carries
<1>5. MarkInv'
  <2> SUFFICES ASSUME NEW u \in People
               PROVE  Race(lastRead'[u].row, Untold(u)', MarkingFor(u)')
    BY DEF MarkInv, Race
  <2>1. /\ \A s \in Slots : s # r => (InsertsMark(s, u)' <=> InsertsMark(s, u))
        /\ ~InsertsMark(r, u)'
    BY <1>1 DEF OthersWait, InsertsMark, My
  <2>2. Race(lastRead[u].row, Untold(u), MarkingFor(u))
    BY DEF MarkInv
  <2>3. PICK row, lost, waiting, nowLost, nowWaiting, c :
           /\ row = lastRead[u].row /\ lost = Untold(u) /\ waiting = MarkingFor(u)
           /\ nowLost = Untold(u)' /\ nowWaiting = MarkingFor(u)' /\ c = My(r).comment
    OBVIOUS
  <2>4. nowWaiting \subseteq waiting \ {r} /\ nowWaiting \subseteq Slots
    BY <2>1, <2>3 DEF MarkingFor
  <2>5. Race(row, lost, waiting)
    BY <2>2, <2>3
  <2>6. CASE u # My(r).user
    <3>1. Untold(u)' \subseteq Untold(u)
      BY <1>1, <1>2, <1>4, <2>6 DEF Untold
    <3>2. nowLost \subseteq lost /\ nowWaiting \subseteq waiting
      BY <2>3, <2>4, <3>1
    <3>3. Race(row, nowLost, nowWaiting)
      BY <2>4, <2>5, <3>2, RaceGoesOn
    <3> QED BY <1>1, <2>3, <2>6, <3>3
  <2>7. CASE u = My(r).user /\ lastRead[u].row
    <3>1. Untold(u)' \subseteq Untold(u) \cup {My(r).comment}
      BY <1>1, <1>2, <1>4 DEF Untold
    <3>2. row = TRUE /\ lastRead'[u].row = TRUE
      <4>1. lastRead[u].row \in BOOLEAN /\ lastRead'[u].row \in BOOLEAN
        <5>1. NewsInv'
          BY InsertMarkKeepsNews
        <5> QED BY <5>1 DEF NewsInv, NewsTables, ReadRow
      <4> QED BY <1>1, <2>3, <2>7, <4>1
    <3>3. r \in waiting /\ OneMore(nowLost, lost, c) /\ WithoutHim(nowWaiting, waiting, r)
      BY <1>1, <2>3, <2>4, <2>7, <3>1 DEF OneMore, WithoutHim, MarkingFor
    <3>4. Race(row, nowLost, nowWaiting)
      BY <2>5, <3>2, <3>3, RaceLost
    <3> QED BY <2>3, <3>2, <3>4
  <2>8. CASE u = My(r).user /\ ~lastRead[u].row
    <3>1. lost = {} /\ lastRead'[u].row
      BY <1>1, <2>3, <2>5, <2>8 DEF Race
    <3>2. nowLost = {} /\ WithoutHim(nowWaiting, Slots, r)
      <4>1. Untold(u)' \subseteq Untold(u)
        BY <1>1, <2>8, UntoldQuietly
      <4> QED BY <2>3, <2>4, <3>1, <4>1 DEF WithoutHim
    <3>3. /\ IsFiniteSet(nowLost) /\ nowWaiting \subseteq Slots
          /\ Cardinality(nowLost) + Cardinality(nowWaiting) < Cardinality(Slots)
      BY <3>2, RaceWon
    <3> QED BY <2>3, <3>1, <3>3 DEF Race
  <2> QED BY <2>6, <2>7, <2>8
<1> QED BY <1>3, <1>5

\* The comment is handed over.
LEMMA HandedOver ==
    ASSUME NewsInv, CarryInv, MarkInv, NEW r \in Slots, EmitTaskCommented(r)
    PROVE  /\ NewsInv' /\ MissQuiet /\ CarryInv' /\ MarkInv'
           /\ NewlyTold(Audience \ {My(r).user})
<1>1. PICK c, users : c = My(r).comment /\ users = Audience \ {My(r).user}
  OBVIOUS
<1>2. /\ calls[r].at = "comment.task" /\ UNCHANGED commentVars
      /\ Announce("task_commented", users, c, {r})
  BY <1>1 DEF EmitTaskCommented, Awaits
<1>3. c \in DOMAIN comments /\ c \in Nat /\ c # 0 /\ Carries(r, c)
  <2>1. c \in DOMAIN comments /\ c \in Nat
    BY <1>1, <1>2, MarkKnows
  <2>2. Len(comments) \in Nat /\ DOMAIN comments = 1..Len(comments)
    BY Ids DEF NewsInv, NewsTables
  <2>3. c # 0
    BY <2>1, <2>2
  <2> QED BY <1>1, <1>2, <2>1, <2>3 DEF Carries
<1>4. users \in SUBSET People /\ {r} \in SUBSET Slots
  BY <1>1, AuthorsAssumption
<1>5. /\ NewsInv' /\ NewlyTold(users)
      /\ MissQuiet /\ MarkQuiet
      /\ events'[Len(events) + 1].about = c
      /\ \A s \in Slots : \A d : Carries(s, d)' <=> s \notin {r} /\ Carries(s, d)
  <2>1. \A s \in {r} : calls[s].at = "comment.task"
    BY <1>2
  <2> QED BY <1>2, <1>3, <1>4, <2>1, AnnounceKeepsNews
<1>6. PICK e : e = Len(events) + 1
  OBVIOUS
<1>7. /\ e \notin DOMAIN events /\ e \in DOMAIN events' /\ events'[e].about = c
      /\ \A d \in DOMAIN events : d \in DOMAIN events' /\ events'[d] = events[d]
      /\ \A d \in DOMAIN events' : d \in DOMAIN events \/ d = e
      /\ UNCHANGED comments
  <2>0. PICK row : row = [about |-> c, to |-> users]
    OBVIOUS
  <2>1. row = [about |-> c, to |-> users] /\ row \in EventRow
    BY <1>3, <1>4, <2>0 DEF EventRow
  <2>2. PICK next : next = events' /\ next = Append(events, row) /\ events \in Seq(EventRow)
    BY <1>2, <2>1 DEF Announce, NewsInv, NewsTables
  <2>3. /\ Len(events) \in Nat /\ DOMAIN events = 1..Len(events)
        /\ DOMAIN next = 1..(Len(events) + 1)
        /\ \A i \in DOMAIN events : next[i] = events[i]
        /\ \A i \in DOMAIN next : i \in DOMAIN events \/ i = Len(events) + 1
    BY <2>1, <2>2, Inserted
  <2>4. /\ \A i \in DOMAIN events : i \in DOMAIN next
        /\ e \in DOMAIN next /\ e \notin DOMAIN events
    BY <1>6, <2>3
  <2> QED BY <1>2, <1>5, <1>6, <2>2, <2>3, <2>4 DEF commentVars
<1>8. CarryInv'
  <2>1. \A s, t \in Slots : \A d : Carries(s, d)' /\ Carries(t, d)' => s = t
    BY <1>5 DEF CarryInv
  <2>2. \A s \in Slots : \A d : \A i \in DOMAIN events' : Carries(s, d)' => events'[i].about # d
    <3> SUFFICES ASSUME NEW s \in Slots, NEW d, NEW i \in DOMAIN events', Carries(s, d)'
                 PROVE  events'[i].about # d
      OBVIOUS
    <3>1. s # r /\ Carries(s, d)
      BY <1>5
    <3>2. d # c
      BY <1>3, <3>1 DEF CarryInv
    <3> QED BY <1>7, <3>1, <3>2 DEF CarryInv
  <2>3. \A i \in DOMAIN events : events[i].about # c
    BY <1>3 DEF CarryInv
  <2>4. \A i, j \in DOMAIN events' : events'[i].about = events'[j].about /\ events'[i].about # 0 => i = j
    BY <1>7, <2>3 DEF CarryInv
  <2>5. \A i \in DOMAIN events' : events'[i].about = 0 \/ events'[i].about \in DOMAIN comments'
    BY <1>3, <1>7 DEF CarryInv
  <2> QED BY <2>1, <2>2, <2>4, <2>5 DEF CarryInv
<1>9. \A v \in People : Untold(v)' \subseteq Untold(v)
  <2> SUFFICES ASSUME NEW v \in People, NEW d \in Untold(v)'
               PROVE  d \in Untold(v)
    OBVIOUS
  <2>1. /\ d \in DOMAIN comments' /\ comments'[d].by = v
        /\ \A i \in DOMAIN events' : events'[i].about # d
        /\ \A s \in Slots : ~Carries(s, d)'
    BY DEF Untold
  <2>2. d # c
    BY <1>7, <2>1
  <2>3. \A x : Carries(r, x) => x = c
    BY <1>1 DEF Carries
  <2> QED BY <1>5, <1>7, <2>1, <2>2, <2>3 DEF Untold
<1> QED BY <1>1, <1>5, <1>8, <1>9, MarkedQuietly

-----------------------------------------------------------------------------
(* The invariant.                                                          *)

AllNews == NewsInv /\ ToldInv /\ MissInv /\ CarryInv /\ MarkInv

NewsNext == (InboxNext /\ UNCHANGED commentVars) \/ CommentsNext

\* The invariant holds at first.
LEMMA NewsBegin == HandlersInit /\ InboxInit /\ CommentsInit => AllNews
<1> SUFFICES ASSUME HandlersInit, InboxInit, CommentsInit
             PROVE  AllNews
  OBVIOUS
<1>1. SlotInv /\ \A r \in Slots : ~InFlight(r)
  BY SlotsBegin
<1>2. /\ events = <<>> /\ notices = <<>> /\ withheld = {} /\ missed = {}
      /\ prefs = [u \in People |-> NoPrefs]
      /\ comments = <<>> /\ lastRead = [u \in People |-> NeverRead] /\ shown = [u \in People |-> {}]
  BY DEF InboxInit, CommentsInit
<1>3. /\ events \in Seq(EventRow) /\ notices \in Seq(NoticeRow) /\ comments \in Seq(CommentRow)
      /\ DOMAIN events = {} /\ DOMAIN notices = {} /\ DOMAIN comments = {} /\ Len(comments) = 0
  <2>1. \A S : <<>> \in Seq(S) /\ DOMAIN <<>> = {} /\ Len(<<>>) = 0
    OBVIOUS
  <2> QED BY <1>2, <2>1
<1>4. NoPrefs \in PrefsRow /\ NoPrefs.row = FALSE
  <2>1. {} \in MutedSets
    BY DEF MutedSets
  <2> QED BY <2>1 DEF NoPrefs, PrefsRow
<1>5. NeverRead \in ReadRow /\ NeverRead.row = FALSE /\ NeverRead.upTo = 0
  BY DEF NeverRead, ReadRow
<1>6. NewsTables
  BY <1>2, <1>3, <1>4, <1>5 DEF NewsTables
<1>7. NewsInv
  BY <1>1, <1>6 DEF NewsInv
<1>8. \A s \in Slots : /\ \A e, u : ~DeliversTo(s, e, u)
                       /\ \A c : ~Carries(s, c)
  BY <1>1 DEF DeliversTo, Carries, Marks, InFlight
<1>9. ToldInv
  <2>1. \A n, e, u : ~Told(n, e, u) /\ ~Spared(e, u) /\ ~Due(e, u)
    BY <1>2, <1>3 DEF Told, Spared, Due
  <2> QED BY <1>8, <2>1 DEF ToldInv
<1>10. MissInv
  BY <1>2, <1>3, <1>4 DEF MissInv, Race, MissedOf
<1>11. CarryInv
  BY <1>3, <1>8 DEF CarryInv
<1>12. MarkInv
  BY <1>2, <1>3, <1>5 DEF MarkInv, Race, Untold
<1> QED BY <1>7, <1>9, <1>10, <1>11, <1>12 DEF AllNews

\* A step that leaves everything of the kind as it is.
LEMMA AllQuiet ==
    ASSUME AllNews, NewsInv', Quiet
    PROVE  AllNews'
<1>1. EventsStay
  BY DEF Quiet, ToldQuiet, EventsStay
<1>2. ToldInv' /\ MissInv'
  BY <1>1, ToldQuietly, MissedQuietly DEF AllNews, Quiet
<1>3. CarryInv' /\ MarkInv'
  BY CarriedQuietly, MarkedQuietly, UntoldQuietly DEF AllNews, Quiet
<1> QED BY <1>2, <1>3 DEF AllNews

\* A step that announces keeps it,
LEMMA AllToldNewly ==
    ASSUME AllNews, NewsInv', NEW users, NewlyTold(users), MissQuiet, MarkQuiet, CarryQuiet
    PROVE  AllNews'
<1>1. EventsStay
  BY DEF NewlyTold, EventsStay
<1>2. ToldInv' /\ MissInv'
  BY <1>1, ToldNewly, MissedQuietly DEF AllNews
<1>3. CarryInv' /\ MarkInv'
  BY CarriedQuietly, MarkedQuietly, UntoldQuietly DEF AllNews
<1> QED BY <1>2, <1>3 DEF AllNews

\* and so do the calls about preferences,
LEMMA PreferencesKeepAll ==
    ASSUME AllNews, NEW r \in Slots, PreparePreferences(r) \/ CreateForEvent(r), UNCHANGED commentVars
    PROVE  AllNews'
<1>0. NewsInv
  BY DEF AllNews
<1>1. PICK have :
         /\ \/ OnPreferences(r) /\ have = My(r).then
            \/ ~OnPreferences(r) /\ have = "notice.insert"
         /\ \/ FindPrefs(r, have) /\ UNCHANGED missed
            \/ InsertPrefs(r, have) /\ UNCHANGED missed
            \/ /\ PrefsCollide(r) /\ Answer(r)
               /\ \/ OnPreferences(r) /\ UNCHANGED missed
                  \/ ~OnPreferences(r) /\ missed' = missed \cup {<<My(r).event, My(r).user>>}
         /\ UNCHANGED <<events, notices, withheld, commentVars>>
  <2>1. CASE PreparePreferences(r)
    BY <2>1 DEF PreparePreferences, noticeVars
  <2>2. CASE CreateForEvent(r)
    BY <2>2 DEF CreateForEvent
  <2> QED BY <2>1, <2>2
<1>2. CASE FindPrefs(r, have) /\ UNCHANGED missed
  <2>1. NewsInv' /\ Quiet
    BY <1>0, <1>1, <1>2, FindPrefsKeepsNews
  <2> QED BY <2>1, AllQuiet
<1>3. CASE InsertPrefs(r, have) /\ UNCHANGED missed
  <2>1. /\ NewsInv'
        /\ ToldQuiet /\ MarkQuiet /\ CarryQuiet
        /\ OthersWait(r) /\ calls'[r].at # "prefs.insert"
    BY <1>0, <1>1, <1>3, InsertPrefsKeepsNews
  <2>2. PrefsWon(r)
    <3>1. My(r).user \in People /\ prefs[My(r).user] \in PrefsRow
      BY <1>0, <1>1, <1>3, PrefsLocals DEF InsertPrefs
    <3>2. prefs \in [People -> PrefsRow]
      BY <1>0 DEF NewsInv, NewsTables
    <3>3. prefs' = [prefs EXCEPT ![My(r).user].row = TRUE] /\ ~prefs[My(r).user].row
      BY <1>3 DEF InsertPrefs
    <3>4. prefs'[My(r).user].row = TRUE /\ prefs[My(r).user].row = FALSE
      BY <3>1, <3>2, <3>3 DEF PrefsRow
    <3>5. \A u \in People : u # My(r).user => prefs'[u].row = prefs[u].row
      BY <3>2, <3>3
    <3> QED BY <1>3, <2>1, <3>1, <3>4, <3>5 DEF PrefsWon
  <2>3. EventsStay
    BY <1>1 DEF EventsStay
  <2>4. ToldInv' /\ MissInv'
    BY <2>1, <2>2, <2>3, ToldQuietly, MissedAfterInsertion DEF AllNews
  <2>5. CarryInv' /\ MarkInv'
    BY <2>1, CarriedQuietly, MarkedQuietly, UntoldQuietly DEF AllNews
  <2> QED BY <2>1, <2>4, <2>5 DEF AllNews
<1>4. CASE PrefsCollide(r) /\ Answer(r)
  <2>1. /\ NewsInv' /\ OthersWait(r) /\ ~InFlight(r)'
        /\ MarkQuiet /\ CarryQuiet
        /\ OnPreferences(r) /\ UNCHANGED missed => ToldQuiet /\ MissQuiet
    BY <1>0, <1>1, <1>4, CollisionKeepsNews
  <2>2. CarryInv' /\ MarkInv'
    BY <2>1, CarriedQuietly, MarkedQuietly, UntoldQuietly DEF AllNews
  <2>3. CASE OnPreferences(r) /\ UNCHANGED missed
    BY <2>1, <2>3, AllQuiet DEF Quiet
  <2>4. CASE ~OnPreferences(r) /\ missed' = missed \cup {<<My(r).event, My(r).user>>}
    <3>1. calls[r].at = "prefs.insert" /\ prefs[My(r).user].row /\ UNCHANGED prefs
      BY <1>4 DEF PrefsCollide, Awaits
    <3>2. PICK e, u : e = My(r).event /\ u = My(r).user
      OBVIOUS
    <3>3. DeliversTo(r, e, u)
      <4>1. InFlight(r)
        BY <3>1 DEF InFlight
      <4> QED BY <2>4, <3>1, <3>2, <4>1 DEF DeliversTo, OnPreferences
    <3>4. withheld' \cup missed' = withheld \cup missed \cup {<<e, u>>}
      BY <1>1, <2>4, <3>2
    <3>5. ToldInv'
      BY <1>0, <1>1, <2>1, <3>3, <3>4, ToldEnds DEF AllNews
    <3>6. PrefsLost(r)
      BY <1>1, <2>1, <2>4, <3>1 DEF PrefsLost, InFlight
    <3>7. MissInv'
      BY <3>6, MissedAfterCollision DEF AllNews
    <3> QED BY <2>1, <2>2, <3>5, <3>7 DEF AllNews
  <2>5. \/ OnPreferences(r) /\ UNCHANGED missed
        \/ ~OnPreferences(r) /\ missed' = missed \cup {<<My(r).event, My(r).user>>}
        \/ FindPrefs(r, have) \/ InsertPrefs(r, have)
    BY <1>1
  <2> QED BY <1>1, <1>2, <1>3, <2>3, <2>4, <2>5
<1> QED BY <1>1, <1>2, <1>3, <1>4

\* the end of a delivery,
LEMMA DeliveryEndsAll ==
    ASSUME AllNews, NEW r \in Slots, InsertNotice(r), UNCHANGED commentVars
    PROVE  AllNews'
<1>0. NewsInv
  BY DEF AllNews
<1>1. /\ NewsInv' /\ OthersWait(r) /\ ~InFlight(r)'
      /\ MissQuiet /\ MarkQuiet /\ CarryQuiet
      /\ UNCHANGED <<events, missed>>
  BY <1>0, InsertNoticeKeepsNews
<1>2. PICK e, u : /\ DeliversTo(r, e, u)
                  /\ \/ notices' = Append(notices, Notice(u, e)) /\ UNCHANGED withheld
                     \/ withheld' = withheld \cup {<<e, u>>} /\ UNCHANGED notices
  BY <1>0, InsertNoticeKeepsNews
<1>3. CASE notices' = Append(notices, Notice(u, e)) /\ UNCHANGED withheld
  <2>1. ToldInv'
    BY <1>0, <1>1, <1>2, <1>3, ToldEnds DEF AllNews
  <2> QED BY <1>1, <2>1, MissedQuietly, CarriedQuietly, MarkedQuietly, UntoldQuietly
          DEF AllNews, EventsStay
<1>4. CASE withheld' = withheld \cup {<<e, u>>} /\ UNCHANGED notices
  <2>1. withheld' \cup missed' = withheld \cup missed \cup {<<e, u>>}
    BY <1>1, <1>4
  <2>2. ToldInv'
    BY <1>0, <1>1, <1>2, <1>4, <2>1, ToldEnds DEF AllNews
  <2> QED BY <1>1, <2>2, MissedQuietly, CarriedQuietly, MarkedQuietly, UntoldQuietly
          DEF AllNews, EventsStay
<1> QED BY <1>2, <1>3, <1>4

\* An event of another service.
LEMMA EventsKeepAll ==
    ASSUME AllNews, SomethingHappens, UNCHANGED commentVars
    PROVE  AllNews'
<1>1. PICK users \in SUBSET People : \E type : Announce(type, users, 0, {})
  <2>1. ASSUME NEW u \in People, \/ TaskAssigned(u) \/ TaskUnassigned(u)
                                 \/ ProjectMemberAdded(u) \/ ProjectMemberRemoved(u)
        PROVE  \E users \in SUBSET People : \E type : Announce(type, users, 0, {})
    <3>1. {u} \in SUBSET People
      OBVIOUS
    <3>2. \E type : Announce(type, {u}, 0, {})
      BY <2>1 DEF TaskAssigned, TaskUnassigned, ProjectMemberAdded, ProjectMemberRemoved
    <3> QED BY <3>1, <3>2
  <2>2. ASSUME NEW actor \in People, NEW assignees \in SUBSET People,
               \/ TaskStatusChanged(actor, assignees) \/ TaskCompleted(actor, assignees)
               \/ SubtaskCreated(actor, assignees)
        PROVE  \E users \in SUBSET People : \E type : Announce(type, users, 0, {})
    <3>1. assignees \ {actor} \in SUBSET People
      OBVIOUS
    <3>2. \E type : Announce(type, assignees \ {actor}, 0, {})
      BY <2>2 DEF TaskStatusChanged, TaskCompleted, SubtaskCreated
    <3> QED BY <3>1, <3>2
  <2> QED BY <2>1, <2>2 DEF SomethingHappens
<1>2. /\ NewsInv' /\ NewlyTold(users)
      /\ MissQuiet /\ MarkQuiet /\ CarryQuiet
  <2>1. 0 \in Nat /\ {} \in SUBSET Slots /\ \A s \in {} : calls[s].at = "comment.task"
    OBVIOUS
  <2> QED BY <1>1, <2>1, AnnounceKeepsNews DEF AllNews
<1> QED BY <1>2, AllToldNewly

\* the other actions of notifications,
LEMMA InboxKeepsAll ==
    ASSUME AllNews, InboxNext, UNCHANGED commentVars
    PROVE  AllNews'
<1>0. NewsInv
  BY DEF AllNews
<1>1. CASE SomethingHappens
  BY <1>1, EventsKeepAll
<1>2. ASSUME NEW r \in Slots, NEW u \in People, NEW wanted \in Mutings,
             UpdatePreferences(r, u, wanted)
      PROVE  AllNews'
  <2>1. wanted \in MutedSets
    BY DEF MutedSets
  <2>2. NewsInv' /\ Quiet
    BY <1>0, <1>2, <2>1, AskKeepsNews DEF UpdatePreferences
  <2> QED BY <2>2, AllQuiet
<1>3. ASSUME NEW r \in Slots, NEW u \in People, GetPreferences(r, u)
      PROVE  AllNews'
  <2>1. {} \in MutedSets
    BY DEF MutedSets
  <2>2. NewsInv' /\ Quiet
    BY <1>0, <1>3, <2>1, AskKeepsNews DEF GetPreferences
  <2> QED BY <2>2, AllQuiet
<1>4. ASSUME NEW r \in Slots, NEW u \in People, AdminCreates(r, u, "system_announcement")
      PROVE  AllNews'
  BY <1>0, <1>4, AdminCreatesKeepsNews, AllToldNewly
<1>5. ASSUME NEW r \in Slots, NEW n \in DOMAIN notices, ReadNotice(r, n)
      PROVE  AllNews'
  BY <1>0, <1>5, ReadNoticeKeepsNews, AllQuiet
<1>6. ASSUME NEW r \in Slots, PreparePreferences(r) \/ CreateForEvent(r)
      PROVE  AllNews'
  BY <1>6, PreferencesKeepAll
<1>7. ASSUME NEW r \in Slots, SavePreferences(r) \/ ReturnPreferences(r)
      PROVE  AllNews'
  BY <1>0, <1>7, AnswersForPreferences, AllQuiet
<1>8. ASSUME NEW r \in Slots, InsertNotice(r)
      PROVE  AllNews'
  BY <1>8, DeliveryEndsAll
<1>9. ASSUME NEW r \in Slots, SaveNotice(r)
      PROVE  AllNews'
  BY <1>0, <1>9, SaveNoticeKeepsNews, AllQuiet
<1>10. ASSUME NEW ids, NEW state \in {"read", "gone"}, Settle(ids, state)
       PROVE  AllNews'
  BY <1>0, <1>10, SettleKeepsNews, AllQuiet
<1>11. ASSUME NEW u \in People,
              MarkAllAsRead(u) \/ DeleteAllRead(u) \/ \E ids \in SUBSET DOMAIN notices : MarkManyAsRead(u, ids)
       PROVE  AllNews'
  BY <1>10, <1>11 DEF MarkAllAsRead, DeleteAllRead, MarkManyAsRead
<1>12. ASSUME NEW n \in DOMAIN notices, DeleteNotice(n) \/ CleanExpired(n)
       PROVE  AllNews'
  BY <1>10, <1>12 DEF DeleteNotice, CleanExpired
<1>13. ASSUME NEW type, NEW enabled, SwitchEvent(type, enabled)
       PROVE  AllNews'
  BY <1>0, <1>13, SwitchKeepsNews, AllQuiet
<1>14. ASSUME NEW r \in Slots, InboxCalls(r)
       PROVE  AllNews'
  BY <1>6, <1>7, <1>8, <1>9, <1>14 DEF InboxCalls
<1> QED BY <1>1, <1>2, <1>3, <1>4, <1>5, <1>11, <1>12, <1>13, <1>14 DEF InboxNext

\* and those of comments;
LEMMA CommentsKeepAll ==
    ASSUME AllNews, CommentsNext
    PROVE  AllNews'
<1>0. NewsInv /\ CarryInv /\ MarkInv
  BY DEF AllNews
<1>1. PICK r \in Slots :
         \/ /\ \/ \E u \in Authors :
                     \/ CreateComment(r, u)
                     \/ \E c \in DOMAIN comments : EditComment(r, u, c) \/ RemoveComment(r, u, c)
               \/ \E u \in People : ListComments(r, u)
               \/ CommentCalls(r)
            /\ UNCHANGED <<events, prefs, off, noticeVars>>
         \/ EmitTaskCommented(r)
         \/ InboxCalls(r) /\ UNCHANGED commentVars
  BY DEF CommentsNext
<1>2. CASE InboxCalls(r) /\ UNCHANGED commentVars
  <2>1. InboxNext
    BY <1>2 DEF InboxNext
  <2> QED BY <1>2, <2>1, InboxKeepsAll
<1>3. CASE EmitTaskCommented(r)
  <2>1. /\ NewsInv' /\ MissQuiet /\ CarryInv' /\ MarkInv'
        /\ NewlyTold(Audience \ {My(r).user})
    BY <1>0, <1>3, HandedOver
  <2>2. EventsStay
    BY <2>1 DEF NewlyTold, EventsStay
  <2>3. PICK users : users = Audience \ {My(r).user}
    OBVIOUS
  <2>4. NewlyTold(users)
    BY <2>1, <2>3
  <2> QED BY <2>1, <2>2, <2>4, ToldNewly, MissedQuietly DEF AllNews
<1> SUFFICES ASSUME UNCHANGED <<events, prefs, off, noticeVars>>
             PROVE  \/ /\ \/ \E u \in Authors :
                                \/ CreateComment(r, u)
                                \/ \E c \in DOMAIN comments : EditComment(r, u, c) \/ RemoveComment(r, u, c)
                          \/ \E u \in People : ListComments(r, u)
                          \/ CommentCalls(r)
                       => AllNews'
  BY <1>1, <1>2, <1>3
<1>4. EventsStay
  BY DEF EventsStay
<1>5. ASSUME NEW u \in Authors, CreateComment(r, u)
      PROVE  AllNews'
  <2>1. NewsInv' /\ ToldQuiet /\ MissQuiet
    BY <1>0, <1>5, CreateCommentKeepsNews
  <2>2. CarryInv' /\ MarkInv'
    BY <1>0, <1>5, CarriedFromTheStart
  <2> QED BY <1>4, <2>1, <2>2, ToldQuietly, MissedQuietly DEF AllNews
<1>6. ASSUME NEW u \in Authors, NEW c \in DOMAIN comments, EditComment(r, u, c) \/ RemoveComment(r, u, c)
      PROVE  AllNews'
  <2>1. NewsInv' /\ Quiet
    BY <1>0, <1>6, AsksForComment DEF EditComment, RemoveComment
  <2> QED BY <2>1, AllQuiet
<1>7. ASSUME NEW u \in People, ListComments(r, u)
      PROVE  AllNews'
  BY <1>0, <1>7, ListCommentsKeepsNews, AllQuiet
<1>8. CASE FindMark(r)
  BY <1>0, <1>8, FindMarkKeepsNews, AllQuiet
<1>9. CASE SaveMark(r)
  BY <1>0, <1>9, SaveMarkKeepsNews, AllQuiet
<1>10. CASE InsertMark(r)
  <2>1. NewsInv' /\ ToldQuiet /\ MissQuiet
    BY <1>0, <1>10, InsertMarkKeepsNews
  <2>2. CarryInv' /\ MarkInv'
    BY <1>0, <1>10, CarriedPastTheMark
  <2> QED BY <1>4, <2>1, <2>2, ToldQuietly, MissedQuietly DEF AllNews
<1>11. CASE SaveComment(r) \/ SoftDeleteComment(r)
  BY <1>0, <1>11, WriteCommentKeepsNews, AllQuiet
<1> QED BY <1>5, <1>6, <1>7, <1>8, <1>9, <1>10, <1>11 DEF CommentCalls

\* altogether every step.
LEMMA NewsStays ==
    ASSUME AllNews, [NewsNext]_NewsVars
    PROVE  AllNews'
<1>1. CASE UNCHANGED NewsVars
  <2>1. /\ UNCHANGED <<calls, events, prefs, notices, withheld, missed, comments, lastRead, shown>>
    BY <1>1 DEF NewsVars, noticeVars, commentVars
  <2>2. SlotInv'
    BY <2>1, SlotsStay DEF AllNews, NewsInv
  <2>3. /\ NewsTables'
        /\ \A at, my : NewsPrepared(at, my)' <=> NewsPrepared(at, my)
        /\ \A at, my : NewsChecked(at, my)' <=> NewsChecked(at, my)
    BY <2>1, NewsUntouched DEF AllNews
  <2>4. \A s \in Slots : InFlight(s)' =>
           /\ NewsPrepared(calls[s].at, My(s))'
           /\ calls'[s].alone => NewsChecked(calls[s].at, My(s))'
    BY <2>1 DEF AllNews, NewsInv, InFlight, My, NewsPrepared, NewsChecked, LiveComments
  <2>5. NewsInv'
    BY <2>2, <2>3, <2>4 DEF NewsInv
  <2>6. TablesQuiet
    BY <2>1 DEF TablesQuiet
  <2>7. Quiet
    BY <2>1, <2>6, StoodQuiet
  <2> QED BY <2>5, <2>7, AllQuiet
<1>2. CASE InboxNext /\ UNCHANGED commentVars
  BY <1>2, InboxKeepsAll
<1>3. CASE CommentsNext
  BY <1>3, CommentsKeepAll
<1> QED BY <1>1, <1>2, <1>3 DEF NewsNext

-----------------------------------------------------------------------------
(* The properties.                                                         *)

\* For any number of people, handlers, events and comments: whatever fails for
\* one recipient, everybody whom an event concerns is told exactly once, unless
\* a switch, a preference or an exception was against it; and of one person
\* fewer deliveries end with one than there are handlers.
THEOREM EverybodyIsTold == NewsSpec => []EveryoneToldOnce
<1>1. ASSUME AllNews
      PROVE  EveryoneToldOnce
  <2>1. ToldOnce
    BY <1>1, ToldIsOnce DEF AllNews
  <2>2. MissesBounded
    <3> SUFFICES ASSUME NEW u \in People
                 PROVE  Cardinality(MissedOf(u)) < Cardinality(Slots)
      BY DEF MissesBounded, MissedOf
    <3>1. PICK row, lost, waiting : row = prefs[u].row /\ lost = MissedOf(u) /\ waiting = InsertingFor(u)
      OBVIOUS
    <3>2. Race(row, lost, waiting)
      BY <1>1, <3>1 DEF AllNews, MissInv
    <3>3. Cardinality(lost) < Cardinality(Slots)
      BY <3>2, FewLose
    <3> QED BY <3>1, <3>3
  <2> QED BY <2>1, <2>2 DEF EveryoneToldOnce
<1>2. NewsSpec => HandlersInit /\ InboxInit /\ CommentsInit /\ [][NewsNext]_NewsVars
  BY DEF NewsSpec, NewsNext
<1> QED BY <1>1, <1>2, NewsBegin, NewsStays, PTL

\* Every comment is announced, once, but for those whose authors' handlers lost
\* the race for the mark: for each author fewer than there are handlers.
THEOREM EveryCommentIsAnnounced == NewsSpec => []CommentsAnnounced
<1>1. ASSUME AllNews
      PROVE  CommentsAnnounced
  <2>1. ASSUME NEW u \in People
        PROVE  Cardinality(Unannounced(u)) < Cardinality(Slots)
    <3>1. PICK row, lost, waiting : row = lastRead[u].row /\ lost = Untold(u) /\ waiting = MarkingFor(u)
      OBVIOUS
    <3>2. Race(row, lost, waiting)
      BY <1>1, <3>1 DEF AllNews, MarkInv
    <3>3. Cardinality(lost) < Cardinality(Slots)
      BY <3>2, FewLose
    <3>4. Unannounced(u) = Untold(u)
      BY <1>1, UntoldIs DEF AllNews
    <3> QED BY <3>1, <3>3, <3>4
  <2>2. \A d, e \in DOMAIN events : events[d].about = events[e].about /\ events[d].about # 0 => d = e
    BY <1>1 DEF AllNews, CarryInv
  <2> QED BY <2>1, <2>2 DEF CommentsAnnounced
<1>2. NewsSpec => HandlersInit /\ InboxInit /\ CommentsInit /\ [][NewsNext]_NewsVars
  BY DEF NewsSpec, NewsNext
<1> QED BY <1>1, <1>2, NewsBegin, NewsStays, PTL

\* Where notifications are settled at once, none goes back.
LEMMA SettlesForward ==
    ASSUME NewsTables, NEW ids, NEW state \in {"read", "gone"}, Settle(ids, state),
           state = "read" => \A n \in ids : n \in DOMAIN notices => notices[n].state = "unread",
           NEW n \in DOMAIN notices
    PROVE  Rank[notices'[n].state] >= Rank[notices[n].state]
<1>1. notices' = [m \in DOMAIN notices |->
                    IF m \in ids THEN [notices[m] EXCEPT !.state = state] ELSE notices[m]]
  BY DEF Settle
<1>2. notices[n] \in NoticeRow
  BY Ids DEF NewsTables
<1>3. notices[n].state \in {"unread", "read", "gone"}
  BY <1>2 DEF NoticeRow
<1>4. Rank["unread"] = 1 /\ Rank["read"] = 2 /\ Rank["gone"] = 3
  BY DEF Rank
<1>5. CASE n \in ids
  <2>1. notices'[n].state = state
    <3>1. notices'[n] = [notices[n] EXCEPT !.state = state]
      BY <1>1, <1>5
    <3> QED BY <1>2, <3>1, NoticeState
  <2>2. state = "read" => notices[n].state = "unread"
    BY <1>5
  <2> QED BY <1>3, <1>4, <2>1, <2>2
<1>6. CASE n \notin ids
  <2>1. notices'[n].state = notices[n].state
    BY <1>1, <1>6
  <2> QED BY <1>3, <1>4, <2>1
<1> QED BY <1>5, <1>6

\* Who writes the notifications.
LEMMA WritesOfNotices ==
    ASSUME NewsNext
    PROVE  \/ UNCHANGED notices
           \/ \E r \in Slots : InsertNotice(r) \/ SaveNotice(r)
           \/ \E ids, state : /\ Settle(ids, state) /\ state \in {"read", "gone"}
                              /\ state = "read" => \A n \in ids : n \in DOMAIN notices => notices[n].state = "unread"
<1>1. ASSUME NEW type, NEW users, NEW about, NEW from, Announce(type, users, about, from)
      PROVE  UNCHANGED notices
  BY <1>1 DEF Announce
<1>2. CASE SomethingHappens
  BY <1>1, <1>2 DEF SomethingHappens, TaskAssigned, TaskUnassigned, ProjectMemberAdded,
     ProjectMemberRemoved, TaskStatusChanged, TaskCompleted, SubtaskCreated
<1>3. ASSUME NEW r \in Slots, InboxCalls(r)
      PROVE  UNCHANGED notices \/ InsertNotice(r) \/ SaveNotice(r)
  BY <1>3 DEF InboxCalls, PreparePreferences, SavePreferences, ReturnPreferences, CreateForEvent, noticeVars
<1>4. ASSUME NEW r \in Slots, NEW u \in People,
             \/ GetPreferences(r, u) \/ \E muted \in Mutings : UpdatePreferences(r, u, muted)
             \/ AdminCreates(r, u, "system_announcement")
      PROVE  UNCHANGED notices
  BY <1>4 DEF GetPreferences, UpdatePreferences, AskPreferences, AdminCreates, noticeVars
<1>5. ASSUME NEW r \in Slots, NEW n \in DOMAIN notices, ReadNotice(r, n)
      PROVE  UNCHANGED notices
  BY <1>5 DEF ReadNotice, noticeVars
<1>6. ASSUME NEW u \in People,
             MarkAllAsRead(u) \/ DeleteAllRead(u) \/ \E ids \in SUBSET DOMAIN notices : MarkManyAsRead(u, ids)
      PROVE  \E ids, state : /\ Settle(ids, state) /\ state \in {"read", "gone"}
                             /\ state = "read" => \A n \in ids : n \in DOMAIN notices => notices[n].state = "unread"
  <2>1. \A n \in Unread(u) : notices[n].state = "unread"
    BY DEF Unread
  <2>2. CASE MarkAllAsRead(u)
    BY <2>1, <2>2 DEF MarkAllAsRead
  <2>3. CASE DeleteAllRead(u)
    <3>1. PICK ids : Settle(ids, "gone")
      BY <2>3 DEF DeleteAllRead
    <3> QED BY <3>1
  <2>4. ASSUME NEW some \in SUBSET DOMAIN notices, MarkManyAsRead(u, some)
        PROVE  \E ids, state : /\ Settle(ids, state) /\ state \in {"read", "gone"}
                               /\ state = "read" => \A n \in ids : n \in DOMAIN notices => notices[n].state = "unread"
    <3>1. Settle(Unread(u) \cap some, "read")
      BY <2>4 DEF MarkManyAsRead
    <3>2. \A n \in Unread(u) \cap some : notices[n].state = "unread"
      BY <2>1
    <3> QED BY <3>1, <3>2
  <2> QED BY <1>6, <2>2, <2>3, <2>4
<1>7. ASSUME NEW m \in DOMAIN notices, DeleteNotice(m) \/ CleanExpired(m)
      PROVE  \E ids, state : /\ Settle(ids, state) /\ state \in {"read", "gone"}
                             /\ state = "read" => \A n \in ids : n \in DOMAIN notices => notices[n].state = "unread"
  <2>1. PICK ids : Settle(ids, "gone")
    BY <1>7 DEF DeleteNotice, CleanExpired
  <2> QED BY <2>1
<1>8. ASSUME NEW type, NEW enabled, SwitchEvent(type, enabled)
      PROVE  UNCHANGED notices
  BY <1>8 DEF SwitchEvent, noticeVars
<1>9. CASE InboxNext
  BY <1>2, <1>3, <1>4, <1>5, <1>6, <1>7, <1>8, <1>9 DEF InboxNext
<1>10. CASE CommentsNext
  BY <1>1, <1>3, <1>10 DEF CommentsNext, EmitTaskCommented, noticeVars
<1> QED BY <1>9, <1>10 DEF NewsNext

\* What was read stays read and what was deleted stays deleted, unless a
\* handler that read the row before another one deleted it inserts it again.
THEOREM NoticesOnlyMoveForward == NewsSpec => NoticesMoveForward
<1>1. ASSUME AllNews, [NewsNext]_NewsVars
      PROVE  [\A n \in DOMAIN notices :
                 \/ Rank[notices'[n].state] >= Rank[notices[n].state]
                 \/ \E r \in Slots : Awaits(r, "notice.save") /\ My(r).id = n /\ ~calls[r].alone
             ]_InboxVars
  <2>0. NewsInv /\ NewsTables /\ notices \in Seq(NoticeRow)
    BY <1>1 DEF AllNews, NewsInv, NewsTables
  <2> SUFFICES ASSUME NEW n \in DOMAIN notices
               PROVE  \/ Rank[notices'[n].state] >= Rank[notices[n].state]
                      \/ \E r \in Slots : Awaits(r, "notice.save") /\ My(r).id = n /\ ~calls[r].alone
    OBVIOUS
  <2>1. /\ notices[n] \in NoticeRow
        /\ Rank["unread"] = 1 /\ Rank["read"] = 2 /\ Rank["gone"] = 3
    BY <2>0, Ids DEF Rank
  <2>2. notices[n].state \in {"unread", "read", "gone"}
    BY <2>1 DEF NoticeRow
  <2>3. CASE notices'[n].state = notices[n].state
    BY <2>1, <2>2, <2>3
  <2>4. ASSUME NEW r \in Slots, InsertNotice(r)
        PROVE  notices'[n].state = notices[n].state
    <3>1. CASE UNCHANGED notices
      BY <3>1
    <3>2. CASE notices' = Append(notices, Notice(My(r).user, My(r).event))
      <4>1. Len(notices) \in Nat /\ DOMAIN notices = 1..Len(notices)
        BY <2>0, Ids
      <4>2. PICK row : row = Notice(My(r).user, My(r).event)
        OBVIOUS
      <4>3. /\ notices'[n] = notices[n]
        BY <2>0, <3>2, <4>1, <4>2
      <4> QED BY <4>3
    <3> QED BY <2>4, <3>1, <3>2 DEF InsertNotice
  <2>5. ASSUME NEW r \in Slots, SaveNotice(r)
        PROVE  \/ Rank[notices'[n].state] >= Rank[notices[n].state]
               \/ \E s \in Slots : Awaits(s, "notice.save") /\ My(s).id = n /\ ~calls[s].alone
    <3>1. /\ Awaits(r, "notice.save") /\ calls[r].at = "notice.save" /\ InFlight(r)
          /\ notices' = [notices EXCEPT ![My(r).id].state = "read"]
      BY <2>5 DEF SaveNotice, Awaits, InFlight
    <3>2. CASE My(r).id # n
      <4>1. notices'[n] = notices[n]
        BY <3>1, <3>2
      <4> QED BY <2>3, <4>1
    <3>3. CASE My(r).id = n /\ ~calls[r].alone
      BY <3>1, <3>3
    <3>4. CASE My(r).id = n /\ calls[r].alone
      <4>1. notices[n].state # "gone"
        BY <2>0, <3>1, <3>4 DEF NewsInv, NewsChecked
      <4>2. notices'[n].state = "read"
        BY <2>1, <3>1, <3>4 DEF NoticeRow
      <4> QED BY <2>1, <2>2, <4>1, <4>2
    <3> QED BY <3>2, <3>3, <3>4
  <2>6. ASSUME NEW ids, NEW state \in {"read", "gone"}, Settle(ids, state),
               state = "read" => \A m \in ids : m \in DOMAIN notices => notices[m].state = "unread"
        PROVE  Rank[notices'[n].state] >= Rank[notices[n].state]
    BY <2>0, <2>6, SettlesForward
  <2>7. CASE UNCHANGED NewsVars
    BY <2>3, <2>7 DEF NewsVars, noticeVars
  <2>8. CASE NewsNext
    BY <2>3, <2>4, <2>5, <2>6, <2>8, WritesOfNotices
  <2> QED BY <1>1, <2>7, <2>8
<1>2. NewsSpec => HandlersInit /\ InboxInit /\ CommentsInit /\ [][NewsNext]_NewsVars
  BY DEF NewsSpec, NewsNext
<1> QED BY <1>1, <1>2, NewsBegin, NewsStays, PTL DEF NoticesMoveForward

\* A listing that nobody disturbs shows what it marks as read.
LEMMA ListingShows ==
    ASSUME NewsInv, ~Raced, NEW r \in Slots, SaveMark(r) \/ InsertMark(r),
           NEW u \in People, My(r).comment = 0 \/ My(r).user # u
    PROVE  Hidden(u)' \subseteq Hidden(u)
<1>1. calls[r].at \in Marks /\ UNCHANGED comments
  BY DEF SaveMark, InsertMark, Awaits, Marks
<1>2. InFlight(r) /\ calls[r].alone /\ My(r).user \in People
  BY <1>1, MarkKnows, NotRaced DEF NewsInv, Marks
<1>3. My(r).comment = 0 => My(r).read = LiveComments
  BY <1>1, <1>2 DEF NewsInv, NewsChecked
<1>4. /\ lastRead \in [People -> ReadRow] /\ shown \in [People -> SUBSET Nat]
  BY DEF NewsInv, NewsTables
<1>5. \A v \in People : v # My(r).user => lastRead'[v] = lastRead[v] /\ shown'[v] = shown[v]
  <2>1. \/ UNCHANGED lastRead
        \/ \E row : lastRead' = [lastRead EXCEPT ![My(r).user] = row]
        \/ \E upTo : lastRead' = [lastRead EXCEPT ![My(r).user].upTo = upTo]
    BY DEF SaveMark, InsertMark
  <2>2. \/ UNCHANGED shown
        \/ shown' = [shown EXCEPT ![My(r).user] = @ \cup My(r).read]
    BY DEF SaveMark, InsertMark, Marked
  <2> QED BY <1>2, <1>4, <2>1, <2>2
<1>6. LiveComments' = LiveComments
  BY <1>1 DEF LiveComments
<1>7. CASE My(r).user # u
  <2>1. lastRead'[u] = lastRead[u] /\ shown'[u] = shown[u]
    BY <1>5, <1>7
  <2> QED BY <1>1, <1>6, <2>1 DEF Hidden, UnreadFor
<1>8. CASE My(r).user = u /\ My(r).comment = 0
  <2>1. CASE UNCHANGED <<lastRead, shown>>
    BY <1>1, <1>6, <2>1 DEF Hidden, UnreadFor
  <2>2. CASE shown' = [shown EXCEPT ![u] = @ \cup My(r).read]
    <3>1. LiveComments' \subseteq shown'[u]
      BY <1>3, <1>4, <1>6, <1>8, <2>2
    <3> QED BY <3>1 DEF Hidden
  <2>3. \/ UNCHANGED <<lastRead, shown>>
        \/ shown' = [shown EXCEPT ![u] = @ \cup My(r).read]
    BY <1>8 DEF SaveMark, InsertMark, Marked
  <2> QED BY <2>1, <2>2, <2>3
<1> QED BY <1>7, <1>8

\* A comment that is new is read by nobody.
LEMMA NewCommentsUnread ==
    ASSUME NewsInv, NEW r \in Slots, NEW v \in Authors, CreateComment(r, v), NEW u \in People
    PROVE  Hidden(u)' \subseteq Hidden(u)
<1>0. PICK row : row = [by |-> v, live |-> TRUE]
  OBVIOUS
<1>1. row \in CommentRow
  BY <1>0, AuthorsAssumption DEF CommentRow
<1>2. PICK next : next = comments' /\ next = Append(comments, row) /\ comments \in Seq(CommentRow)
  BY <1>0 DEF CreateComment, NewsInv, NewsTables
<1>3. /\ Len(comments) \in Nat /\ DOMAIN comments = 1..Len(comments)
      /\ \A i \in DOMAIN comments : next[i] = comments[i]
      /\ \A i \in DOMAIN next : i \in DOMAIN comments \/ i = Len(comments) + 1
  BY <1>1, <1>2, Inserted
<1>4. UNCHANGED <<lastRead, shown>>
  BY DEF CreateComment
<1>5. lastRead[u].upTo \in Nat /\ lastRead[u].upTo <= Len(comments)
  BY DEF NewsInv, NewsTables, ReadRow
<1>6. Len(comments) + 1 > lastRead[u].upTo
  BY <1>3, <1>5
<1> SUFFICES ASSUME NEW c \in Hidden(u)'
             PROVE  c \in Hidden(u)
  OBVIOUS
<1>7. /\ c \in DOMAIN next /\ next[c].live /\ next[c].by # u
      /\ lastRead[u].row /\ ~(c > lastRead[u].upTo) /\ c \notin shown[u]
  BY <1>2, <1>4 DEF Hidden, UnreadFor, LiveComments
<1>8. c \in DOMAIN comments
  BY <1>3, <1>6, <1>7
<1>9. comments[c] = next[c]
  BY <1>3, <1>8
<1> QED BY <1>7, <1>8, <1>9 DEF Hidden, UnreadFor, LiveComments

\* A comment that is saved undisturbed was not removed meanwhile.
LEMMA SavedCommentsLive ==
    ASSUME NewsInv, ~Raced, NEW r \in Slots, SaveComment(r) \/ SoftDeleteComment(r), NEW u \in People
    PROVE  Hidden(u)' \subseteq Hidden(u)
<1>1. PICK live \in BOOLEAN :
         /\ UNCHANGED <<lastRead, shown>> /\ InFlight(r)
         /\ comments' = [comments EXCEPT ![My(r).id].live = live]
         /\ calls[r].at \in {"comment.save", "comment.remove"}
         /\ live => calls[r].at = "comment.save"
  BY DEF SaveComment, SoftDeleteComment, Awaits, InFlight
<1>2. My(r).id \in DOMAIN comments
  BY <1>1 DEF NewsInv, NewsPrepared, Marks
<1>3. live => comments[My(r).id].live
  BY <1>1, NotRaced DEF NewsInv, NewsChecked
<1>4. \A c \in DOMAIN comments : comments[c] \in CommentRow
  BY Ids DEF NewsInv, NewsTables
<1>5. /\ DOMAIN comments' = DOMAIN comments
      /\ \A c \in DOMAIN comments : /\ comments'[c].by = comments[c].by
                                    /\ comments'[c].live => comments[c].live
  BY <1>1, <1>2, <1>3, <1>4 DEF CommentRow
<1> QED BY <1>1, <1>5 DEF Hidden, UnreadFor, LiveComments

\* Nobody's listing hides a comment that it has not shown, unless one was
\* written meanwhile, or the reader wrote a comment too: for any number of
\* people, comments and handlers.
THEOREM ListingsShowAll == NewsSpec => ListingsHideNothing
<1>1. ASSUME AllNews, [NewsNext]_NewsVars
      PROVE  [\A u \in People :
                 Hidden(u)' \subseteq Hidden(u) \/ Raced
                 \/ \E r \in Slots : "comment" \in DOMAIN My(r) /\ My(r).comment # 0 /\ My(r).user = u
             ]_<<calls, commentVars>>
  <2>0. NewsInv
    BY <1>1 DEF AllNews
  <2> SUFFICES ASSUME NEW u \in People, ~Raced,
                      ~\E r \in Slots : "comment" \in DOMAIN My(r) /\ My(r).comment # 0 /\ My(r).user = u
               PROVE  Hidden(u)' \subseteq Hidden(u)
    OBVIOUS
  <2>1. CASE UNCHANGED commentVars
    BY <2>1 DEF commentVars, Hidden, UnreadFor, LiveComments
  <2>2. ASSUME NEW r \in Slots, SaveMark(r) \/ InsertMark(r)
        PROVE  Hidden(u)' \subseteq Hidden(u)
    <3>1. calls[r].at \in Marks
      BY <2>2 DEF SaveMark, InsertMark, Awaits, Marks
    <3>2. "comment" \in DOMAIN My(r)
      BY <2>0, <3>1, MarkKnows DEF MarkLocals
    <3> QED BY <2>0, <2>2, <3>2, ListingShows
  <2>3. ASSUME NEW r \in Slots, NEW v \in Authors, CreateComment(r, v)
        PROVE  Hidden(u)' \subseteq Hidden(u)
    BY <2>0, <2>3, NewCommentsUnread
  <2>4. ASSUME NEW r \in Slots, SaveComment(r) \/ SoftDeleteComment(r)
        PROVE  Hidden(u)' \subseteq Hidden(u)
    BY <2>0, <2>4, SavedCommentsLive
  <2>5. ASSUME NEW r \in Slots, NEW v \in Authors, NEW c, EditComment(r, v, c) \/ RemoveComment(r, v, c)
        PROVE  UNCHANGED commentVars
    BY <2>5 DEF EditComment, RemoveComment
  <2>6. ASSUME NEW r \in Slots, (\E v \in People : ListComments(r, v)) \/ FindMark(r) \/ EmitTaskCommented(r)
        PROVE  UNCHANGED commentVars
    BY <2>6 DEF ListComments, FindMark, EmitTaskCommented
  <2>7. CASE CommentsNext
    BY <2>1, <2>2, <2>3, <2>4, <2>5, <2>6, <2>7 DEF CommentsNext, CommentCalls
  <2>8. CASE UNCHANGED NewsVars
    BY <2>1, <2>8 DEF NewsVars
  <2> QED BY <1>1, <2>1, <2>7, <2>8 DEF NewsNext
<1>2. NewsSpec => HandlersInit /\ InboxInit /\ CommentsInit /\ [][NewsNext]_NewsVars
  BY DEF NewsSpec, NewsNext
<1> QED BY <1>1, <1>2, NewsBegin, NewsStays, PTL DEF ListingsHideNothing
=============================================================================

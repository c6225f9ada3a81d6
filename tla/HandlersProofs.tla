--------------------------- MODULE HandlersProofs ---------------------------
(***************************************************************************)
(* What the steps of module Handlers leave of the slots, for the proofs    *)
(* about the services whose handlers run in them.                          *)
(***************************************************************************)
EXTENDS Handlers, SequenceTheorems, TLAPS

SlotShape ==
    /\ DOMAIN calls = Slots
    /\ \A r \in Slots : /\ DOMAIN calls[r] = {"at", "alone", "my"}
                        /\ calls[r].alone \in BOOLEAN

\* A handler that has overlapped with nobody is the only one in flight.
AloneInv ==
    \A r, s \in Slots : InFlight(r) /\ calls[r].alone /\ InFlight(s) => r = s

SlotInv == SlotShape /\ AloneInv

\* The others go on with what they were about to do; `alone' may be lost.
OthersWait(r) ==
    \A s \in Slots : s # r => calls'[s].at = calls[s].at /\ calls'[s].my = calls[s].my

\* Where the handlers of slots other than r are not alone any more.
OthersOverlap(r) ==
    \A s \in Slots : s # r /\ InFlight(s)' => ~calls'[s].alone

LEMMA SlotsBegin ==
    ASSUME HandlersInit
    PROVE  SlotInv /\ \A r \in Slots : ~InFlight(r)
BY DEF HandlersInit, SlotInv, SlotShape, AloneInv, Free, InFlight

LEMMA SlotsRestart ==
    ASSUME calls' = [r \in Slots |-> Free]
    PROVE  SlotInv' /\ \A r \in Slots : ~InFlight(r)'
BY DEF SlotInv, SlotShape, AloneInv, Free, InFlight

LEMMA SlotsStay ==
    ASSUME SlotInv, UNCHANGED calls
    PROVE  SlotInv'
BY DEF SlotInv, SlotShape, AloneInv, InFlight

LEMMA OverlappedShape ==
    ASSUME SlotInv, NEW s \in Slots
    PROVE  /\ DOMAIN Overlapped(s) = {"at", "alone", "my"}
           /\ Overlapped(s).at = calls[s].at /\ Overlapped(s).my = calls[s].my
           /\ Overlapped(s).alone \in BOOLEAN
           /\ InFlight(s) => ~Overlapped(s).alone
BY DEF Overlapped, SlotInv, SlotShape

\* A request arrives: it is the only handler that can be alone.
LEMMA Received ==
    ASSUME SlotInv, NEW r \in Slots, NEW call, call # "free", NEW locals,
           Receive(r, call, locals)
    PROVE  /\ SlotInv'
           /\ calls'[r].at = call /\ calls'[r].my = locals
           /\ ~InFlight(r)
           /\ OthersWait(r) /\ OthersOverlap(r)
           /\ calls'[r].alone => \A t \in Slots : ~InFlight(t)
<1> DEFINE nobody == \A t \in Slots : ~InFlight(t)
           taken == [at |-> call, my |-> locals, alone |-> nobody]
<1>1. /\ DOMAIN calls' = Slots
      /\ calls'[r] = taken
      /\ \A s \in Slots : s # r => calls'[s] = Overlapped(s)
      /\ ~InFlight(r)
  BY DEF Receive
<1>2. nobody \in BOOLEAN
  OBVIOUS
<1> HIDE DEF nobody
<1>3. /\ DOMAIN taken = {"at", "alone", "my"}
      /\ taken.at = call /\ taken.my = locals /\ taken.alone = nobody
  OBVIOUS
<1> HIDE DEF taken
<1>4. OthersWait(r) /\ OthersOverlap(r)
  BY <1>1, OverlappedShape DEF OthersWait, OthersOverlap, InFlight
<1>5. SlotShape'
  BY <1>1, <1>2, <1>3, OverlappedShape DEF SlotShape
<1>6. calls'[r].alone => \A t \in Slots : ~InFlight(t)
  BY <1>1, <1>3 DEF nobody
<1>7. AloneInv'
  <2> SUFFICES ASSUME NEW q \in Slots, NEW s \in Slots, InFlight(q)', calls'[q].alone, InFlight(s)'
               PROVE  q = s
    BY DEF AloneInv
  <2>1. q = r
    BY <1>4 DEF OthersOverlap
  <2>2. ~InFlight(s)
    BY <1>6, <2>1
  <2> QED BY <1>4, <2>1, <2>2 DEF OthersWait, InFlight
<1> QED BY <1>1, <1>3, <1>4, <1>5, <1>6, <1>7 DEF SlotInv

\* A handler of one call leaves nobody in flight alone.
LEMMA Overlaps ==
    ASSUME SlotInv, AtOnce
    PROVE  /\ SlotInv'
           /\ \A s \in Slots : /\ calls'[s].at = calls[s].at /\ calls'[s].my = calls[s].my
                               /\ InFlight(s)' => ~calls'[s].alone
<1>1. DOMAIN calls' = Slots /\ \A s \in Slots : calls'[s] = Overlapped(s)
  BY DEF AtOnce
<1>2. \A s \in Slots : /\ calls'[s].at = calls[s].at /\ calls'[s].my = calls[s].my
                       /\ InFlight(s)' => ~calls'[s].alone
  BY <1>1, OverlappedShape DEF InFlight
<1>3. SlotShape'
  BY <1>1, OverlappedShape DEF SlotShape
<1>4. AloneInv'
  BY <1>2 DEF AloneInv
<1> QED BY <1>2, <1>3, <1>4 DEF SlotInv

\* Whoever is in flight together with r is not alone.
LEMMA OthersOverlapWith ==
    ASSUME SlotInv, NEW r \in Slots, InFlight(r),
           \A s \in Slots : s # r => calls'[s] = calls[s]
    PROVE  OthersWait(r) /\ OthersOverlap(r)
BY DEF OthersWait, OthersOverlap, SlotInv, AloneInv, InFlight

\* A handler goes on to its next call, with other local variables.
LEMMA WentOn ==
    ASSUME SlotInv, NEW r \in Slots, InFlight(r), NEW call, call # "free", NEW locals,
           Await(r, call, locals)
    PROVE  /\ SlotInv'
           /\ calls'[r].at = call /\ calls'[r].my = locals
           /\ calls'[r].alone = calls[r].alone
           /\ OthersWait(r) /\ OthersOverlap(r)
<1>1. /\ DOMAIN calls' = Slots
      /\ DOMAIN calls'[r] = {"at", "alone", "my"}
      /\ calls'[r].at = call /\ calls'[r].my = locals
      /\ calls'[r].alone = calls[r].alone
      /\ \A s \in Slots : s # r => calls'[s] = calls[s]
  BY DEF Await, SlotInv, SlotShape
<1>2. OthersWait(r) /\ OthersOverlap(r)
  BY <1>1, OthersOverlapWith
<1>3. SlotShape'
  BY <1>1 DEF SlotInv, SlotShape
<1>4. AloneInv'
  BY <1>1, <1>2 DEF AloneInv, OthersOverlap, SlotInv, InFlight
<1> QED BY <1>1, <1>2, <1>3, <1>4 DEF SlotInv

\* A handler goes on to its next call as it is.
LEMMA WentNext ==
    ASSUME SlotInv, NEW r \in Slots, InFlight(r), NEW call, call # "free", AwaitNext(r, call)
    PROVE  /\ SlotInv'
           /\ calls'[r].at = call /\ calls'[r].my = calls[r].my
           /\ calls'[r].alone = calls[r].alone
           /\ OthersWait(r) /\ OthersOverlap(r)
<1>1. /\ DOMAIN calls' = Slots
      /\ DOMAIN calls'[r] = {"at", "alone", "my"}
      /\ calls'[r].at = call /\ calls'[r].my = calls[r].my
      /\ calls'[r].alone = calls[r].alone
      /\ \A s \in Slots : s # r => calls'[s] = calls[s]
  BY DEF AwaitNext, SlotInv, SlotShape
<1>2. OthersWait(r) /\ OthersOverlap(r)
  BY <1>1, OthersOverlapWith
<1>3. SlotShape'
  BY <1>1 DEF SlotInv, SlotShape
<1>4. AloneInv'
  BY <1>1, <1>2 DEF AloneInv, OthersOverlap, SlotInv, InFlight
<1> QED BY <1>1, <1>2, <1>3, <1>4 DEF SlotInv

\* A handler answers: nobody alone is left.
LEMMA Answered ==
    ASSUME SlotInv, NEW r \in Slots, InFlight(r), Answer(r)
    PROVE  /\ SlotInv'
           /\ ~InFlight(r)'
           /\ OthersWait(r) /\ OthersOverlap(r)
<1>1. /\ DOMAIN calls' = Slots
      /\ calls'[r] = Free
      /\ \A s \in Slots : s # r => calls'[s] = calls[s]
  BY DEF Answer, SlotInv, SlotShape
<1>2. OthersWait(r) /\ OthersOverlap(r)
  BY <1>1, OthersOverlapWith
<1>3. SlotShape' /\ ~InFlight(r)'
  <2>1. DOMAIN Free = {"at", "alone", "my"} /\ Free.alone \in BOOLEAN /\ Free.at = "free"
    BY DEF Free
  <2> QED BY <1>1, <2>1 DEF SlotInv, SlotShape, InFlight
<1>4. AloneInv'
  BY <1>2, <1>3 DEF AloneInv, OthersOverlap
<1> QED BY <1>2, <1>3, <1>4 DEF SlotInv

\* Whoever acts while nobody has raced is alone.
LEMMA NotRaced ==
    ASSUME SlotInv, ~Raced, NEW r \in Slots, InFlight(r)
    PROVE  calls[r].alone /\ \A s \in Slots : InFlight(s) => s = r
BY DEF Raced, SlotInv, AloneInv

-----------------------------------------------------------------------------
(* Tables.  A row's id is its place in a sequence.                         *)

LEMMA Ids ==
    ASSUME NEW Row, NEW table, table \in Seq(Row)
    PROVE  /\ Len(table) \in Nat /\ DOMAIN table = 1..Len(table)
           /\ \A i \in DOMAIN table : table[i] \in Row
BY LenProperties, ElementOfSeq

\* An insertion adds one row at the end.
LEMMA Inserted ==
    ASSUME NEW Row, NEW table, table \in Seq(Row), NEW row, row \in Row,
           NEW next, next = Append(table, row)
    PROVE  /\ next \in Seq(Row)
           /\ Len(table) \in Nat /\ DOMAIN table = 1..Len(table)
           /\ Len(next) = Len(table) + 1
           /\ DOMAIN next = 1..(Len(table) + 1)
           /\ next[Len(table) + 1] = row
           /\ \A i \in DOMAIN table : next[i] = table[i]
           /\ \A i \in DOMAIN next : i \in DOMAIN table \/ i = Len(table) + 1
<1>1. /\ next \in Seq(Row)
      /\ Len(next) = Len(table) + 1
      /\ next[Len(table) + 1] = row
      /\ \A i \in 1..Len(table) : next[i] = table[i]
  BY AppendProperties
<1>2. DOMAIN next = 1..Len(next) /\ DOMAIN table = 1..Len(table) /\ Len(table) \in Nat
  BY <1>1, LenProperties
<1> QED BY <1>1, <1>2

\* Changes in place keep the table a table.
LEMMA Rewritten ==
    ASSUME NEW Row, NEW table, table \in Seq(Row), NEW next,
           next = [i \in DOMAIN table |-> next[i]], \A i \in DOMAIN table : next[i] \in Row
    PROVE  next \in Seq(Row) /\ DOMAIN next = DOMAIN table /\ Len(next) = Len(table)
<1>1. Len(table) \in Nat /\ DOMAIN table = 1..Len(table)
  BY LenProperties
<1>2. next \in [1..Len(table) -> Row]
  BY <1>1
<1>3. next \in Seq(Row)
  BY <1>1, <1>2, SeqDef
<1> QED BY <1>1, <1>2, <1>3, LenProperties
=============================================================================

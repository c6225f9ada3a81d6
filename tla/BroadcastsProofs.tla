-------------------------- MODULE BroadcastsProofs --------------------------
(***************************************************************************)
(* A broadcast and the e-mails that it queues: for every list of           *)
(* recipients, every number of processes, of attempts, of stalls and of    *)
(* failures, a broadcast that is completed has told everybody, messages    *)
(* are repeated no more often than Bull runs their jobs, and the rows of   *)
(* e-mails say what happened or a run that was cut short explains them.    *)
(*                                                                         *)
(* None of it is inductive.  QueueInv says how far the loop of a broadcast *)
(* has come and what that run of it has done (JobSound), and, for the      *)
(* properties that count, names what is counted: a message that has left   *)
(* belongs to a run of a job of its recipient (Sendings), an in-app        *)
(* notification to a place of the list and a run of the broadcast          *)
(* (Tellings), a PENDING row to a handler about to save it (Savers) or to  *)
(* one of the troubles.                                                    *)
(***************************************************************************)
EXTENDS Broadcasts, FiniteSetTheorems, SequenceTheorems, TLAPS

-----------------------------------------------------------------------------
(* What is known of a job.                                                 *)

JobRecord == [kind: {"broadcast", "send-email"}, to: Seq(Users), byMail: BOOLEAN,
              at: Places, left: Seq(Users), status: {"pending", "sent", "failed"},
              made: 0..Attempts, stalls: 0..(MaxStalls + 1)]

Calls == BroadcastCalls \cup EmailCalls

\* A job whose handler runs or may be run again.
Pending == {"waiting", "return", "lost"} \cup Calls

\* How many of the recipients the current run of a broadcast has behind it; the one
\* whose e-mail is to be queued has been told.
Reached(job) == Len(job.to) - Len(job.left) + (IF job.at = "queue" THEN 1 ELSE 0)

\* What is left of a list is its end.
EndOf(left, to) ==
    /\ Len(left) <= Len(to)
    /\ \A i \in 1..Len(left) : left[i] = to[Len(to) - Len(left) + i]

\* The first job is the broadcast, which Bull never counts an attempt of; the others
\* are e-mails for one recipient each.
JobSound(i, job) ==
    /\ job.kind = "broadcast" <=> i = 1
    /\ job.kind = "broadcast" => job.made = 0 /\ job.at \notin EmailCalls
    /\ job.kind = "send-email" =>
          /\ job.at \notin BroadcastCalls
          /\ \E u \in Users : job.to = <<u>>
    /\ EndOf(job.left, job.to)
    /\ job.at = "waiting" \/ job.at \in EmailCalls => job.left = job.to
    /\ job.at \in {"lost", "completed", "failed"} => job.left = <<>>
    /\ job.kind = "broadcast" /\ job.at = "return" => job.left = <<>>
    /\ job.at \in Calls => job.left # <<>>
    /\ job.at = "save" => job.status # "pending"
    /\ job.at \in Pending => job.made < Attempts /\ job.stalls <= MaxStalls

\* The current run of a broadcast, when it is not lost, has told the recipients that
\* it has behind it, or has logged an error.
Told(job, told, logged) ==
    job.kind = "broadcast" /\ job.at \in {"row", "queue", "return", "completed"} =>
        \A i \in 1..Reached(job) : told[job.to[i]] > 0 \/ job.to[i] \in logged

JobsSound ==
    /\ jobs \in Seq(JobRecord)
    /\ \A i \in DOMAIN jobs : JobSound(i, jobs[i])

JobsTold == \A i \in DOMAIN jobs : Told(jobs[i], inApp, missed)

-----------------------------------------------------------------------------
(* What is counted, in the jobs js.                                        *)

RunningIn(js) == {j \in DOMAIN js : js[j].at \in Calls \cup {"return"}}

\* The e-mails of u.
EmailsIn(js, u) == {j \in DOMAIN js : js[j].kind = "send-email" /\ js[j].to = <<u>>}

\* The handlers that have inserted a row for u and will save it, and those of them
\* that will save it as SENT.
SaversIn(js, u) == {j \in DOMAIN js : js[j].at \in {"mail", "save"} /\ Head(js[j].left) = u}

SentIn(js, u) ==
    {j \in DOMAIN js : js[j].at = "save" /\ js[j].status = "sent" /\ Head(js[j].left) = u}

\* The e-mails of u that have sent their message, if they are to, in this run.
MailedIn(js, u) == {j \in EmailsIn(js, u) : js[j].at \in {"save", "return", "completed"}}

\* The runs of a job that have sent their message, if they were to: those that were
\* cut short, and the current one.
RunsOf(job) ==
    job.made + job.stalls
        + (IF job.at \in {"save", "return", "completed", "lost"} THEN 1 ELSE 0)

SendingsIn(js, u) ==
    {p \in EmailsIn(js, u) \X (0..(Attempts + MaxStalls - 1)) : p[2] < RunsOf(js[p[1]])}

\* The places of u on the list of the broadcast.
PlacesOf(job, u) == {i \in DOMAIN job.to : job.to[i] = u}

\* The places at which u was told, with the runs of the broadcast that did.
TellingsOf(job, u) ==
    {p \in PlacesOf(job, u) \X (0..MaxStalls) :
        p[2] < job.stalls \/ (p[2] = job.stalls /\ p[1] <= Reached(job))}

TellingsIn(js, u) == IF js = <<>> THEN {} ELSE TellingsOf(js[1], u)

RowsCounted ==
    \A u \in Users :
        /\ Cardinality(SaversIn(jobs, u)) <= emails[u].pending
        /\ emails[u].pending <= Cardinality(SaversIn(jobs, u)) + troubles

SentCounted ==
    Mailer => \A u \in Users : emails[u].sent + Cardinality(SentIn(jobs, u)) <= mails[u]

MailsCounted ==
    \A u \in Users :
        /\ mails[u] <= Cardinality(MailedIn(jobs, u)) + troubles
        /\ mails[u] <= Cardinality(SendingsIn(jobs, u))

TellingsCounted == \A u \in Users : inApp[u] <= Cardinality(TellingsIn(jobs, u))

Tables ==
    /\ inApp \in [Users -> Nat]
    /\ emails \in [Users -> [pending: Nat, sent: Nat, failed: Nat]]
    /\ missed \subseteq Users
    /\ mails \in [Users -> Nat]
    /\ troubles \in 0..MaxTroubles

QueueInv ==
    /\ Tables
    /\ JobsSound
    /\ JobsTold
    /\ Cardinality(RunningIn(jobs)) <= Concurrency
    /\ RowsCounted
    /\ SentCounted
    /\ MailsCounted
    /\ TellingsCounted

-----------------------------------------------------------------------------
(* Lists.                                                                  *)

LEMMA Numbers ==
    /\ Concurrency \in Nat /\ Attempts \in Nat /\ Attempts >= 1 /\ MaxStalls \in Nat
    /\ MaxTroubles \in Nat /\ 0 \in 0..Attempts /\ 0 \in 0..(MaxStalls + 1)
    /\ 0 < Attempts /\ 0 <= MaxStalls
BY BroadcastConstants

\* The end of a list, and what is left when it has been taken for one recipient.
LEMMA Ends ==
    ASSUME NEW to \in Seq(Users)
    PROVE  /\ <<>> \in Seq(Users) /\ Len(<<>>) = 0
           /\ EndOf(to, to) /\ EndOf(<<>>, to)
           /\ \A left \in Seq(Users) : EndOf(left, to) /\ left # <<>> =>
                /\ Len(left) \in Nat /\ Len(left) >= 1 /\ Len(left) <= Len(to) /\ Len(to) \in Nat
                /\ Head(left) \in Users /\ Tail(left) \in Seq(Users)
                /\ Len(Tail(left)) = Len(left) - 1
                /\ Head(left) = to[Len(to) - Len(left) + 1]
                /\ Len(to) - Len(left) + 1 \in 1..Len(to)
                /\ EndOf(Tail(left), to)
<1>1. /\ <<>> \in Seq(Users) /\ Len(<<>>) = 0
      /\ EndOf(to, to) /\ EndOf(<<>>, to)
  <2>1. Len(to) \in Nat /\ <<>> \in Seq(Users) /\ Len(<<>>) = 0
    OBVIOUS
  <2>2. EndOf(to, to)
    BY <2>1 DEF EndOf
  <2>3. EndOf(<<>>, to)
    BY <2>1 DEF EndOf
  <2> QED BY <2>1, <2>2, <2>3
<1>2. ASSUME NEW left \in Seq(Users), EndOf(left, to), left # <<>>
      PROVE  /\ Len(left) \in Nat /\ Len(left) >= 1 /\ Len(left) <= Len(to) /\ Len(to) \in Nat
             /\ Head(left) \in Users /\ Tail(left) \in Seq(Users)
             /\ Len(Tail(left)) = Len(left) - 1
             /\ Head(left) = to[Len(to) - Len(left) + 1]
             /\ Len(to) - Len(left) + 1 \in 1..Len(to)
             /\ EndOf(Tail(left), to)
  <2>1. /\ Len(left) \in Nat /\ Len(left) >= 1 /\ Len(left) <= Len(to) /\ Len(to) \in Nat
        /\ Head(left) = left[1] /\ Head(left) \in Users /\ Tail(left) \in Seq(Users)
        /\ Len(Tail(left)) = Len(left) - 1
        /\ \A i \in 1..Len(Tail(left)) : Tail(left)[i] = left[i + 1]
    BY <1>2 DEF EndOf
  <2>2. Head(left) = to[Len(to) - Len(left) + 1]
    BY <1>2, <2>1 DEF EndOf
  <2>3. ASSUME NEW i \in 1..Len(Tail(left))
        PROVE  Tail(left)[i] = to[Len(to) - Len(Tail(left)) + i]
    <3>1. i + 1 \in 1..Len(left) /\ Len(to) - Len(left) + (i + 1) = Len(to) - Len(Tail(left)) + i
      BY <2>1
    <3>2. left[i + 1] = to[Len(to) - Len(left) + (i + 1)]
      BY <1>2, <3>1 DEF EndOf
    <3> QED BY <2>1, <3>1, <3>2
  <2>4. Len(Tail(left)) <= Len(to) /\ Len(to) - Len(left) + 1 \in 1..Len(to)
    BY <2>1
  <2>5. EndOf(Tail(left), to)
    BY <2>3, <2>4 DEF EndOf
  <2> QED BY <2>1, <2>2, <2>4, <2>5
<1> QED BY <1>1, <1>2

-----------------------------------------------------------------------------
(* The steps that move one job.                                            *)

NewEmail(u) == Job("send-email", <<u>>, TRUE)

\* Job j changes, without becoming another job, and e-mails may be added.
Moved(j) ==
    /\ j \in DOMAIN jobs
    /\ jobs' \in Seq(JobRecord)
    /\ DOMAIN jobs \subseteq DOMAIN jobs'
    /\ \A i \in DOMAIN jobs \ {j} : jobs'[i] = jobs[i]
    /\ \A i \in DOMAIN jobs' \ DOMAIN jobs : \E u \in Users : jobs'[i] = NewEmail(u)
    /\ jobs'[j].kind = jobs[j].kind
    /\ jobs'[j].to = jobs[j].to

LEMMA JobTyped ==
    ASSUME JobsSound, NEW j \in DOMAIN jobs
    PROVE  /\ jobs[j] \in JobRecord /\ JobSound(j, jobs[j])
           /\ jobs # <<>> /\ j \in Nat /\ j >= 1 /\ 1 \in DOMAIN jobs
BY DEF JobsSound

LEMMA EmailTyped ==
    ASSUME NEW u \in Users
    PROVE  /\ NewEmail(u) \in JobRecord
           /\ NewEmail(u).at = "waiting" /\ NewEmail(u).kind = "send-email"
           /\ \A i \in Nat : i > 1 => JobSound(i, NewEmail(u))
<1>1. <<u>> \in Seq(Users) /\ EndOf(<<u>>, <<u>>)
  <2>1. <<u>> \in Seq(Users)
    OBVIOUS
  <2> QED BY <2>1, Ends
<1>2. /\ NewEmail(u) = [kind |-> "send-email", to |-> <<u>>, byMail |-> TRUE,
                        at |-> "waiting", left |-> <<u>>, status |-> "pending",
                        made |-> 0, stalls |-> 0]
  BY DEF NewEmail, Job
<1>3. NewEmail(u) \in JobRecord
  BY <1>1, <1>2, Numbers DEF JobRecord, Places
<1>4. ASSUME NEW i \in Nat, i > 1 PROVE JobSound(i, NewEmail(u))
  BY <1>1, <1>2, <1>4, Numbers DEF JobSound, Calls, BroadcastCalls, EmailCalls
<1>5. NewEmail(u).at = "waiting" /\ NewEmail(u).kind = "send-email"
  BY <1>2
<1> HIDE DEF NewEmail, JobSound
<1> QED BY <1>3, <1>4, <1>5

\* A list with one more element.
LEMMA Appended ==
    ASSUME NEW S, NEW seq \in Seq(S), NEW x \in S, NEW longer, longer = Append(seq, x)
    PROVE  /\ longer \in Seq(S)
           /\ DOMAIN seq = 1..Len(seq) /\ Len(seq) \in Nat
           /\ DOMAIN longer = 1..(Len(seq) + 1)
           /\ \A i \in DOMAIN seq : longer[i] = seq[i]
           /\ longer[Len(seq) + 1] = x
           /\ DOMAIN seq \subseteq DOMAIN longer
           /\ \A i \in DOMAIN longer \ DOMAIN seq : i = Len(seq) + 1
<1>1. DOMAIN seq = 1..Len(seq) /\ Len(seq) \in Nat
  BY LenProperties
<1>2. /\ longer \in Seq(S) /\ Len(longer) = Len(seq) + 1
      /\ \A i \in 1..Len(seq) : longer[i] = seq[i]
      /\ longer[Len(seq) + 1] = x
  BY AppendProperties
<1>3. DOMAIN longer = 1..(Len(seq) + 1)
  BY <1>2, LenProperties
<1>4. \A n \in Nat : \A i \in 1..(n + 1) : i \notin 1..n => i = n + 1
  OBVIOUS
<1>5. \A i \in DOMAIN longer \ DOMAIN seq : i = Len(seq) + 1
  BY <1>1, <1>3, <1>4
<1>6. DOMAIN seq \subseteq DOMAIN longer
  BY <1>1, <1>3
<1> QED BY <1>1, <1>2, <1>3, <1>5, <1>6

LEMMA Replaced ==
    ASSUME JobsSound, NEW j \in DOMAIN jobs, NEW new \in JobRecord,
           new.kind = jobs[j].kind, new.to = jobs[j].to,
           \/ jobs' = [jobs EXCEPT ![j] = new]
           \/ \E u \in Users : jobs' = Append([jobs EXCEPT ![j] = new], NewEmail(u))
    PROVE  Moved(j) /\ jobs'[j] = new
<1> DEFINE next == [jobs EXCEPT ![j] = new]
<1>1. jobs \in Seq(JobRecord)
  BY DEF JobsSound
<1>2. /\ next \in Seq(JobRecord) /\ DOMAIN next = DOMAIN jobs /\ Len(next) = Len(jobs)
      /\ next[j] = new /\ \A i \in DOMAIN jobs \ {j} : next[i] = jobs[i]
  BY <1>1
<1>3. jobs' = next \/ \E u \in Users : jobs' = Append(next, NewEmail(u))
  OBVIOUS
<1> HIDE DEF next
<1>4. CASE jobs' = next
  BY <1>2, <1>4 DEF Moved
<1>5. ASSUME NEW u \in Users, jobs' = Append(next, NewEmail(u))
      PROVE  Moved(j) /\ jobs'[j] = new
  <2>1. NewEmail(u) \in JobRecord
    BY EmailTyped
  <2>2. next \in Seq(JobRecord) /\ DOMAIN next = DOMAIN jobs
    BY <1>2
  <2>3. /\ jobs' \in Seq(JobRecord) /\ DOMAIN next \subseteq DOMAIN jobs'
        /\ \A i \in DOMAIN next : jobs'[i] = next[i]
        /\ \A i \in DOMAIN jobs' \ DOMAIN next : jobs'[i] = NewEmail(u)
    BY <1>5, <2>1, <2>2, Appended
  <2> QED BY <1>2, <2>2, <2>3 DEF Moved
<1> QED BY <1>3, <1>4, <1>5

LEMMA SoundMoved ==
    ASSUME JobsSound, NEW j, Moved(j), JobSound(j, jobs'[j])
    PROVE  JobsSound'
<1>1. jobs' \in Seq(JobRecord) /\ jobs \in Seq(JobRecord) /\ 1 \in DOMAIN jobs
  BY JobTyped DEF Moved, JobsSound
<1>2. ASSUME NEW i \in DOMAIN jobs' PROVE JobSound(i, jobs'[i])
  <2>1. CASE i \in DOMAIN jobs \ {j}
    BY <2>1 DEF Moved, JobsSound
  <2>2. CASE i \notin DOMAIN jobs
    <3>1. PICK u \in Users : jobs'[i] = NewEmail(u)
      BY <2>2 DEF Moved
    <3>2. i \in Nat /\ i >= 1 /\ i # 1
      BY <1>1, <2>2
    <3>3. i > 1
      BY <3>2
    <3> QED BY <3>1, <3>2, <3>3, EmailTyped
  <2> QED BY <2>1, <2>2
<1> QED BY <1>1, <1>2 DEF JobsSound

-----------------------------------------------------------------------------
(* What each step makes of its job.                                        *)

\* Neither the runs of a job nor the places of its current run are taken back.
Advances(job, new) ==
    /\ RunsOf(new) >= RunsOf(job)
    /\ \/ new.stalls > job.stalls
       \/ new.stalls = job.stalls /\ Reached(new) >= Reached(job)

\* A step that only moves its job to another place.
LEMMA Going ==
    ASSUME NEW job \in JobRecord, NEW p \in Places, NEW new, new = [job EXCEPT !.at = p]
    PROVE  /\ new \in JobRecord /\ new.at = p /\ new.kind = job.kind /\ new.to = job.to
           /\ new.left = job.left /\ new.status = job.status
           /\ new.made = job.made /\ new.stalls = job.stalls
BY DEF JobRecord

LEMMA Measures ==
    ASSUME NEW job \in JobRecord
    PROVE  /\ job.made \in Nat /\ job.stalls \in Nat /\ job.to \in Seq(Users)
           /\ job.left \in Seq(Users) /\ Len(job.to) \in Nat /\ Len(job.left) \in Nat
           /\ RunsOf(job) \in Nat /\ Reached(job) \in Int
<1>1. /\ job.made \in Nat /\ job.stalls \in Nat /\ job.to \in Seq(Users)
      /\ job.left \in Seq(Users)
  BY Numbers DEF JobRecord
<1>2. Len(job.to) \in Nat /\ Len(job.left) \in Nat
  BY <1>1
<1>3. RunsOf(job) \in Nat /\ Reached(job) \in Int
  BY <1>1, <1>2 DEF RunsOf, Reached
<1> QED BY <1>1, <1>2, <1>3

LEMMA Reaching ==
    ASSUME NEW job \in JobRecord
    PROVE  /\ job.at = "queue" => Reached(job) = Len(job.to) - Len(job.left) + 1
           /\ job.at # "queue" => Reached(job) = Len(job.to) - Len(job.left)
<1>1. Len(job.to) \in Nat /\ Len(job.left) \in Nat
  BY Measures
<1>2. job.at = "queue" => Reached(job) = Len(job.to) - Len(job.left) + 1
  BY <1>1 DEF Reached
<1>3. job.at # "queue" => Reached(job) = Len(job.to) - Len(job.left)
  BY <1>1 DEF Reached
<1> QED BY <1>2, <1>3

LEMMA TakeJob ==
    ASSUME JobsSound, NEW j \in DOMAIN jobs, Take(j)
    PROVE  /\ Moved(j) /\ JobSound(j, jobs'[j]) /\ Advances(jobs[j], jobs'[j])
           /\ jobs[j].at = "waiting" /\ jobs'[j].at \in {"user", "return", "row"}
           /\ jobs'[j].at = "return" => jobs'[j].kind = "broadcast"
           /\ jobs'[j].kind = "broadcast" => Reached(jobs'[j]) = 0
<1> DEFINE job == jobs[j]
           new == [job EXCEPT !.at = FirstCall(job)]
<1>1. job \in JobRecord /\ JobSound(j, job) /\ job.at = "waiting"
  BY JobTyped DEF Take, At
<1>2. /\ FirstCall(job) \in {"user", "return", "row"} /\ FirstCall(job) \in Places
      /\ job.kind = "send-email" => FirstCall(job) = "user"
      /\ job.kind # "send-email" /\ job.to = <<>> => FirstCall(job) = "return"
      /\ job.kind # "send-email" /\ job.to # <<>> => FirstCall(job) = "row"
  BY DEF FirstCall, Places, EmailCalls, BroadcastCalls
<1>3. jobs' = [jobs EXCEPT ![j] = new]
  BY DEF Take, Goto
<1>4. /\ new \in JobRecord /\ new.at = FirstCall(job) /\ new.kind = job.kind /\ new.to = job.to
      /\ new.left = job.left /\ new.status = job.status
      /\ new.made = job.made /\ new.stalls = job.stalls
  BY <1>1, <1>2, Going
<1> HIDE DEF new
<1>5. Moved(j) /\ jobs'[j] = new
  BY <1>3, <1>4, Replaced
<1>6. job.left = job.to /\ (job.kind = "broadcast" \/ job.kind = "send-email")
  BY <1>1 DEF JobSound, JobRecord
<1>n. job.kind = "send-email" => job.to # <<>>
  <2>1. \A u : <<u>> # <<>>
    OBVIOUS
  <2> QED BY <1>1, <2>1 DEF JobSound
<1>7. JobSound(j, new)
  BY <1>1, <1>2, <1>4, <1>6, <1>n DEF JobSound, Calls, BroadcastCalls, EmailCalls, Pending
<1>8. /\ Reached(job) = 0 /\ (new.at # "queue" => Reached(new) = 0)
      /\ RunsOf(job) = job.made + job.stalls /\ RunsOf(new) >= RunsOf(job)
  BY <1>1, <1>4, <1>6, Measures DEF Reached, RunsOf
<1>9. Advances(job, new)
  BY <1>2, <1>4, <1>8 DEF Advances
<1> QED BY <1>1, <1>2, <1>4, <1>5, <1>6, <1>7, <1>8, <1>9

LEMMA CompleteJob ==
    ASSUME JobsSound, NEW j \in DOMAIN jobs, Complete(j)
    PROVE  /\ Moved(j) /\ JobSound(j, jobs'[j]) /\ Advances(jobs[j], jobs'[j])
           /\ jobs[j].at = "return" /\ jobs'[j].at = "completed"
           /\ jobs'[j].kind = "broadcast" => Reached(jobs'[j]) = Reached(jobs[j])
<1> DEFINE job == jobs[j]
           new == [job EXCEPT !.at = "completed", !.left = <<>>, !.status = "pending"]
<1>1. job \in JobRecord /\ JobSound(j, job) /\ job.at = "return"
  BY JobTyped DEF Complete, At
<1>3. jobs' = [jobs EXCEPT ![j] = new]
  BY DEF Complete, JobsSound
<1>4. /\ new \in JobRecord /\ new.at = "completed" /\ new.kind = job.kind /\ new.to = job.to
      /\ new.left = <<>> /\ new.status = "pending"
      /\ new.made = job.made /\ new.stalls = job.stalls
  <2>1. "completed" \in Places /\ <<>> \in Seq(Users)
    BY DEF Places, Settled
  <2> QED BY <1>1, <2>1 DEF JobRecord
<1> HIDE DEF new
<1>5. Moved(j) /\ jobs'[j] = new
  BY <1>3, <1>4, Replaced
<1>6. EndOf(<<>>, job.to) /\ Len(<<>>) = 0
  BY <1>1, Ends DEF JobRecord
<1>7. JobSound(j, new)
  BY <1>1, <1>4, <1>6 DEF JobSound, Calls, BroadcastCalls, EmailCalls, Pending
<1>8. /\ Reached(job) = Len(job.to) - Len(job.left) /\ Reached(new) = Len(job.to)
      /\ RunsOf(new) = RunsOf(job)
  BY <1>1, <1>4, <1>6 DEF Reached, RunsOf
<1>m. /\ Len(job.to) \in Nat /\ Len(job.left) \in Nat /\ RunsOf(job) \in Nat
      /\ job.stalls \in Nat
  BY <1>1, Measures
<1>n. Reached(new) >= Reached(job) /\ (Len(job.left) = 0 => Reached(new) = Reached(job))
  <2>1. \A a, b \in Nat : a >= a - b /\ (b = 0 => a = a - b)
    OBVIOUS
  <2> QED BY <1>8, <1>m, <2>1
<1>k. \A n \in Nat : n >= n
  OBVIOUS
<1>9. Advances(job, new)
  BY <1>4, <1>8, <1>m, <1>n, <1>k DEF Advances
<1>10. job.kind = "broadcast" => job.left = <<>>
  BY <1>1 DEF JobSound
<1>11. job.kind = "broadcast" => Reached(new) = Reached(job)
  BY <1>6, <1>10, <1>n
<1> QED BY <1>1, <1>4, <1>5, <1>7, <1>9, <1>11

\* The job goes back to the queue or is given up.
LEMMA Returned ==
    ASSUME NEW job \in JobRecord, NEW new \in {Requeued(job), GivenUp(job)}
    PROVE  /\ new.kind = job.kind /\ new.to = job.to /\ new.byMail = job.byMail
           /\ new.made = job.made /\ new.stalls = job.stalls /\ new.status = "pending"
           /\ new \in JobRecord
           /\ \/ new = Requeued(job) /\ new.at = "waiting" /\ new.left = job.to
              \/ new = GivenUp(job) /\ new.at = "failed" /\ new.left = <<>>
<1>1. /\ "waiting" \in Places /\ "failed" \in Places /\ <<>> \in Seq(Users)
      /\ job.to \in Seq(Users)
  BY DEF Places, Settled, JobRecord
<1>2. CASE new = Requeued(job)
  BY <1>1, <1>2 DEF JobRecord, Requeued
<1>3. CASE new = GivenUp(job)
  BY <1>1, <1>3 DEF JobRecord, GivenUp
<1> QED BY <1>2, <1>3

LEMMA StalledJob ==
    ASSUME JobsSound, NEW j \in DOMAIN jobs, Stalled(j)
    PROVE  /\ Moved(j) /\ JobSound(j, jobs'[j]) /\ Advances(jobs[j], jobs'[j])
           /\ jobs[j].at = "lost" /\ jobs'[j].at \in {"waiting", "failed"}
<1> DEFINE job == jobs[j]
           back == IF job.stalls < MaxStalls THEN Requeued(job) ELSE GivenUp(job)
           new == [back EXCEPT !.stalls = job.stalls + 1]
<1>1. job \in JobRecord /\ JobSound(j, job) /\ job.at = "lost"
  BY JobTyped DEF Stalled, At
<1>2. /\ back.kind = job.kind /\ back.to = job.to
      /\ back.made = job.made /\ back.stalls = job.stalls /\ back.status = "pending"
      /\ back \in JobRecord
      /\ \/ back.at = "waiting" /\ back.left = job.to
         \/ back.at = "failed" /\ back.left = <<>>
  BY <1>1, Returned
<1>w. back.at = "waiting" => job.stalls < MaxStalls
  BY DEF GivenUp
<1>3. jobs' = [jobs EXCEPT ![j] = new]
  BY DEF Stalled, Restarted, JobsSound
<1> HIDE DEF back
<1>m. /\ job.made \in Nat /\ job.stalls \in Nat /\ job.made < Attempts
      /\ job.stalls <= MaxStalls /\ job.stalls + 1 \in 0..(MaxStalls + 1)
  <2>1. job.made < Attempts /\ job.stalls <= MaxStalls
    BY <1>1 DEF JobSound, Pending
  <2> QED BY <1>1, <2>1, Measures, Numbers
<1>4. /\ new \in JobRecord /\ new.at = back.at /\ new.kind = job.kind /\ new.to = job.to
      /\ new.left = back.left /\ new.status = "pending"
      /\ new.made = job.made /\ new.stalls = job.stalls + 1
  BY <1>2, <1>m DEF JobRecord
<1> HIDE DEF new
<1>5. Moved(j) /\ jobs'[j] = new
  BY <1>3, <1>4, Replaced
<1>6. EndOf(<<>>, job.to) /\ EndOf(job.to, job.to) /\ Len(<<>>) = 0
  BY <1>1, Ends DEF JobRecord
<1>s. new.at = "waiting" => new.stalls <= MaxStalls
  BY <1>4, <1>w, <1>m, Numbers
<1>7. JobSound(j, new)
  BY <1>1, <1>2, <1>4, <1>6, <1>m, <1>s
     DEF JobSound, Calls, BroadcastCalls, EmailCalls, Pending
<1>8. RunsOf(job) = job.made + job.stalls + 1 /\ RunsOf(new) = new.made + new.stalls + 0
  BY <1>1, <1>2, <1>4 DEF RunsOf
<1>9. Advances(job, new)
  BY <1>4, <1>8, <1>m DEF Advances
<1> QED BY <1>1, <1>2, <1>4, <1>5, <1>7, <1>9

LEMMA FailAttemptJob ==
    ASSUME JobsSound, NEW j \in DOMAIN jobs, FailAttempt(j)
    PROVE  /\ Moved(j) /\ JobSound(j, jobs'[j]) /\ Advances(jobs[j], jobs'[j])
           /\ jobs[j].at \in {"user", "insert", "save"} /\ jobs'[j].at \in {"waiting", "failed"}
<1> DEFINE job == jobs[j]
           back == IF job.made + 1 < Attempts THEN Requeued(job) ELSE GivenUp(job)
           new == [back EXCEPT !.made = job.made + 1]
<1>1. job \in JobRecord /\ JobSound(j, job) /\ job.at \in {"user", "insert", "save"}
  BY JobTyped DEF FailAttempt, EmailCalls
<1>2. /\ back.kind = job.kind /\ back.to = job.to
      /\ back.made = job.made /\ back.stalls = job.stalls /\ back.status = "pending"
      /\ back \in JobRecord
      /\ \/ back.at = "waiting" /\ back.left = job.to
         \/ back.at = "failed" /\ back.left = <<>>
  BY <1>1, Returned
<1>w. back.at = "waiting" => job.made + 1 < Attempts
  BY DEF GivenUp
<1>3. jobs' = [jobs EXCEPT ![j] = new]
  BY DEF FailAttempt, Retried, JobsSound
<1> HIDE DEF back
<1>m. /\ job.made \in Nat /\ job.stalls \in Nat /\ job.made < Attempts
      /\ job.stalls <= MaxStalls /\ job.made + 1 \in 0..Attempts
  <2>1. job.made < Attempts /\ job.stalls <= MaxStalls
    BY <1>1 DEF JobSound, Pending, Calls, EmailCalls
  <2> QED BY <1>1, <2>1, Measures, Numbers
<1>4. /\ new \in JobRecord /\ new.at = back.at /\ new.kind = job.kind /\ new.to = job.to
      /\ new.left = back.left /\ new.status = "pending"
      /\ new.made = job.made + 1 /\ new.stalls = job.stalls
  BY <1>2, <1>m DEF JobRecord
<1> HIDE DEF new
<1>5. Moved(j) /\ jobs'[j] = new
  BY <1>3, <1>4, Replaced
<1>6. EndOf(<<>>, job.to) /\ EndOf(job.to, job.to) /\ Len(<<>>) = 0 /\ Len(job.to) \in Nat
  BY <1>1, Ends, Measures DEF JobRecord
<1>e. job.left = job.to /\ job.kind # "broadcast"
  BY <1>1 DEF JobSound, EmailCalls
<1>7. JobSound(j, new)
  BY <1>1, <1>2, <1>4, <1>6, <1>e, <1>m, <1>w
     DEF JobSound, Calls, BroadcastCalls, EmailCalls, Pending
<1>8. RunsOf(job) <= job.made + job.stalls + 1 /\ RunsOf(new) = new.made + new.stalls + 0
  BY <1>1, <1>2, <1>4, <1>m DEF RunsOf
<1>r. Reached(job) = 0 /\ Reached(new) >= 0
  <2>1. Len(new.to) = Len(job.to) /\ (Len(new.left) = Len(job.to) \/ Len(new.left) = 0)
    BY <1>2, <1>4, <1>6
  <2>2. Len(job.left) = Len(job.to) /\ job.at # "queue" /\ new.at # "queue"
    BY <1>1, <1>2, <1>4, <1>e
  <2> QED BY <1>6, <2>1, <2>2 DEF Reached
<1>9. Advances(job, new)
  BY <1>4, <1>8, <1>m, <1>r DEF Advances
<1> QED BY <1>1, <1>2, <1>4, <1>5, <1>7, <1>9

\* The handler of a broadcast at a call, for the recipient after those it has behind it.
LEMMA AtRecipient ==
    ASSUME JobsSound, NEW j \in DOMAIN jobs, jobs[j].at \in Calls
    PROVE  /\ jobs[j] \in JobRecord /\ jobs[j].left # <<>> /\ jobs[j].made < Attempts
           /\ jobs[j].stalls <= MaxStalls
           /\ Recipient(j) \in Users
           /\ Len(jobs[j].left) \in Nat /\ Len(jobs[j].left) >= 1
           /\ Len(jobs[j].to) \in Nat /\ Len(jobs[j].left) <= Len(jobs[j].to)
           /\ Recipient(j) = jobs[j].to[Len(jobs[j].to) - Len(jobs[j].left) + 1]
           /\ Len(jobs[j].to) - Len(jobs[j].left) + 1 \in 1..Len(jobs[j].to)
           /\ jobs[j].at \in BroadcastCalls => jobs[j].kind = "broadcast"
           /\ jobs[j].at \in EmailCalls => /\ jobs[j].kind = "send-email"
                                          /\ jobs[j].left = jobs[j].to
                                          /\ jobs[j].to = <<Recipient(j)>>
<1> DEFINE job == jobs[j]
<1>1. /\ job \in JobRecord /\ JobSound(j, job) /\ job.left # <<>>
      /\ job.made < Attempts /\ job.stalls <= MaxStalls /\ EndOf(job.left, job.to)
  BY JobTyped DEF JobSound, Calls, Pending
<1>2. job.to \in Seq(Users) /\ job.left \in Seq(Users)
  BY <1>1, Measures
<1>3. /\ Recipient(j) \in Users /\ Len(job.left) \in Nat /\ Len(job.left) >= 1
      /\ Len(job.to) \in Nat /\ Len(job.left) <= Len(job.to)
      /\ Recipient(j) = job.to[Len(job.to) - Len(job.left) + 1]
      /\ Len(job.to) - Len(job.left) + 1 \in 1..Len(job.to)
  BY <1>1, <1>2, Ends DEF Recipient
<1>4. /\ job.at \in BroadcastCalls => job.kind = "broadcast"
      /\ job.at \in EmailCalls => job.kind = "send-email" /\ job.left = job.to
  BY <1>1 DEF JobSound, JobRecord
<1>5. job.at \in EmailCalls => job.to = <<Recipient(j)>>
  <2>1. \A u : Head(<<u>>) = u
    OBVIOUS
  <2> QED BY <1>1, <1>4, <2>1 DEF JobSound, Recipient
<1> QED BY <1>1, <1>3, <1>4, <1>5

\* The loop has gone on.
LEMMA OnwardJob ==
    ASSUME JobsSound, NEW j \in DOMAIN jobs, jobs[j].at \in BroadcastCalls,
           NEW new, new = Onward(jobs[j])
    PROVE  /\ new \in JobRecord /\ JobSound(j, new)
           /\ new.kind = jobs[j].kind /\ new.to = jobs[j].to /\ new.at \in {"row", "return"}
           /\ new.stalls = jobs[j].stalls
           /\ Reached(new) = Len(jobs[j].to) - Len(jobs[j].left) + 1
           /\ Advances(jobs[j], new)
<1> DEFINE job == jobs[j]
           rest == Tail(job.left)
           next == IF Len(job.left) = 1 THEN "return" ELSE "row"
<1>0. job.at \in Calls
  BY DEF Calls
<1>1. /\ job \in JobRecord /\ JobSound(j, job) /\ job.left # <<>> /\ job.kind = "broadcast"
      /\ EndOf(job.left, job.to) /\ job.made < Attempts /\ job.stalls <= MaxStalls
  BY <1>0, AtRecipient, JobTyped DEF JobSound
<1>2. job.to \in Seq(Users) /\ job.left \in Seq(Users) /\ job.made \in Nat /\ job.stalls \in Nat
  BY <1>1, Measures
<1>3. /\ rest \in Seq(Users) /\ Len(rest) = Len(job.left) - 1 /\ EndOf(rest, job.to)
      /\ Len(job.left) \in Nat /\ Len(job.left) >= 1 /\ Len(job.to) \in Nat
  BY <1>1, <1>2, Ends
<1>4. next \in {"row", "return"} /\ next \in Places /\ (next = "return" <=> Len(job.left) = 1)
  BY DEF Places, BroadcastCalls
<1>5. Len(rest) = 0 <=> rest = <<>>
  BY <1>3, EmptySeq
<1>6. next = "return" <=> rest = <<>>
  <2>1. Len(rest) = 0 <=> Len(job.left) = 1
    BY <1>3
  <2> QED BY <1>4, <1>5, <2>1
<1>n. new = [job EXCEPT !.left = rest, !.at = next]
  BY DEF Onward
<1> HIDE DEF rest, next
<1>7. /\ new \in JobRecord /\ new.kind = job.kind /\ new.to = job.to /\ new.at = next
      /\ new.left = rest /\ new.status = job.status
      /\ new.made = job.made /\ new.stalls = job.stalls
  BY <1>n, <1>1, <1>3, <1>4 DEF JobRecord
<1>8. JobSound(j, new)
  BY <1>1, <1>3, <1>4, <1>6, <1>7
     DEF JobSound, Calls, BroadcastCalls, EmailCalls, Pending
<1>9. Reached(new) = Len(job.to) - Len(job.left) + 1
  <2>1. new.at # "queue" /\ Len(new.left) = Len(job.left) - 1 /\ new.to = job.to
    BY <1>3, <1>4, <1>7
  <2> QED BY <1>3, <2>1 DEF Reached
<1>10. Reached(new) >= Reached(job)
  <2>1. \/ Reached(job) = Len(job.to) - Len(job.left)
        \/ Reached(job) = Len(job.to) - Len(job.left) + 1
    BY <1>1, Reaching
  <2>2. \A a, b \in Nat : a - b + 1 >= a - b /\ a - b + 1 >= a - b + 1
    OBVIOUS
  <2> QED BY <1>3, <1>9, <2>1, <2>2
<1>11. RunsOf(new) >= RunsOf(job)
  <2>1. job.at \notin {"save", "return", "completed", "lost"}
    BY DEF BroadcastCalls
  <2> QED BY <1>2, <1>7, <2>1 DEF RunsOf
<1>12. Advances(job, new)
  BY <1>7, <1>10, <1>11 DEF Advances
<1> QED BY <1>4, <1>7, <1>8, <1>9, <1>12

LEMMA TellInAppJob ==
    ASSUME JobsSound, NEW j \in DOMAIN jobs, TellInApp(j)
    PROVE  /\ Moved(j) /\ JobSound(j, jobs'[j]) /\ Advances(jobs[j], jobs'[j])
           /\ jobs[j].at = "row" /\ jobs'[j].at \in {"row", "queue", "return"}
           /\ jobs[j].kind = "broadcast" /\ Recipient(j) \in Users
           /\ jobs'[j].stalls = jobs[j].stalls /\ jobs[j].stalls <= MaxStalls
           /\ Reached(jobs'[j]) = Reached(jobs[j]) + 1
           /\ Reached(jobs'[j]) \in 1..Len(jobs[j].to)
           /\ Recipient(j) = jobs[j].to[Reached(jobs'[j])]
<1> DEFINE job == jobs[j]
<1>1. job.at = "row" /\ job.at \in BroadcastCalls /\ job.at \in Calls
  BY DEF TellInApp, At, BroadcastCalls, Calls
<1>2. /\ job \in JobRecord /\ job.left # <<>> /\ job.kind = "broadcast"
      /\ job.made < Attempts /\ job.stalls <= MaxStalls /\ Recipient(j) \in Users
      /\ Len(job.left) \in Nat /\ Len(job.left) >= 1 /\ Len(job.to) \in Nat
      /\ Recipient(j) = job.to[Len(job.to) - Len(job.left) + 1]
      /\ Len(job.to) - Len(job.left) + 1 \in 1..Len(job.to)
  BY <1>1, AtRecipient
<1>3. Reached(job) = Len(job.to) - Len(job.left)
  BY <1>1, <1>2 DEF Reached
<1>4. CASE job.byMail
  <2> DEFINE new == [job EXCEPT !.at = "queue"]
  <2>1. jobs' = [jobs EXCEPT ![j] = new]
    BY <1>4 DEF TellInApp, Goto
  <2>2. /\ new \in JobRecord /\ new.at = "queue" /\ new.kind = job.kind /\ new.to = job.to
        /\ new.left = job.left /\ new.status = job.status
        /\ new.made = job.made /\ new.stalls = job.stalls
    <3>1. "queue" \in Places
      BY DEF Places, BroadcastCalls
    <3> QED BY <1>2, <3>1, Going
  <2> HIDE DEF new
  <2>3. Moved(j) /\ jobs'[j] = new
    BY <2>1, <2>2, Replaced
  <2>4. JobSound(j, new)
    BY <1>1, <1>2, <2>2, JobTyped DEF JobSound, Calls, BroadcastCalls, EmailCalls, Pending
  <2>5. Reached(new) = Len(job.to) - Len(job.left) + 1
    BY <1>2, <2>2 DEF Reached
  <2>6. RunsOf(new) = RunsOf(job)
    BY <1>1, <2>2 DEF RunsOf
  <2>7. RunsOf(job) \in Nat
    BY <1>2, Measures
  <2>8. Advances(job, new)
    <3>1. Reached(new) >= Reached(job) /\ RunsOf(new) >= RunsOf(job)
      BY <1>2, <1>3, <2>5, <2>6, <2>7
    <3> QED BY <2>2, <3>1 DEF Advances
  <2> QED BY <1>1, <1>2, <1>3, <2>2, <2>3, <2>4, <2>5, <2>8
<1>5. CASE ~job.byMail
  <2> DEFINE new == Onward(job)
  <2>1. jobs' = [jobs EXCEPT ![j] = new]
    BY <1>5 DEF TellInApp, JobsSound
  <2> HIDE DEF new
  <2>2. /\ new \in JobRecord /\ JobSound(j, new)
        /\ new.kind = job.kind /\ new.to = job.to /\ new.at \in {"row", "return"}
        /\ new.stalls = job.stalls
        /\ Reached(new) = Len(job.to) - Len(job.left) + 1
        /\ Advances(job, new)
    BY <1>1, OnwardJob DEF new
  <2>3. Moved(j) /\ jobs'[j] = new
    BY <2>1, <2>2, Replaced
  <2> QED BY <1>1, <1>2, <1>3, <2>2, <2>3
<1> QED BY <1>4, <1>5

LEMMA QueueEmailJob ==
    ASSUME JobsSound, NEW j \in DOMAIN jobs, QueueEmail(j)
    PROVE  /\ Moved(j) /\ JobSound(j, jobs'[j]) /\ Advances(jobs[j], jobs'[j])
           /\ jobs[j].at = "queue" /\ jobs'[j].at \in {"row", "return"}
           /\ Reached(jobs'[j]) = Reached(jobs[j])
<1> DEFINE job == jobs[j]
           new == Onward(job)
<1>1. job.at = "queue" /\ job.at \in BroadcastCalls /\ job.at \in Calls
  BY DEF QueueEmail, At, BroadcastCalls, Calls
<1>2. Recipient(j) \in Users /\ Len(job.left) \in Nat /\ Len(job.to) \in Nat
  BY <1>1, AtRecipient
<1>3. jobs' = Append([jobs EXCEPT ![j] = new], NewEmail(Recipient(j)))
  BY DEF QueueEmail, NewEmail, JobsSound
<1> HIDE DEF new
<1>4. /\ new \in JobRecord /\ JobSound(j, new)
      /\ new.kind = job.kind /\ new.to = job.to /\ new.at \in {"row", "return"}
      /\ Reached(new) = Len(job.to) - Len(job.left) + 1
      /\ Advances(job, new)
  BY <1>1, OnwardJob DEF new
<1>5. Moved(j) /\ jobs'[j] = new
  BY <1>2, <1>3, <1>4, Replaced
<1>6. Reached(job) = Len(job.to) - Len(job.left) + 1
  BY <1>1, <1>2 DEF Reached
<1> QED BY <1>1, <1>4, <1>5, <1>6

LEMMA SkipRecipientJob ==
    ASSUME JobsSound, NEW j \in DOMAIN jobs, SkipRecipient(j)
    PROVE  /\ Moved(j) /\ JobSound(j, jobs'[j]) /\ Advances(jobs[j], jobs'[j])
           /\ jobs[j].at \in {"row", "queue"} /\ jobs'[j].at \in {"row", "return"}
           /\ Recipient(j) \in Users
           /\ Reached(jobs'[j]) \in 1..Len(jobs[j].to)
           /\ Reached(jobs'[j]) \in {Reached(jobs[j]), Reached(jobs[j]) + 1}
           /\ Recipient(j) = jobs[j].to[Reached(jobs'[j])]
<1> DEFINE job == jobs[j]
           new == Onward(job)
<1>1. job.at \in {"row", "queue"} /\ job.at \in BroadcastCalls /\ job.at \in Calls
  BY DEF SkipRecipient, BroadcastCalls, Calls
<1>2. /\ Recipient(j) \in Users /\ Len(job.left) \in Nat /\ Len(job.to) \in Nat
      /\ Recipient(j) = job.to[Len(job.to) - Len(job.left) + 1]
      /\ Len(job.to) - Len(job.left) + 1 \in 1..Len(job.to)
  BY <1>1, AtRecipient
<1>3. jobs' = [jobs EXCEPT ![j] = new]
  BY DEF SkipRecipient, JobsSound
<1> HIDE DEF new
<1>4. /\ new \in JobRecord /\ JobSound(j, new)
      /\ new.kind = job.kind /\ new.to = job.to /\ new.at \in {"row", "return"}
      /\ Reached(new) = Len(job.to) - Len(job.left) + 1
      /\ Advances(job, new)
  BY <1>1, OnwardJob DEF new
<1>5. Moved(j) /\ jobs'[j] = new
  BY <1>3, <1>4, Replaced
<1>6. Reached(new) \in {Reached(job), Reached(job) + 1}
  <2>1. \/ Reached(job) = Len(job.to) - Len(job.left)
        \/ Reached(job) = Len(job.to) - Len(job.left) + 1
    BY JobTyped, Reaching
  <2> QED BY <1>2, <1>4, <2>1
<1> QED BY <1>1, <1>2, <1>4, <1>5, <1>6

\* The handler of an e-mail goes to another place, perhaps with the outcome.
LEMMA EmailGoes ==
    ASSUME JobsSound, NEW j \in DOMAIN jobs, jobs[j].at \in EmailCalls,
           NEW new \in JobRecord, new.at \in {"insert", "mail", "save", "return"},
           new.kind = jobs[j].kind, new.to = jobs[j].to, new.left = jobs[j].left,
           new.made = jobs[j].made, new.stalls = jobs[j].stalls,
           jobs' = [jobs EXCEPT ![j] = new],
           new.at = "save" => new.status # "pending",
           jobs[j].at = "save" => new.at = "return"
    PROVE  /\ Moved(j) /\ JobSound(j, jobs'[j]) /\ Advances(jobs[j], jobs'[j])
           /\ jobs'[j] = new /\ jobs'[j].left = jobs[j].left /\ Recipient(j) \in Users
           /\ jobs[j].kind = "send-email" /\ jobs[j].to = <<Recipient(j)>>
           /\ jobs[j].made < Attempts /\ jobs[j].stalls <= MaxStalls
           /\ jobs'[j].made = jobs[j].made /\ jobs'[j].stalls = jobs[j].stalls
<1> DEFINE job == jobs[j]
<1>0. job.at \in Calls
  BY DEF Calls
<1>1. /\ job \in JobRecord /\ JobSound(j, job) /\ job.left # <<>>
      /\ job.kind = "send-email" /\ job.to = <<Recipient(j)>> /\ Recipient(j) \in Users
      /\ job.made < Attempts /\ job.stalls <= MaxStalls /\ job.left = job.to
      /\ job.at # "queue"
  <2>1. job.at # "queue"
    BY DEF EmailCalls
  <2> QED BY <1>0, <2>1, AtRecipient, JobTyped
<1>2. /\ new.at \in {"insert", "mail", "save", "return"} /\ new.kind = job.kind
      /\ new.to = job.to /\ new.left = job.left
      /\ new.made = job.made /\ new.stalls = job.stalls
      /\ new.at = "save" => new.status # "pending"
      /\ job.at = "save" => new.at = "return"
  OBVIOUS
<1>3. Moved(j) /\ jobs'[j] = new
  BY <1>2, Replaced
<1>4. JobSound(j, new)
  BY <1>1, <1>2 DEF JobSound, Calls, BroadcastCalls, EmailCalls, Pending
<1>5. Reached(new) = Reached(job) /\ Reached(job) \in Int
  <2>1. new.at # "queue"
    BY <1>2
  <2> QED BY <1>1, <1>2, <2>1, Measures, Reaching
<1>6. RunsOf(new) >= RunsOf(job)
  <2>1. job.made \in Nat /\ job.stalls \in Nat
    BY <1>1, Measures
  <2>2. CASE job.at = "save"
    BY <1>2, <2>1, <2>2 DEF RunsOf
  <2>3. CASE job.at # "save"
    <3>1. job.at \notin {"save", "return", "completed", "lost"}
      BY <2>3 DEF EmailCalls
    <3> QED BY <1>2, <2>1, <3>1 DEF RunsOf
  <2> QED BY <2>2, <2>3
<1>7. Advances(job, new)
  <2>1. Reached(new) >= Reached(job)
    BY <1>5
  <2> QED BY <1>2, <1>6, <2>1 DEF Advances
<1> QED BY <1>1, <1>2, <1>3, <1>4, <1>7

LEMMA FindUserJob ==
    ASSUME JobsSound, NEW j \in DOMAIN jobs, FindUser(j)
    PROVE  /\ Moved(j) /\ JobSound(j, jobs'[j]) /\ Advances(jobs[j], jobs'[j])
           /\ jobs[j].at = "user" /\ jobs'[j].at \in {"insert", "return"}
           /\ jobs[j].kind = "send-email"
<1> DEFINE p == IF Recipient(j) \in Present THEN "insert" ELSE "return"
           new == [jobs[j] EXCEPT !.at = p]
<1>1. /\ jobs[j] \in JobRecord /\ jobs[j].at = "user" /\ jobs[j].at \in EmailCalls
      /\ jobs[j].status \in {"pending", "sent", "failed"}
  BY JobTyped DEF FindUser, At, JobRecord, EmailCalls
<1>3. jobs' = [jobs EXCEPT ![j] = new]
  BY DEF FindUser, Goto
<1>5. p \in {"insert", "return"}
  OBVIOUS
<1>p. p \in Places
  BY <1>5 DEF Places, EmailCalls
<1>4. /\ new \in JobRecord /\ new.at = p /\ new.kind = jobs[j].kind /\ new.to = jobs[j].to
      /\ new.left = jobs[j].left /\ new.status = jobs[j].status
      /\ new.made = jobs[j].made /\ new.stalls = jobs[j].stalls
  BY <1>1, <1>p, Going
<1> HIDE DEF p, new
<1>6. /\ Moved(j) /\ JobSound(j, jobs'[j]) /\ Advances(jobs[j], jobs'[j])
      /\ jobs'[j] = new /\ jobs[j].kind = "send-email"
  BY <1>1, <1>3, <1>4, <1>5, EmailGoes
<1> QED BY <1>1, <1>4, <1>5, <1>6

LEMMA InsertEmailJob ==
    ASSUME JobsSound, NEW j \in DOMAIN jobs, InsertEmail(j)
    PROVE  /\ Moved(j) /\ JobSound(j, jobs'[j]) /\ Advances(jobs[j], jobs'[j])
           /\ jobs[j].at = "insert" /\ jobs'[j].at = "mail"
           /\ jobs'[j].left = jobs[j].left /\ Recipient(j) \in Users
<1> DEFINE new == [jobs[j] EXCEPT !.at = "mail"]
<1>1. /\ jobs[j] \in JobRecord /\ jobs[j].at = "insert" /\ jobs[j].at \in EmailCalls
      /\ jobs[j].status \in {"pending", "sent", "failed"}
  BY JobTyped DEF InsertEmail, At, JobRecord, EmailCalls
<1>3. jobs' = [jobs EXCEPT ![j] = new]
  BY DEF InsertEmail, Goto
<1>p. "mail" \in Places
  BY DEF Places, EmailCalls
<1>4. /\ new \in JobRecord /\ new.at = "mail" /\ new.kind = jobs[j].kind /\ new.to = jobs[j].to
      /\ new.left = jobs[j].left /\ new.status = jobs[j].status
      /\ new.made = jobs[j].made /\ new.stalls = jobs[j].stalls
  BY <1>1, <1>p, Going
<1> HIDE DEF new
<1> QED BY <1>1, <1>3, <1>4, EmailGoes

LEMMA SendMailJob ==
    ASSUME JobsSound, NEW j \in DOMAIN jobs, SendMail(j)
    PROVE  /\ Moved(j) /\ JobSound(j, jobs'[j]) /\ Advances(jobs[j], jobs'[j])
           /\ jobs[j].at = "mail" /\ jobs'[j].at = "save"
           /\ jobs'[j].left = jobs[j].left /\ Recipient(j) \in Users
           /\ jobs[j].kind = "send-email" /\ jobs[j].to = <<Recipient(j)>>
           /\ jobs[j].made < Attempts /\ jobs[j].stalls <= MaxStalls
           /\ jobs'[j].made = jobs[j].made /\ jobs'[j].stalls = jobs[j].stalls
           /\ \/ mails' = [mails EXCEPT ![Recipient(j)] = @ + 1]
              \/ mails' = mails /\ (Mailer => jobs'[j].status # "sent")
<1>1. /\ jobs[j] \in JobRecord /\ jobs[j].at = "mail" /\ jobs[j].at \in EmailCalls
  BY JobTyped DEF SendMail, At, EmailCalls
<1>2. PICK s \in {"sent", "failed"} :
        /\ Outcome(j, s)
        /\ \/ mails' = [mails EXCEPT ![Recipient(j)] = @ + 1]
           \/ mails' = mails /\ (Mailer => s # "sent")
  BY DEF SendMail, Leave
<1> DEFINE new == [jobs[j] EXCEPT !.at = "save", !.status = s]
<1>3. jobs' = [jobs EXCEPT ![j] = new]
  BY <1>2 DEF Outcome, JobsSound
<1>4. /\ new \in JobRecord /\ new.at = "save" /\ new.kind = jobs[j].kind
      /\ new.to = jobs[j].to /\ new.left = jobs[j].left /\ new.status = s
      /\ new.made = jobs[j].made /\ new.stalls = jobs[j].stalls
  <2>1. "save" \in Places
    BY DEF Places, EmailCalls
  <2> QED BY <1>1, <2>1 DEF JobRecord
<1> HIDE DEF new
<1>5. /\ Moved(j) /\ JobSound(j, jobs'[j]) /\ Advances(jobs[j], jobs'[j])
      /\ jobs'[j] = new /\ jobs'[j].left = jobs[j].left /\ Recipient(j) \in Users
      /\ jobs[j].kind = "send-email" /\ jobs[j].to = <<Recipient(j)>>
      /\ jobs[j].made < Attempts /\ jobs[j].stalls <= MaxStalls
      /\ jobs'[j].made = jobs[j].made /\ jobs'[j].stalls = jobs[j].stalls
  BY <1>1, <1>3, <1>4, EmailGoes
<1> QED BY <1>1, <1>2, <1>4, <1>5

LEMMA SaveEmailJob ==
    ASSUME JobsSound, NEW j \in DOMAIN jobs, SaveEmail(j)
    PROVE  /\ Moved(j) /\ JobSound(j, jobs'[j]) /\ Advances(jobs[j], jobs'[j])
           /\ jobs[j].at = "save" /\ jobs'[j].at = "return" /\ Recipient(j) \in Users
           /\ jobs[j].status \in {"sent", "failed"} /\ jobs[j].kind = "send-email"
<1> DEFINE new == [jobs[j] EXCEPT !.at = "return"]
<1>1. /\ jobs[j] \in JobRecord /\ jobs[j].at = "save" /\ jobs[j].at \in EmailCalls
      /\ jobs[j].status \in {"sent", "failed"}
  BY JobTyped DEF SaveEmail, At, JobRecord, EmailCalls, JobSound
<1>3. jobs' = [jobs EXCEPT ![j] = new]
  BY DEF SaveEmail, Goto
<1>p. "return" \in Places
  BY DEF Places, EmailCalls
<1>4. /\ new \in JobRecord /\ new.at = "return" /\ new.kind = jobs[j].kind /\ new.to = jobs[j].to
      /\ new.left = jobs[j].left /\ new.status = jobs[j].status
      /\ new.made = jobs[j].made /\ new.stalls = jobs[j].stalls
  BY <1>1, <1>p, Going
<1> HIDE DEF new
<1> QED BY <1>1, <1>3, <1>4, EmailGoes

-----------------------------------------------------------------------------
(* How the steps change what is counted.                                   *)

\* Two sets that differ in at most one element.
LEMMA OneApart ==
    ASSUME NEW S, NEW T, NEW x, IsFiniteSet(S), IsFiniteSet(T), S \ {x} = T \ {x}
    PROVE  /\ Cardinality(S) \in Nat /\ Cardinality(T) \in Nat
           /\ (x \in S <=> x \in T) => Cardinality(T) = Cardinality(S)
           /\ x \notin S /\ x \in T => Cardinality(T) = Cardinality(S) + 1
           /\ x \in S /\ x \notin T => Cardinality(S) = Cardinality(T) + 1
<1>1. Cardinality(S) \in Nat /\ Cardinality(T) \in Nat
  BY FS_CardinalityType
<1>2. (x \in S <=> x \in T) => S = T
  OBVIOUS
<1>3. x \notin S /\ x \in T => T = S \cup {x}
  OBVIOUS
<1>4. x \in S /\ x \notin T => S = T \cup {x}
  OBVIOUS
<1>5. ASSUME x \notin S, x \in T PROVE Cardinality(T) = Cardinality(S) + 1
  BY <1>3, <1>5, FS_AddElement
<1>6. ASSUME x \in S, x \notin T PROVE Cardinality(S) = Cardinality(T) + 1
  BY <1>4, <1>6, FS_AddElement
<1> QED BY <1>1, <1>2, <1>5, <1>6

\* What is counted is finite.
LEMMA RunningFinite ==
    ASSUME NEW js \in Seq(JobRecord)
    PROVE  IsFiniteSet(RunningIn(js)) /\ Cardinality(RunningIn(js)) \in Nat
<1>1. DOMAIN js = 1..Len(js) /\ Len(js) \in Nat
  BY LenProperties
<1>2. IsFiniteSet(DOMAIN js)
  BY <1>1, FS_Interval
<1>3. RunningIn(js) \in SUBSET (DOMAIN js)
  BY DEF RunningIn
<1> QED BY <1>2, <1>3, FS_Subset, FS_CardinalityType

LEMMA Finite ==
    ASSUME NEW js \in Seq(JobRecord), NEW u \in Users
    PROVE  /\ IsFiniteSet(EmailsIn(js, u))
           /\ IsFiniteSet(SaversIn(js, u)) /\ IsFiniteSet(SentIn(js, u))
           /\ IsFiniteSet(MailedIn(js, u)) /\ IsFiniteSet(SendingsIn(js, u))
<1>1. DOMAIN js = 1..Len(js) /\ Len(js) \in Nat
  BY LenProperties
<1>2. IsFiniteSet(DOMAIN js)
  BY <1>1, FS_Interval
<1>3. \A T \in SUBSET (DOMAIN js) : IsFiniteSet(T)
  BY <1>2, FS_Subset
<1>4. /\ EmailsIn(js, u) \in SUBSET (DOMAIN js)
      /\ SaversIn(js, u) \in SUBSET (DOMAIN js) /\ SentIn(js, u) \in SUBSET (DOMAIN js)
      /\ MailedIn(js, u) \in SUBSET (DOMAIN js)
  BY DEF EmailsIn, SaversIn, SentIn, MailedIn
<1>5. IsFiniteSet(EmailsIn(js, u))
  BY <1>3, <1>4
<1>6. Attempts + MaxStalls - 1 \in Int
  BY Numbers
<1>7. IsFiniteSet(0..(Attempts + MaxStalls - 1))
  BY <1>6, FS_Interval
<1>8. IsFiniteSet(EmailsIn(js, u) \X (0..(Attempts + MaxStalls - 1)))
  BY <1>5, <1>7, FS_Product
<1>9. SendingsIn(js, u) \in SUBSET (EmailsIn(js, u) \X (0..(Attempts + MaxStalls - 1)))
  BY DEF SendingsIn
<1>10. IsFiniteSet(SendingsIn(js, u))
  BY <1>8, <1>9, FS_Subset
<1> QED BY <1>3, <1>4, <1>10

\* Only the job that moves joins or leaves what is counted.
LEMMA RunningJoining ==
    ASSUME JobsSound, NEW j, Moved(j)
    PROVE  RunningIn(jobs) \ {j} = RunningIn(jobs') \ {j}
<1>1. /\ DOMAIN jobs \subseteq DOMAIN jobs'
      /\ \A i \in DOMAIN jobs \ {j} : jobs'[i] = jobs[i]
      /\ \A i \in DOMAIN jobs' \ DOMAIN jobs : jobs'[i].at = "waiting"
      /\ j \in DOMAIN jobs
  BY EmailTyped DEF Moved
<1> QED BY <1>1 DEF RunningIn, Calls, BroadcastCalls, EmailCalls

LEMMA Joining ==
    ASSUME JobsSound, NEW j, Moved(j), NEW u \in Users
    PROVE  /\ SaversIn(jobs, u) \ {j} = SaversIn(jobs', u) \ {j}
           /\ SentIn(jobs, u) \ {j} = SentIn(jobs', u) \ {j}
           /\ MailedIn(jobs, u) \ {j} = MailedIn(jobs', u) \ {j}
           /\ EmailsIn(jobs, u) \subseteq EmailsIn(jobs', u)
<1>1. /\ DOMAIN jobs \subseteq DOMAIN jobs'
      /\ \A i \in DOMAIN jobs \ {j} : jobs'[i] = jobs[i]
      /\ \A i \in DOMAIN jobs' \ DOMAIN jobs : jobs'[i].at = "waiting"
      /\ j \in DOMAIN jobs /\ jobs'[j].kind = jobs[j].kind /\ jobs'[j].to = jobs[j].to
  BY EmailTyped DEF Moved
<1>3. SaversIn(jobs, u) \ {j} = SaversIn(jobs', u) \ {j}
  BY <1>1 DEF SaversIn
<1>4. SentIn(jobs, u) \ {j} = SentIn(jobs', u) \ {j}
  BY <1>1 DEF SentIn
<1>5. MailedIn(jobs, u) \ {j} = MailedIn(jobs', u) \ {j}
  BY <1>1 DEF MailedIn, EmailsIn
<1>6. EmailsIn(jobs, u) \subseteq EmailsIn(jobs', u)
  BY <1>1 DEF EmailsIn
<1> QED BY <1>3, <1>4, <1>5, <1>6

LEMMA SendingsGrow ==
    ASSUME JobsSound, NEW j, Moved(j), RunsOf(jobs'[j]) >= RunsOf(jobs[j]), NEW u \in Users
    PROVE  SendingsIn(jobs, u) \subseteq SendingsIn(jobs', u)
<1>1. /\ EmailsIn(jobs, u) \subseteq EmailsIn(jobs', u)
      /\ \A i \in DOMAIN jobs \ {j} : jobs'[i] = jobs[i]
      /\ jobs[j] \in JobRecord /\ jobs'[j] \in JobRecord
  BY Joining DEF Moved, JobsSound
<1>2. RunsOf(jobs[j]) \in Nat /\ RunsOf(jobs'[j]) \in Nat
  BY <1>1, Measures
<1>3. ASSUME NEW p \in SendingsIn(jobs, u) PROVE p \in SendingsIn(jobs', u)
  <2>1. /\ p \in EmailsIn(jobs, u) \X (0..(Attempts + MaxStalls - 1))
        /\ p[2] < RunsOf(jobs[p[1]]) /\ p[1] \in EmailsIn(jobs, u)
        /\ p[2] \in 0..(Attempts + MaxStalls - 1)
    BY <1>3 DEF SendingsIn
  <2>2. p \in EmailsIn(jobs', u) \X (0..(Attempts + MaxStalls - 1))
    BY <1>1, <2>1
  <2>3. p[1] \in DOMAIN jobs /\ p[2] \in Int
    BY <2>1, Numbers DEF EmailsIn
  <2>4. p[2] < RunsOf(jobs'[p[1]])
    <3>1. CASE p[1] = j
      BY <1>2, <2>1, <2>3, <3>1
    <3>2. CASE p[1] # j
      BY <1>1, <2>1, <2>3, <3>2
    <3> QED BY <3>1, <3>2
  <2> QED BY <2>2, <2>4 DEF SendingsIn
<1> QED BY <1>3

LEMMA TellingsFinite ==
    ASSUME NEW job \in JobRecord, NEW u
    PROVE  IsFiniteSet(TellingsOf(job, u)) /\ IsFiniteSet(PlacesOf(job, u))
<1>1. job.to \in Seq(Users) /\ DOMAIN job.to = 1..Len(job.to) /\ Len(job.to) \in Nat
  BY Measures, LenProperties
<1>2. IsFiniteSet(DOMAIN job.to)
  BY <1>1, FS_Interval
<1>3. PlacesOf(job, u) \in SUBSET (DOMAIN job.to)
  BY DEF PlacesOf
<1>4. IsFiniteSet(PlacesOf(job, u))
  BY <1>2, <1>3, FS_Subset
<1>5. IsFiniteSet(0..MaxStalls)
  BY Numbers, FS_Interval
<1>6. IsFiniteSet(PlacesOf(job, u) \X (0..MaxStalls))
  BY <1>4, <1>5, FS_Product
<1>7. TellingsOf(job, u) \in SUBSET (PlacesOf(job, u) \X (0..MaxStalls))
  BY DEF TellingsOf
<1> QED BY <1>4, <1>6, <1>7, FS_Subset

LEMMA TellingsGrow ==
    ASSUME NEW job \in JobRecord, NEW new \in JobRecord, new.to = job.to,
           Advances(job, new), NEW u
    PROVE  TellingsOf(job, u) \subseteq TellingsOf(new, u)
<1>1. /\ job.stalls \in Nat /\ new.stalls \in Nat /\ Reached(job) \in Int /\ Reached(new) \in Int
      /\ job.to \in Seq(Users) /\ DOMAIN job.to = 1..Len(job.to) /\ Len(job.to) \in Nat
  BY Measures, LenProperties
<1>2. PlacesOf(new, u) = PlacesOf(job, u)
  BY DEF PlacesOf
<1>3. ASSUME NEW p \in TellingsOf(job, u) PROVE p \in TellingsOf(new, u)
  <2>1. /\ p \in PlacesOf(job, u) \X (0..MaxStalls)
        /\ p[2] < job.stalls \/ (p[2] = job.stalls /\ p[1] <= Reached(job))
        /\ p[1] \in DOMAIN job.to /\ p[2] \in 0..MaxStalls
    BY <1>3 DEF TellingsOf, PlacesOf
  <2>2. p[1] \in Int /\ p[2] \in Int
    BY <1>1, <2>1, Numbers
  <2>3. p[2] < new.stalls \/ (p[2] = new.stalls /\ p[1] <= Reached(new))
    <3>1. CASE new.stalls > job.stalls
      BY <1>1, <2>1, <2>2, <3>1
    <3>2. CASE new.stalls = job.stalls /\ Reached(new) >= Reached(job)
      BY <1>1, <2>1, <2>2, <3>2
    <3> QED BY <3>1, <3>2 DEF Advances
  <2> QED BY <1>2, <2>1, <2>3 DEF TellingsOf
<1> QED BY <1>3

-----------------------------------------------------------------------------
(* The counts in a step that moves one job.                                *)

\* A broadcast has not reached beyond its list.
LEMMA ReachedWithin ==
    ASSUME NEW job \in JobRecord, NEW i, JobSound(i, job), NEW k \in 1..Reached(job)
    PROVE  k \in 1..Len(job.to) /\ job.to[k] \in Users
<1>1. /\ job.to \in Seq(Users) /\ Len(job.to) \in Nat /\ Len(job.left) \in Nat
      /\ job.left \in Seq(Users) /\ Reached(job) \in Int
  BY Measures
<1>2. CASE job.at = "queue"
  <2>1. job.left # <<>>
    BY <1>2 DEF JobSound, Calls, BroadcastCalls
  <2>2. Len(job.left) >= 1
    BY <1>1, <2>1, EmptySeq
  <2>3. Reached(job) = Len(job.to) - Len(job.left) + 1
    BY <1>2, Reaching
  <2>4. k \in 1..Len(job.to)
    BY <1>1, <2>2, <2>3
  <2> QED BY <1>1, <2>4
<1>3. CASE job.at # "queue"
  <2>1. Reached(job) = Len(job.to) - Len(job.left)
    BY <1>3, Reaching
  <2>2. k \in 1..Len(job.to)
    BY <1>1, <2>1
  <2> QED BY <1>1, <2>2
<1> QED BY <1>2, <1>3

\* Numbers that are compared.
LEMMA Naturals ==
    ASSUME QueueInv, NEW u \in Users
    PROVE  /\ inApp[u] \in Nat /\ mails[u] \in Nat /\ troubles \in Nat
           /\ emails[u] \in [pending: Nat, sent: Nat, failed: Nat]
           /\ emails[u].pending \in Nat /\ emails[u].sent \in Nat /\ emails[u].failed \in Nat
           /\ jobs \in Seq(JobRecord) /\ JobsSound
           /\ Cardinality(SaversIn(jobs, u)) \in Nat /\ Cardinality(SentIn(jobs, u)) \in Nat
           /\ Cardinality(MailedIn(jobs, u)) \in Nat
           /\ Cardinality(SendingsIn(jobs, u)) \in Nat
<1>1. /\ inApp[u] \in Nat /\ mails[u] \in Nat
      /\ emails[u] \in [pending: Nat, sent: Nat, failed: Nat]
  BY DEF QueueInv, Tables
<1>2. troubles \in Nat
  BY Numbers DEF QueueInv, Tables
<1>3. jobs \in Seq(JobRecord) /\ JobsSound
  BY DEF QueueInv, JobsSound
<1>4. /\ Cardinality(SaversIn(jobs, u)) \in Nat /\ Cardinality(SentIn(jobs, u)) \in Nat
      /\ Cardinality(MailedIn(jobs, u)) \in Nat
      /\ Cardinality(SendingsIn(jobs, u)) \in Nat
  BY <1>3, Finite, FS_CardinalityType
<1> QED BY <1>1, <1>2, <1>3, <1>4

\* How a count changes with its job.
LEMMA Counts ==
    ASSUME QueueInv, NEW j, Moved(j), NEW u \in Users
    PROVE  /\ Cardinality(SaversIn(jobs', u)) \in Nat /\ Cardinality(SentIn(jobs', u)) \in Nat
           /\ Cardinality(MailedIn(jobs', u)) \in Nat
           /\ (j \in SaversIn(jobs, u) <=> j \in SaversIn(jobs', u)) =>
                Cardinality(SaversIn(jobs', u)) = Cardinality(SaversIn(jobs, u))
           /\ j \notin SaversIn(jobs, u) /\ j \in SaversIn(jobs', u) =>
                Cardinality(SaversIn(jobs', u)) = Cardinality(SaversIn(jobs, u)) + 1
           /\ j \in SaversIn(jobs, u) /\ j \notin SaversIn(jobs', u) =>
                Cardinality(SaversIn(jobs, u)) = Cardinality(SaversIn(jobs', u)) + 1
           /\ (j \in SentIn(jobs, u) <=> j \in SentIn(jobs', u)) =>
                Cardinality(SentIn(jobs', u)) = Cardinality(SentIn(jobs, u))
           /\ j \notin SentIn(jobs, u) /\ j \in SentIn(jobs', u) =>
                Cardinality(SentIn(jobs', u)) = Cardinality(SentIn(jobs, u)) + 1
           /\ j \in SentIn(jobs, u) /\ j \notin SentIn(jobs', u) =>
                Cardinality(SentIn(jobs, u)) = Cardinality(SentIn(jobs', u)) + 1
           /\ (j \in MailedIn(jobs, u) <=> j \in MailedIn(jobs', u)) =>
                Cardinality(MailedIn(jobs', u)) = Cardinality(MailedIn(jobs, u))
           /\ j \notin MailedIn(jobs, u) /\ j \in MailedIn(jobs', u) =>
                Cardinality(MailedIn(jobs', u)) = Cardinality(MailedIn(jobs, u)) + 1
           /\ j \in MailedIn(jobs, u) /\ j \notin MailedIn(jobs', u) =>
                Cardinality(MailedIn(jobs, u)) = Cardinality(MailedIn(jobs', u)) + 1
<1>1. jobs' \in Seq(JobRecord) /\ jobs \in Seq(JobRecord) /\ JobsSound
  BY Naturals DEF Moved
<1>2. /\ IsFiniteSet(SaversIn(jobs, u)) /\ IsFiniteSet(SentIn(jobs, u))
      /\ IsFiniteSet(MailedIn(jobs, u))
      /\ IsFiniteSet(SaversIn(jobs', u)) /\ IsFiniteSet(SentIn(jobs', u))
      /\ IsFiniteSet(MailedIn(jobs', u))
  BY <1>1, Finite
<1>3. /\ SaversIn(jobs, u) \ {j} = SaversIn(jobs', u) \ {j}
      /\ SentIn(jobs, u) \ {j} = SentIn(jobs', u) \ {j}
      /\ MailedIn(jobs, u) \ {j} = MailedIn(jobs', u) \ {j}
  BY <1>1, Joining
<1>4. /\ Cardinality(SaversIn(jobs', u)) \in Nat
      /\ (j \in SaversIn(jobs, u) <=> j \in SaversIn(jobs', u)) =>
            Cardinality(SaversIn(jobs', u)) = Cardinality(SaversIn(jobs, u))
      /\ j \notin SaversIn(jobs, u) /\ j \in SaversIn(jobs', u) =>
            Cardinality(SaversIn(jobs', u)) = Cardinality(SaversIn(jobs, u)) + 1
      /\ j \in SaversIn(jobs, u) /\ j \notin SaversIn(jobs', u) =>
            Cardinality(SaversIn(jobs, u)) = Cardinality(SaversIn(jobs', u)) + 1
  BY <1>2, <1>3, OneApart
<1>5. /\ Cardinality(SentIn(jobs', u)) \in Nat
      /\ (j \in SentIn(jobs, u) <=> j \in SentIn(jobs', u)) =>
            Cardinality(SentIn(jobs', u)) = Cardinality(SentIn(jobs, u))
      /\ j \notin SentIn(jobs, u) /\ j \in SentIn(jobs', u) =>
            Cardinality(SentIn(jobs', u)) = Cardinality(SentIn(jobs, u)) + 1
      /\ j \in SentIn(jobs, u) /\ j \notin SentIn(jobs', u) =>
            Cardinality(SentIn(jobs, u)) = Cardinality(SentIn(jobs', u)) + 1
  BY <1>2, <1>3, OneApart
<1>6. /\ Cardinality(MailedIn(jobs', u)) \in Nat
      /\ (j \in MailedIn(jobs, u) <=> j \in MailedIn(jobs', u)) =>
            Cardinality(MailedIn(jobs', u)) = Cardinality(MailedIn(jobs, u))
      /\ j \notin MailedIn(jobs, u) /\ j \in MailedIn(jobs', u) =>
            Cardinality(MailedIn(jobs', u)) = Cardinality(MailedIn(jobs, u)) + 1
      /\ j \in MailedIn(jobs, u) /\ j \notin MailedIn(jobs', u) =>
            Cardinality(MailedIn(jobs, u)) = Cardinality(MailedIn(jobs', u)) + 1
  BY <1>2, <1>3, OneApart
<1> QED BY <1>4, <1>5, <1>6

\* A step of a job that is not about to save an e-mail, and will not be.
LEMMA RowsQuiet ==
    ASSUME QueueInv, NEW j, Moved(j), UNCHANGED <<emails, mails>>,
           troubles' \in Nat, troubles' >= troubles,
           jobs[j].at \notin {"mail", "save"}, jobs'[j].at \notin {"mail", "save"}
    PROVE  RowsCounted' /\ SentCounted'
<1>1. ASSUME NEW u \in Users
      PROVE  /\ Cardinality(SaversIn(jobs', u)) = Cardinality(SaversIn(jobs, u))
             /\ Cardinality(SentIn(jobs', u)) = Cardinality(SentIn(jobs, u))
  <2>1. /\ j \notin SaversIn(jobs, u) /\ j \notin SaversIn(jobs', u)
        /\ j \notin SentIn(jobs, u) /\ j \notin SentIn(jobs', u)
    BY DEF SaversIn, SentIn
  <2> QED BY <2>1, Counts
<1>2. RowsCounted'
  <2> SUFFICES ASSUME NEW u \in Users
               PROVE  /\ Cardinality(SaversIn(jobs', u)) <= emails'[u].pending
                      /\ emails'[u].pending <= Cardinality(SaversIn(jobs', u)) + troubles'
    BY DEF RowsCounted
  <2>1. /\ Cardinality(SaversIn(jobs, u)) <= emails[u].pending
        /\ emails[u].pending <= Cardinality(SaversIn(jobs, u)) + troubles
    BY DEF QueueInv, RowsCounted
  <2>2. /\ Cardinality(SaversIn(jobs, u)) \in Nat /\ emails[u].pending \in Nat
        /\ troubles \in Nat
    BY Naturals
  <2> QED BY <1>1, <2>1, <2>2
<1>3. SentCounted'
  BY <1>1 DEF QueueInv, SentCounted
<1> QED BY <1>2, <1>3

\* A step that sends nothing, and after which its job still counts as mailed.
LEMMA MailsQuiet ==
    ASSUME QueueInv, NEW j, Moved(j), UNCHANGED mails, Advances(jobs[j], jobs'[j]),
           troubles' \in Nat, troubles' >= troubles,
           \/ jobs[j].at \notin {"save", "return", "completed"}
           \/ jobs'[j].at \in {"save", "return", "completed"}
           \/ troubles' = troubles + 1
    PROVE  MailsCounted'
<1> SUFFICES ASSUME NEW u \in Users
             PROVE  /\ mails[u] <= Cardinality(MailedIn(jobs', u)) + troubles'
                    /\ mails[u] <= Cardinality(SendingsIn(jobs', u))
  BY DEF MailsCounted
<1>1. /\ mails[u] <= Cardinality(MailedIn(jobs, u)) + troubles
      /\ mails[u] <= Cardinality(SendingsIn(jobs, u))
  BY DEF QueueInv, MailsCounted
<1>2. /\ mails[u] \in Nat /\ troubles \in Nat /\ JobsSound
      /\ Cardinality(MailedIn(jobs, u)) \in Nat /\ Cardinality(MailedIn(jobs', u)) \in Nat
      /\ Cardinality(SendingsIn(jobs, u)) \in Nat
  BY Naturals, Counts
<1>3. \/ Cardinality(MailedIn(jobs, u)) <= Cardinality(MailedIn(jobs', u))
      \/ /\ troubles' = troubles + 1
         /\ Cardinality(MailedIn(jobs, u)) = Cardinality(MailedIn(jobs', u)) + 1
  <2>1. CASE j \in MailedIn(jobs, u) /\ j \notin MailedIn(jobs', u)
    <3>1. troubles' = troubles + 1
      BY <2>1 DEF MailedIn, EmailsIn, Moved
    <3> QED BY <2>1, <3>1, Counts
  <2>2. CASE j \notin MailedIn(jobs, u) /\ j \in MailedIn(jobs', u)
    <3>1. Cardinality(MailedIn(jobs', u)) = Cardinality(MailedIn(jobs, u)) + 1
      BY <2>2, Counts
    <3> QED BY <1>2, <3>1
  <2>3. CASE j \in MailedIn(jobs, u) <=> j \in MailedIn(jobs', u)
    <3>1. Cardinality(MailedIn(jobs', u)) = Cardinality(MailedIn(jobs, u))
      BY <2>3, Counts
    <3> QED BY <1>2, <3>1
  <2> QED BY <2>1, <2>2, <2>3
<1>4. mails[u] <= Cardinality(MailedIn(jobs', u)) + troubles'
  BY <1>1, <1>2, <1>3
<1>5. /\ SendingsIn(jobs, u) \in SUBSET SendingsIn(jobs', u)
      /\ IsFiniteSet(SendingsIn(jobs', u))
  BY <1>2, SendingsGrow, Finite DEF Moved, Advances
<1>6. /\ Cardinality(SendingsIn(jobs, u)) <= Cardinality(SendingsIn(jobs', u))
      /\ Cardinality(SendingsIn(jobs', u)) \in Nat
  BY <1>5, FS_Subset, FS_CardinalityType
<1> QED BY <1>1, <1>2, <1>4, <1>6

\* A step that tells nobody in the application.
LEMMA TellingsQuiet ==
    ASSUME QueueInv, NEW j, Moved(j), UNCHANGED inApp, Advances(jobs[j], jobs'[j])
    PROVE  TellingsCounted'
<1> SUFFICES ASSUME NEW u \in Users PROVE inApp[u] <= Cardinality(TellingsIn(jobs', u))
  BY DEF TellingsCounted
<1>1. inApp[u] \in Nat /\ inApp[u] <= Cardinality(TellingsIn(jobs, u))
  BY Naturals DEF QueueInv, TellingsCounted
<1>2. /\ jobs # <<>> /\ 1 \in DOMAIN jobs /\ jobs[1] \in JobRecord /\ jobs[j] \in JobRecord
      /\ jobs'[1] \in JobRecord /\ jobs'[j] \in JobRecord /\ jobs' # <<>>
      /\ j # 1 => jobs'[1] = jobs[1]
  <2>1. JobsSound /\ j \in DOMAIN jobs /\ jobs' \in Seq(JobRecord) /\ 1 \in DOMAIN jobs'
    BY Naturals, JobTyped DEF Moved
  <2> QED BY <2>1, JobTyped DEF Moved
<1>3. TellingsOf(jobs[1], u) \in SUBSET TellingsOf(jobs'[1], u)
  BY <1>2, TellingsGrow DEF Moved
<1>4. /\ IsFiniteSet(TellingsOf(jobs'[1], u)) /\ IsFiniteSet(TellingsOf(jobs[1], u))
      /\ Cardinality(TellingsOf(jobs[1], u)) <= Cardinality(TellingsOf(jobs'[1], u))
  BY <1>2, <1>3, TellingsFinite, FS_Subset
<1>5. /\ Cardinality(TellingsOf(jobs[1], u)) \in Nat
      /\ Cardinality(TellingsOf(jobs'[1], u)) \in Nat
  BY <1>4, FS_CardinalityType
<1>6. inApp[u] <= Cardinality(TellingsOf(jobs[1], u))
  BY <1>1, <1>2 DEF TellingsIn
<1>7. inApp[u] <= Cardinality(TellingsOf(jobs'[1], u))
  BY <1>1, <1>4, <1>5, <1>6
<1> QED BY <1>2, <1>7 DEF TellingsIn

\* What has been told stays told.
LEMMA ToldQuiet ==
    ASSUME QueueInv, NEW j, Moved(j), missed \subseteq missed',
           \A u \in Users : inApp[u] > 0 => inApp'[u] > 0,
           Told(jobs'[j], inApp', missed')
    PROVE  JobsTold'
<1> SUFFICES ASSUME NEW i \in DOMAIN jobs' PROVE Told(jobs'[i], inApp', missed')
  BY DEF JobsTold
<1>1. CASE i \notin DOMAIN jobs
  <2>1. jobs'[i].at = "waiting"
    BY <1>1, EmailTyped DEF Moved
  <2> QED BY <2>1 DEF Told
<1>2. CASE i \in DOMAIN jobs \ {j}
  <2>1. jobs'[i] = jobs[i] /\ Told(jobs[i], inApp, missed) /\ jobs[i] \in JobRecord
    BY <1>2, JobTyped DEF Moved, QueueInv, JobsTold
  <2>2. jobs[i].to \in Seq(Users) /\ Len(jobs[i].to) \in Nat /\ Reached(jobs[i]) \in Int
    BY <2>1, Measures
  <2>3. JobSound(i, jobs[i])
    BY <1>2, JobTyped DEF QueueInv
  <2> QED
    <3> SUFFICES ASSUME jobs[i].kind = "broadcast",
                        jobs[i].at \in {"row", "queue", "return", "completed"},
                        NEW k \in 1..Reached(jobs[i])
                 PROVE  inApp'[jobs[i].to[k]] > 0 \/ jobs[i].to[k] \in missed'
      BY <2>1 DEF Told
    <3>1. inApp[jobs[i].to[k]] > 0 \/ jobs[i].to[k] \in missed
      BY <2>1 DEF Told
    <3>2. jobs[i].to[k] \in Users
      BY <2>1, <2>2, <2>3, ReachedWithin
    <3> QED BY <3>1, <3>2
<1> QED BY <1>1, <1>2

\* The current run of a broadcast has nobody more behind it, or one whom it has
\* just told or has logged an error for.
LEMMA ToldOn ==
    ASSUME QueueInv, NEW j, Moved(j), missed \subseteq missed',
           \A u \in Users : inApp[u] > 0 => inApp'[u] > 0,
           jobs[j].at \in {"row", "queue", "return", "completed"},
           \/ Reached(jobs'[j]) = Reached(jobs[j])
           \/ /\ Reached(jobs'[j]) = Reached(jobs[j]) + 1
              /\ \/ inApp'[jobs[j].to[Reached(jobs'[j])]] > 0
                 \/ jobs[j].to[Reached(jobs'[j])] \in missed'
    PROVE  Told(jobs'[j], inApp', missed')
<1>1. /\ Told(jobs[j], inApp, missed) /\ jobs[j] \in JobRecord /\ JobSound(j, jobs[j])
      /\ jobs'[j].kind = jobs[j].kind /\ jobs'[j].to = jobs[j].to /\ j \in DOMAIN jobs
  BY JobTyped DEF Moved, QueueInv, JobsTold
<1>2. Reached(jobs[j]) \in Int
  BY <1>1, Measures
<1> SUFFICES ASSUME jobs[j].kind = "broadcast", NEW k \in 1..Reached(jobs'[j])
             PROVE  inApp'[jobs[j].to[k]] > 0 \/ jobs[j].to[k] \in missed'
  BY <1>1 DEF Told
<1>3. CASE k \in 1..Reached(jobs[j])
  <2>1. inApp[jobs[j].to[k]] > 0 \/ jobs[j].to[k] \in missed
    BY <1>1, <1>3 DEF Told
  <2>2. jobs[j].to[k] \in Users
    BY <1>1, <1>3, ReachedWithin
  <2> QED BY <2>1, <2>2
<1>4. CASE k \notin 1..Reached(jobs[j])
  <2>1. Reached(jobs'[j]) = Reached(jobs[j]) + 1
    BY <1>4
  <2>2. k = Reached(jobs'[j])
    BY <1>2, <1>4, <2>1
  <2> QED BY <1>2, <2>1, <2>2
<1> QED BY <1>3, <1>4

\* A job that runs goes on or stops running, or one that does not run is not started.
LEMMA RunningQuiet ==
    ASSUME QueueInv, NEW j, Moved(j),
           \/ jobs[j].at \in Calls \cup {"return"}
           \/ jobs'[j].at \notin Calls \cup {"return"}
    PROVE  Cardinality(RunningIn(jobs')) <= Concurrency
<1>1. jobs \in Seq(JobRecord) /\ JobsSound /\ jobs' \in Seq(JobRecord) /\ j \in DOMAIN jobs
  BY DEF QueueInv, JobsSound, Moved
<1>2. /\ IsFiniteSet(RunningIn(jobs)) /\ Cardinality(RunningIn(jobs)) \in Nat
      /\ IsFiniteSet(RunningIn(jobs')) /\ Cardinality(RunningIn(jobs')) \in Nat
      /\ RunningIn(jobs) \ {j} = RunningIn(jobs') \ {j}
  BY <1>1, RunningFinite, RunningJoining
<1>3. j \in RunningIn(jobs) \/ j \notin RunningIn(jobs')
  BY <1>1 DEF RunningIn
<1>4. RunningIn(jobs') \in SUBSET RunningIn(jobs)
  BY <1>2, <1>3
<1>5. Cardinality(RunningIn(jobs')) <= Cardinality(RunningIn(jobs))
  BY <1>2, <1>4, FS_Subset
<1> QED BY <1>2, <1>5, Numbers DEF QueueInv

\* A running handler has taken the place of a free one.
LEMMA RunningTaken ==
    ASSUME QueueInv, NEW j, Moved(j), Cardinality(RunningIn(jobs)) < Concurrency
    PROVE  Cardinality(RunningIn(jobs')) <= Concurrency
<1>1. jobs \in Seq(JobRecord) /\ JobsSound /\ jobs' \in Seq(JobRecord)
  BY DEF QueueInv, JobsSound, Moved
<1>2. /\ IsFiniteSet(RunningIn(jobs)) /\ Cardinality(RunningIn(jobs)) \in Nat
      /\ IsFiniteSet(RunningIn(jobs')) /\ Cardinality(RunningIn(jobs')) \in Nat
      /\ RunningIn(jobs) \ {j} = RunningIn(jobs') \ {j}
  BY <1>1, RunningFinite, RunningJoining
<1>3. \/ Cardinality(RunningIn(jobs')) = Cardinality(RunningIn(jobs))
      \/ Cardinality(RunningIn(jobs')) = Cardinality(RunningIn(jobs)) + 1
      \/ Cardinality(RunningIn(jobs)) = Cardinality(RunningIn(jobs')) + 1
  BY <1>2, OneApart
<1> QED BY <1>2, <1>3, Numbers

LEMMA RunningSame == Running = RunningIn(jobs)
BY DEF Running, RunningIn, Calls

-----------------------------------------------------------------------------
(* Each step keeps the invariant.                                          *)

LEMMA TakeKeeps ==
    ASSUME QueueInv, NEW j \in DOMAIN jobs, Take(j) PROVE QueueInv'
<1>1. /\ JobsSound /\ UNCHANGED <<inApp, emails, missed, mails, troubles>>
      /\ Cardinality(RunningIn(jobs)) < Concurrency
  BY RunningSame DEF QueueInv, Take
<1>2. /\ Moved(j) /\ JobSound(j, jobs'[j]) /\ Advances(jobs[j], jobs'[j])
      /\ jobs[j].at = "waiting" /\ jobs'[j].at \in {"user", "return", "row"}
      /\ jobs'[j].kind = "broadcast" => Reached(jobs'[j]) = 0
  BY <1>1, TakeJob
<1>3. Tables' /\ JobsSound' /\ troubles' \in Nat /\ troubles' >= troubles
  BY <1>1, <1>2, SoundMoved, Numbers DEF QueueInv, Tables
<1>4. Told(jobs'[j], inApp', missed')
  BY <1>2 DEF Told
<1>5. JobsTold'
  BY <1>1, <1>2, <1>4, ToldQuiet
<1>6. Cardinality(RunningIn(jobs')) <= Concurrency
  BY <1>1, <1>2, RunningTaken
<1>7. RowsCounted' /\ SentCounted' /\ MailsCounted' /\ TellingsCounted'
  BY <1>1, <1>2, <1>3, RowsQuiet, MailsQuiet, TellingsQuiet
<1> QED BY <1>3, <1>5, <1>6, <1>7 DEF QueueInv

LEMMA CompleteKeeps ==
    ASSUME QueueInv, NEW j \in DOMAIN jobs, Complete(j) PROVE QueueInv'
<1>1. JobsSound /\ UNCHANGED <<inApp, emails, missed, mails, troubles>>
  BY DEF QueueInv, Complete
<1>2. /\ Moved(j) /\ JobSound(j, jobs'[j]) /\ Advances(jobs[j], jobs'[j])
      /\ jobs[j].at = "return" /\ jobs'[j].at = "completed"
      /\ jobs'[j].kind = "broadcast" => Reached(jobs'[j]) = Reached(jobs[j])
  BY <1>1, CompleteJob
<1>3. Tables' /\ JobsSound' /\ troubles' \in Nat /\ troubles' >= troubles
  BY <1>1, <1>2, SoundMoved, Numbers DEF QueueInv, Tables
<1>4. Told(jobs'[j], inApp', missed')
  <2>1. CASE jobs'[j].kind = "broadcast"
    BY <1>1, <1>2, <2>1, ToldOn
  <2>2. CASE jobs'[j].kind # "broadcast"
    BY <2>2 DEF Told
  <2> QED BY <2>1, <2>2
<1>5. JobsTold'
  BY <1>1, <1>2, <1>4, ToldQuiet
<1>6. Cardinality(RunningIn(jobs')) <= Concurrency
  BY <1>2, RunningQuiet
<1>7. RowsCounted' /\ SentCounted' /\ MailsCounted' /\ TellingsCounted'
  BY <1>1, <1>2, <1>3, RowsQuiet, MailsQuiet, TellingsQuiet
<1> QED BY <1>3, <1>5, <1>6, <1>7 DEF QueueInv

LEMMA StalledKeeps ==
    ASSUME QueueInv, NEW j \in DOMAIN jobs, Stalled(j) PROVE QueueInv'
<1>1. JobsSound /\ UNCHANGED <<inApp, emails, missed, mails, troubles>>
  BY DEF QueueInv, Stalled
<1>2. /\ Moved(j) /\ JobSound(j, jobs'[j]) /\ Advances(jobs[j], jobs'[j])
      /\ jobs[j].at = "lost" /\ jobs'[j].at \in {"waiting", "failed"}
  BY <1>1, StalledJob
<1>3. Tables' /\ JobsSound' /\ troubles' \in Nat /\ troubles' >= troubles
  BY <1>1, <1>2, SoundMoved, Numbers DEF QueueInv, Tables
<1>4. Told(jobs'[j], inApp', missed')
  BY <1>2 DEF Told
<1>5. JobsTold'
  BY <1>1, <1>2, <1>4, ToldQuiet
<1>6. Cardinality(RunningIn(jobs')) <= Concurrency
  <2>1. jobs'[j].at \notin Calls \cup {"return"}
    BY <1>2 DEF Calls, BroadcastCalls, EmailCalls
  <2> QED BY <1>2, <2>1, RunningQuiet
<1>7. RowsCounted' /\ SentCounted' /\ MailsCounted' /\ TellingsCounted'
  BY <1>1, <1>2, <1>3, RowsQuiet, MailsQuiet, TellingsQuiet
<1> QED BY <1>3, <1>5, <1>6, <1>7 DEF QueueInv

LEMMA QueueEmailKeeps ==
    ASSUME QueueInv, NEW j \in DOMAIN jobs, QueueEmail(j) PROVE QueueInv'
<1>1. JobsSound /\ UNCHANGED <<inApp, emails, missed, mails, troubles>>
  BY DEF QueueInv, QueueEmail
<1>2. /\ Moved(j) /\ JobSound(j, jobs'[j]) /\ Advances(jobs[j], jobs'[j])
      /\ jobs[j].at = "queue" /\ jobs'[j].at \in {"row", "return"}
      /\ Reached(jobs'[j]) = Reached(jobs[j])
  BY <1>1, QueueEmailJob
<1>3. Tables' /\ JobsSound' /\ troubles' \in Nat /\ troubles' >= troubles
  BY <1>1, <1>2, SoundMoved, Numbers DEF QueueInv, Tables
<1>4. Told(jobs'[j], inApp', missed')
  BY <1>1, <1>2, ToldOn
<1>5. JobsTold'
  BY <1>1, <1>2, <1>4, ToldQuiet
<1>6. Cardinality(RunningIn(jobs')) <= Concurrency
  <2>1. jobs[j].at \in Calls
    BY <1>2 DEF Calls, BroadcastCalls
  <2> QED BY <1>2, <2>1, RunningQuiet
<1>7. RowsCounted' /\ SentCounted' /\ MailsCounted' /\ TellingsCounted'
  BY <1>1, <1>2, <1>3, RowsQuiet, MailsQuiet, TellingsQuiet
<1> QED BY <1>3, <1>5, <1>6, <1>7 DEF QueueInv

LEMMA SkipRecipientKeeps ==
    ASSUME QueueInv, NEW j \in DOMAIN jobs, SkipRecipient(j) PROVE QueueInv'
<1>1. /\ JobsSound /\ UNCHANGED <<inApp, emails, mails>> /\ troubles' = troubles + 1
      /\ troubles < MaxTroubles /\ missed' = missed \cup {Recipient(j)} /\ troubles \in Nat
  BY Numbers DEF QueueInv, SkipRecipient, Failure, Tables
<1>2. /\ Moved(j) /\ JobSound(j, jobs'[j]) /\ Advances(jobs[j], jobs'[j])
      /\ jobs[j].at \in {"row", "queue"} /\ jobs'[j].at \in {"row", "return"}
      /\ Recipient(j) \in Users
      /\ Reached(jobs'[j]) \in {Reached(jobs[j]), Reached(jobs[j]) + 1}
      /\ Recipient(j) = jobs[j].to[Reached(jobs'[j])]
  BY <1>1, SkipRecipientJob
<1>3. Tables' /\ JobsSound' /\ troubles' \in Nat /\ troubles' >= troubles
  <2>1. troubles' \in 0..MaxTroubles /\ troubles' \in Nat /\ troubles' >= troubles
    BY <1>1, Numbers
  <2> QED BY <1>1, <1>2, <2>1, SoundMoved DEF QueueInv, Tables
<1>4. Told(jobs'[j], inApp', missed')
  BY <1>1, <1>2, ToldOn
<1>5. JobsTold'
  BY <1>1, <1>2, <1>4, ToldQuiet
<1>6. Cardinality(RunningIn(jobs')) <= Concurrency
  <2>1. jobs[j].at \in Calls
    BY <1>2 DEF Calls, BroadcastCalls
  <2> QED BY <1>2, <2>1, RunningQuiet
<1>7. RowsCounted' /\ SentCounted' /\ MailsCounted' /\ TellingsCounted'
  BY <1>1, <1>2, <1>3, RowsQuiet, MailsQuiet, TellingsQuiet
<1> QED BY <1>3, <1>5, <1>6, <1>7 DEF QueueInv

LEMMA FindUserKeeps ==
    ASSUME QueueInv, NEW j \in DOMAIN jobs, FindUser(j) PROVE QueueInv'
<1>1. JobsSound /\ UNCHANGED <<inApp, emails, missed, mails, troubles>>
  BY DEF QueueInv, FindUser
<1>2. /\ Moved(j) /\ JobSound(j, jobs'[j]) /\ Advances(jobs[j], jobs'[j])
      /\ jobs[j].at = "user" /\ jobs'[j].at \in {"insert", "return"}
      /\ jobs[j].kind = "send-email"
  BY <1>1, FindUserJob
<1>3. Tables' /\ JobsSound' /\ troubles' \in Nat /\ troubles' >= troubles
  BY <1>1, <1>2, SoundMoved, Numbers DEF QueueInv, Tables
<1>4. Told(jobs'[j], inApp', missed')
  BY <1>2 DEF Told, Moved
<1>5. JobsTold'
  BY <1>1, <1>2, <1>4, ToldQuiet
<1>6. Cardinality(RunningIn(jobs')) <= Concurrency
  <2>1. jobs[j].at \in Calls
    BY <1>2 DEF Calls, EmailCalls
  <2> QED BY <1>2, <2>1, RunningQuiet
<1>7. RowsCounted' /\ SentCounted' /\ MailsCounted' /\ TellingsCounted'
  BY <1>1, <1>2, <1>3, RowsQuiet, MailsQuiet, TellingsQuiet
<1> QED BY <1>3, <1>5, <1>6, <1>7 DEF QueueInv

\* A step that has told a recipient: one more place and run of the broadcast.
LEMMA TellingAdded ==
    ASSUME QueueInv, NEW j \in DOMAIN jobs, TellInApp(j)
    PROVE  TellingsCounted'
<1>1. /\ JobsSound /\ Moved(j) /\ Advances(jobs[j], jobs'[j])
      /\ jobs[j].kind = "broadcast" /\ Recipient(j) \in Users
      /\ jobs'[j].stalls = jobs[j].stalls /\ jobs[j].stalls <= MaxStalls
      /\ Reached(jobs'[j]) = Reached(jobs[j]) + 1
      /\ Reached(jobs'[j]) \in 1..Len(jobs[j].to)
      /\ Recipient(j) = jobs[j].to[Reached(jobs'[j])]
      /\ inApp' = [inApp EXCEPT ![Recipient(j)] = @ + 1]
  BY TellInAppJob DEF QueueInv, TellInApp
<1>2. j = 1 /\ jobs # <<>> /\ jobs' # <<>>
  <2>1. JobSound(j, jobs[j])
    BY <1>1, JobTyped
  <2>2. jobs' \in Seq(JobRecord) /\ j \in DOMAIN jobs'
    BY <1>1 DEF Moved
  <2> QED BY <1>1, <2>1, <2>2 DEF JobSound
<1>3. /\ jobs[1] \in JobRecord /\ jobs'[1] \in JobRecord /\ jobs'[1].to = jobs[1].to
      /\ Reached(jobs[1]) \in Int /\ jobs[1].stalls \in Nat
      /\ jobs[1].to \in Seq(Users) /\ DOMAIN jobs[1].to = 1..Len(jobs[1].to)
  <2>1. jobs[1] \in JobRecord /\ jobs'[1] \in JobRecord /\ jobs'[1].to = jobs[1].to
    BY <1>1, <1>2 DEF Moved, JobsSound
  <2> QED BY <2>1, Measures, LenProperties
<1> SUFFICES ASSUME NEW u \in Users PROVE inApp'[u] <= Cardinality(TellingsOf(jobs'[1], u))
  BY <1>2 DEF TellingsCounted, TellingsIn
<1> DEFINE S == TellingsOf(jobs[1], u)
           T == TellingsOf(jobs'[1], u)
<1>4. S \in SUBSET T /\ IsFiniteSet(S) /\ IsFiniteSet(T)
  BY <1>1, <1>2, <1>3, TellingsGrow, TellingsFinite
<1>5. inApp[u] \in Nat /\ inApp[u] <= Cardinality(S)
  BY <1>2, Naturals DEF QueueInv, TellingsCounted, TellingsIn
<1>6. CASE u # Recipient(j)
  <2>1. inApp'[u] = inApp[u]
    BY <1>1, <1>6 DEF QueueInv, Tables
  <2> HIDE DEF S, T
  <2>2. Cardinality(S) <= Cardinality(T) /\ Cardinality(S) \in Nat /\ Cardinality(T) \in Nat
    BY <1>4, FS_Subset, FS_CardinalityType
  <2> QED BY <1>5, <2>1, <2>2 DEF T
<1>7. CASE u = Recipient(j)
  <2>1. inApp'[u] = inApp[u] + 1
    BY <1>1, <1>7 DEF QueueInv, Tables
  <2> DEFINE n == Reached(jobs'[1])
             p == <<n, jobs[1].stalls>>
  <2>2. p \in T
    <3>1. n \in PlacesOf(jobs'[1], u)
      BY <1>1, <1>2, <1>3, <1>7 DEF PlacesOf
    <3>2. jobs[1].stalls \in 0..MaxStalls
      BY <1>1, <1>2, <1>3, Numbers
    <3>3. n <= n
      BY <1>1, <1>2, <1>3
    <3> QED BY <1>1, <1>2, <3>1, <3>2, <3>3 DEF TellingsOf
  <2>3. p \notin S
    <3>1. ~(n <= Reached(jobs[1])) /\ ~(jobs[1].stalls < jobs[1].stalls)
      BY <1>1, <1>2, <1>3
    <3> QED BY <3>1 DEF TellingsOf
  <2> HIDE DEF S, T, p
  <2>4. S \cup {p} \in SUBSET T
    BY <1>4, <2>2
  <2>5. /\ IsFiniteSet(S \cup {p}) /\ Cardinality(S \cup {p}) = Cardinality(S) + 1
        /\ Cardinality(S) \in Nat /\ Cardinality(T) \in Nat
    BY <1>4, <2>3, FS_AddElement, FS_CardinalityType
  <2>6. Cardinality(S \cup {p}) <= Cardinality(T)
    BY <1>4, <2>4, FS_Subset
  <2>7. inApp'[u] <= Cardinality(T)
    BY <1>5, <2>1, <2>5, <2>6
  <2> QED BY <2>7 DEF T
<1> QED BY <1>6, <1>7

LEMMA TellInAppKeeps ==
    ASSUME QueueInv, NEW j \in DOMAIN jobs, TellInApp(j) PROVE QueueInv'
<1>1. /\ JobsSound /\ UNCHANGED <<emails, missed, mails, troubles>>
      /\ inApp' = [inApp EXCEPT ![Recipient(j)] = @ + 1]
  BY DEF QueueInv, TellInApp
<1>2. /\ Moved(j) /\ JobSound(j, jobs'[j]) /\ Advances(jobs[j], jobs'[j])
      /\ jobs[j].at = "row" /\ jobs'[j].at \in {"row", "queue", "return"}
      /\ Recipient(j) \in Users
      /\ Reached(jobs'[j]) = Reached(jobs[j]) + 1
      /\ Recipient(j) = jobs[j].to[Reached(jobs'[j])]
  BY <1>1, TellInAppJob
<1>i. /\ inApp' \in [Users -> Nat] /\ inApp'[Recipient(j)] > 0
      /\ \A u \in Users : inApp[u] > 0 => inApp'[u] > 0
  <2>1. inApp \in [Users -> Nat]
    BY DEF QueueInv, Tables
  <2>2. inApp'[Recipient(j)] = inApp[Recipient(j)] + 1 /\ inApp[Recipient(j)] \in Nat
    BY <1>1, <1>2, <2>1
  <2>3. \A u \in Users : u # Recipient(j) => inApp'[u] = inApp[u]
    BY <1>1, <2>1
  <2>4. inApp'[Recipient(j)] > 0
    BY <2>2
  <2>5. \A u \in Users : inApp[u] > 0 => inApp'[u] > 0
    BY <2>3, <2>4
  <2>6. inApp' \in [Users -> Nat]
    BY <1>1, <2>1, <2>2
  <2> QED BY <2>4, <2>5, <2>6
<1>3. Tables' /\ JobsSound' /\ troubles' \in Nat /\ troubles' >= troubles
  BY <1>1, <1>2, <1>i, SoundMoved, Numbers DEF QueueInv, Tables
<1>4. Told(jobs'[j], inApp', missed')
  BY <1>1, <1>2, <1>i, ToldOn
<1>5. JobsTold'
  BY <1>1, <1>2, <1>4, <1>i, ToldQuiet
<1>6. Cardinality(RunningIn(jobs')) <= Concurrency
  <2>1. jobs[j].at \in Calls
    BY <1>2 DEF Calls, BroadcastCalls
  <2> QED BY <1>2, <2>1, RunningQuiet
<1>7. RowsCounted' /\ SentCounted' /\ MailsCounted' /\ TellingsCounted'
  BY <1>1, <1>2, <1>3, RowsQuiet, MailsQuiet, TellingAdded
<1> QED BY <1>3, <1>5, <1>6, <1>7 DEF QueueInv

LEMMA InsertEmailKeeps ==
    ASSUME QueueInv, NEW j \in DOMAIN jobs, InsertEmail(j) PROVE QueueInv'
<1>1. /\ JobsSound /\ UNCHANGED <<inApp, missed, mails, troubles>>
      /\ emails' = [emails EXCEPT ![Recipient(j)].pending = @ + 1]
      /\ emails \in [Users -> [pending: Nat, sent: Nat, failed: Nat]]
  BY DEF QueueInv, InsertEmail, Tables
<1>2. /\ Moved(j) /\ JobSound(j, jobs'[j]) /\ Advances(jobs[j], jobs'[j])
      /\ jobs[j].at = "insert" /\ jobs'[j].at = "mail"
      /\ jobs'[j].left = jobs[j].left /\ Recipient(j) \in Users
  BY <1>1, InsertEmailJob
<1>e. /\ emails' \in [Users -> [pending: Nat, sent: Nat, failed: Nat]]
      /\ \A u \in Users \ {Recipient(j)} : emails'[u] = emails[u]
      /\ emails'[Recipient(j)].pending = emails[Recipient(j)].pending + 1
      /\ emails'[Recipient(j)].sent = emails[Recipient(j)].sent
  BY <1>1, <1>2
<1>3. Tables' /\ JobsSound' /\ troubles' \in Nat /\ troubles' >= troubles
  BY <1>1, <1>2, <1>e, SoundMoved, Numbers DEF QueueInv, Tables
<1>4. Told(jobs'[j], inApp', missed')
  BY <1>2 DEF Told
<1>5. JobsTold'
  BY <1>1, <1>2, <1>4, ToldQuiet
<1>6. Cardinality(RunningIn(jobs')) <= Concurrency
  <2>1. jobs[j].at \in Calls
    BY <1>2 DEF Calls, EmailCalls
  <2> QED BY <1>2, <2>1, RunningQuiet
<1>7. RowsCounted'
  <2> SUFFICES ASSUME NEW u \in Users
               PROVE  /\ Cardinality(SaversIn(jobs', u)) <= emails'[u].pending
                      /\ emails'[u].pending <= Cardinality(SaversIn(jobs', u)) + troubles'
    BY DEF RowsCounted
  <2>1. /\ Cardinality(SaversIn(jobs, u)) <= emails[u].pending
        /\ emails[u].pending <= Cardinality(SaversIn(jobs, u)) + troubles
    BY DEF QueueInv, RowsCounted
  <2>2. /\ Cardinality(SaversIn(jobs, u)) \in Nat /\ emails[u].pending \in Nat
        /\ troubles \in Nat /\ troubles' = troubles
    BY <1>1, Naturals
  <2>3. j \notin SaversIn(jobs, u) /\ (j \in SaversIn(jobs', u) <=> u = Recipient(j))
    BY <1>2 DEF SaversIn, Recipient, Moved
  <2>4. CASE u = Recipient(j)
    <3>1. Cardinality(SaversIn(jobs', u)) = Cardinality(SaversIn(jobs, u)) + 1
      BY <1>2, <2>3, <2>4, Counts
    <3>2. emails'[u].pending = emails[u].pending + 1
      BY <1>e, <2>4
    <3> QED BY <2>1, <2>2, <3>1, <3>2
  <2>5. CASE u # Recipient(j)
    <3>1. Cardinality(SaversIn(jobs', u)) = Cardinality(SaversIn(jobs, u))
      BY <1>2, <2>3, <2>5, Counts
    <3> QED BY <1>e, <2>1, <2>2, <2>5, <3>1
  <2> QED BY <2>4, <2>5
<1>8. SentCounted'
  <2> SUFFICES ASSUME Mailer, NEW u \in Users
               PROVE  emails'[u].sent + Cardinality(SentIn(jobs', u)) <= mails[u]
    BY <1>1 DEF SentCounted
  <2>1. j \notin SentIn(jobs, u) /\ j \notin SentIn(jobs', u)
    BY <1>2 DEF SentIn
  <2>2. Cardinality(SentIn(jobs', u)) = Cardinality(SentIn(jobs, u))
    BY <1>2, <2>1, Counts
  <2>3. emails'[u].sent = emails[u].sent
    BY <1>e
  <2> QED BY <2>2, <2>3 DEF QueueInv, SentCounted
<1>9. MailsCounted' /\ TellingsCounted'
  BY <1>1, <1>2, <1>3, MailsQuiet, TellingsQuiet
<1> QED BY <1>3, <1>5, <1>6, <1>7, <1>8, <1>9 DEF QueueInv

\* A step that may have sent a message: one more run of a job of its recipient.
LEMMA SendingAdded ==
    ASSUME QueueInv, NEW j \in DOMAIN jobs, SendMail(j)
    PROVE  MailsCounted'
<1>1. JobsSound /\ UNCHANGED <<inApp, emails, missed, troubles>> /\ mails \in [Users -> Nat]
  BY DEF QueueInv, SendMail, Tables
<1>2. /\ Moved(j) /\ Advances(jobs[j], jobs'[j])
      /\ jobs[j].at = "mail" /\ jobs'[j].at = "save" /\ Recipient(j) \in Users
      /\ jobs[j].kind = "send-email" /\ jobs[j].to = <<Recipient(j)>>
      /\ jobs[j].made < Attempts /\ jobs[j].stalls <= MaxStalls
      /\ jobs'[j].made = jobs[j].made /\ jobs'[j].stalls = jobs[j].stalls
      /\ \/ mails' = [mails EXCEPT ![Recipient(j)] = @ + 1]
         \/ mails' = mails
  BY <1>1, SendMailJob
<1>3. jobs[j] \in JobRecord /\ jobs[j].made \in Nat /\ jobs[j].stalls \in Nat
  BY <1>1, JobTyped, Measures
<1> DEFINE n == jobs[j].made + jobs[j].stalls
<1>4. /\ n \in 0..(Attempts + MaxStalls - 1) /\ RunsOf(jobs[j]) = n /\ RunsOf(jobs'[j]) = n + 1
      /\ n \in Nat
  BY <1>2, <1>3, Numbers DEF RunsOf
<1> SUFFICES ASSUME NEW u \in Users
             PROVE  /\ mails'[u] <= Cardinality(MailedIn(jobs', u)) + troubles'
                    /\ mails'[u] <= Cardinality(SendingsIn(jobs', u))
  BY DEF MailsCounted
<1>5. /\ mails[u] <= Cardinality(MailedIn(jobs, u)) + troubles
      /\ mails[u] <= Cardinality(SendingsIn(jobs, u))
  BY DEF QueueInv, MailsCounted
<1>6. /\ mails[u] \in Nat /\ troubles \in Nat /\ troubles' = troubles
      /\ Cardinality(MailedIn(jobs, u)) \in Nat /\ Cardinality(MailedIn(jobs', u)) \in Nat
      /\ Cardinality(SendingsIn(jobs, u)) \in Nat
  BY <1>1, <1>2, Naturals, Counts
<1>7. /\ SendingsIn(jobs, u) \in SUBSET SendingsIn(jobs', u)
      /\ IsFiniteSet(SendingsIn(jobs', u)) /\ IsFiniteSet(SendingsIn(jobs, u))
  <2>1. RunsOf(jobs'[j]) >= RunsOf(jobs[j])
    BY <1>2 DEF Advances
  <2> QED BY <1>1, <1>2, <2>1, SendingsGrow, Finite DEF Moved, JobsSound
<1>8. /\ Cardinality(SendingsIn(jobs, u)) <= Cardinality(SendingsIn(jobs', u))
      /\ Cardinality(SendingsIn(jobs', u)) \in Nat
  BY <1>7, FS_Subset, FS_CardinalityType
<1>9. j \notin MailedIn(jobs, u)
  BY <1>2 DEF MailedIn
<1>10. \/ Cardinality(MailedIn(jobs', u)) = Cardinality(MailedIn(jobs, u))
       \/ Cardinality(MailedIn(jobs', u)) = Cardinality(MailedIn(jobs, u)) + 1
  BY <1>2, <1>9, Counts
<1>11. CASE mails'[u] = mails[u]
  BY <1>5, <1>6, <1>8, <1>10, <1>11
<1>12. CASE u = Recipient(j) /\ mails'[u] = mails[u] + 1
  <2>1. j \in EmailsIn(jobs', u)
    BY <1>2, <1>12 DEF EmailsIn, Moved
  <2>2. j \in MailedIn(jobs', u)
    BY <1>2, <2>1 DEF MailedIn
  <2>3. Cardinality(MailedIn(jobs', u)) = Cardinality(MailedIn(jobs, u)) + 1
    BY <1>2, <1>9, <2>2, Counts
  <2> DEFINE p == <<j, n>>
             S == SendingsIn(jobs, u)
             T == SendingsIn(jobs', u)
  <2>4. p \in T
    <3>1. n < RunsOf(jobs'[j])
      BY <1>4
    <3> QED BY <1>4, <2>1, <3>1 DEF SendingsIn
  <2>5. p \notin S
    <3>1. ~(n < RunsOf(jobs[j]))
      BY <1>4
    <3> QED BY <3>1 DEF SendingsIn
  <2>6. S \in SUBSET T /\ IsFiniteSet(S) /\ IsFiniteSet(T)
    BY <1>7
  <2> HIDE DEF p, S, T
  <2>7. S \cup {p} \in SUBSET T
    BY <2>4, <2>6
  <2>8. /\ IsFiniteSet(S \cup {p}) /\ Cardinality(S \cup {p}) = Cardinality(S) + 1
        /\ Cardinality(S) \in Nat /\ Cardinality(T) \in Nat
    BY <2>5, <2>6, FS_AddElement, FS_CardinalityType
  <2>9. Cardinality(S \cup {p}) <= Cardinality(T)
    BY <2>6, <2>7, FS_Subset
  <2>10. mails[u] <= Cardinality(S)
    BY <1>5 DEF S
  <2>11. mails'[u] <= Cardinality(T)
    BY <1>6, <1>12, <2>8, <2>9, <2>10
  <2>12. mails'[u] <= Cardinality(MailedIn(jobs', u)) + troubles'
    BY <1>5, <1>6, <1>12, <2>3
  <2> QED BY <2>11, <2>12 DEF T
<1>13. mails'[u] = mails[u] \/ (u = Recipient(j) /\ mails'[u] = mails[u] + 1)
  BY <1>1, <1>2
<1> QED BY <1>11, <1>12, <1>13

LEMMA SendMailKeeps ==
    ASSUME QueueInv, NEW j \in DOMAIN jobs, SendMail(j) PROVE QueueInv'
<1>1. /\ JobsSound /\ UNCHANGED <<inApp, emails, missed, troubles>>
      /\ mails \in [Users -> Nat]
  BY DEF QueueInv, SendMail, Tables
<1>2. /\ Moved(j) /\ JobSound(j, jobs'[j]) /\ Advances(jobs[j], jobs'[j])
      /\ jobs[j].at = "mail" /\ jobs'[j].at = "save"
      /\ jobs'[j].left = jobs[j].left /\ Recipient(j) \in Users
      /\ \/ mails' = [mails EXCEPT ![Recipient(j)] = @ + 1]
         \/ mails' = mails /\ (Mailer => jobs'[j].status # "sent")
  BY <1>1, SendMailJob
<1>m. /\ mails' \in [Users -> Nat]
      /\ \A u \in Users \ {Recipient(j)} : mails'[u] = mails[u]
      /\ mails' = mails \/ mails'[Recipient(j)] = mails[Recipient(j)] + 1
  BY <1>1, <1>2
<1>3. Tables' /\ JobsSound' /\ troubles' \in Nat /\ troubles' >= troubles
  BY <1>1, <1>2, <1>m, SoundMoved, Numbers DEF QueueInv, Tables
<1>4. Told(jobs'[j], inApp', missed')
  BY <1>2 DEF Told
<1>5. JobsTold'
  BY <1>1, <1>2, <1>4, ToldQuiet
<1>6. Cardinality(RunningIn(jobs')) <= Concurrency
  <2>1. jobs[j].at \in Calls
    BY <1>2 DEF Calls, EmailCalls
  <2> QED BY <1>2, <2>1, RunningQuiet
<1>7. RowsCounted'
  <2> SUFFICES ASSUME NEW u \in Users
               PROVE  /\ Cardinality(SaversIn(jobs', u)) <= emails[u].pending
                      /\ emails[u].pending <= Cardinality(SaversIn(jobs', u)) + troubles
    BY <1>1 DEF RowsCounted
  <2>1. j \in SaversIn(jobs, u) <=> j \in SaversIn(jobs', u)
    BY <1>2 DEF SaversIn, Moved
  <2>2. Cardinality(SaversIn(jobs', u)) = Cardinality(SaversIn(jobs, u))
    BY <1>2, <2>1, Counts
  <2> QED BY <2>2 DEF QueueInv, RowsCounted
<1>8. SentCounted'
  <2> SUFFICES ASSUME Mailer, NEW u \in Users
               PROVE  emails[u].sent + Cardinality(SentIn(jobs', u)) <= mails'[u]
    BY <1>1 DEF SentCounted
  <2>1. j \notin SentIn(jobs, u)
    BY <1>2 DEF SentIn
  <2>2. emails[u].sent + Cardinality(SentIn(jobs, u)) <= mails[u]
    BY DEF QueueInv, SentCounted
  <2>3. /\ emails[u].sent \in Nat /\ mails[u] \in Nat /\ mails'[u] \in Nat
        /\ Cardinality(SentIn(jobs, u)) \in Nat /\ Cardinality(SentIn(jobs', u)) \in Nat
    BY <1>2, <1>m, Naturals, Counts
  <2>4. CASE j \in SentIn(jobs', u)
    <3>1. jobs'[j].status = "sent" /\ u = Recipient(j)
      BY <1>2, <2>4 DEF SentIn, Recipient
    <3>2. mails'[u] = mails[u] + 1
      BY <1>1, <1>2, <3>1
    <3>3. Cardinality(SentIn(jobs', u)) = Cardinality(SentIn(jobs, u)) + 1
      BY <1>2, <2>1, <2>4, Counts
    <3> QED BY <2>2, <2>3, <3>2, <3>3
  <2>5. CASE j \notin SentIn(jobs', u)
    <3>1. Cardinality(SentIn(jobs', u)) = Cardinality(SentIn(jobs, u))
      BY <1>2, <2>1, <2>5, Counts
    <3>2. mails'[u] >= mails[u]
      <4>1. mails'[u] = mails[u] \/ mails'[u] = mails[u] + 1
        BY <1>m
      <4> QED BY <2>3, <4>1
    <3> QED BY <2>2, <2>3, <3>1, <3>2
  <2> QED BY <2>4, <2>5
<1>9. MailsCounted' /\ TellingsCounted'
  BY <1>1, <1>2, SendingAdded, TellingsQuiet
<1> QED BY <1>3, <1>5, <1>6, <1>7, <1>8, <1>9 DEF QueueInv

\* The row for u that is saved is no longer PENDING.
LEMMA SaveEmailRow ==
    ASSUME QueueInv, NEW j \in DOMAIN jobs, SaveEmail(j)
    PROVE  /\ emails' \in [Users -> [pending: Nat, sent: Nat, failed: Nat]]
           /\ \A u \in Users \ {Recipient(j)} : emails'[u] = emails[u]
           /\ emails'[Recipient(j)].pending = emails[Recipient(j)].pending - 1
           /\ emails'[Recipient(j)].sent = emails[Recipient(j)].sent
                 + (IF jobs[j].status = "sent" THEN 1 ELSE 0)
<1> DEFINE r == Recipient(j)
           row == emails[r]
<1>1. JobsSound /\ emails \in [Users -> [pending: Nat, sent: Nat, failed: Nat]]
  BY DEF QueueInv, Tables
<1>2. /\ Moved(j) /\ jobs[j].at = "save" /\ jobs'[j].at = "return"
      /\ r \in Users /\ jobs[j].status \in {"sent", "failed"} /\ j \in DOMAIN jobs
  BY <1>1, SaveEmailJob
<1>3. row \in [pending: Nat, sent: Nat, failed: Nat] /\ row.pending - 1 \in Nat
  <2>1. j \in SaversIn(jobs, r) /\ j \notin SaversIn(jobs', r)
    BY <1>2 DEF SaversIn, Recipient
  <2>2. /\ Cardinality(SaversIn(jobs, r)) = Cardinality(SaversIn(jobs', r)) + 1
        /\ Cardinality(SaversIn(jobs', r)) \in Nat
    BY <1>2, <2>1, Counts
  <2>3. Cardinality(SaversIn(jobs, r)) <= row.pending /\ row.pending \in Nat
    BY <1>2, Naturals DEF QueueInv, RowsCounted
  <2>4. row.pending - 1 \in Nat
    BY <2>2, <2>3
  <2> QED BY <1>1, <1>2, <2>4
<1>4. emails' = [emails EXCEPT ![r].pending = @ - 1, ![r][jobs[j].status] = @ + 1]
  BY DEF SaveEmail
<1>5. CASE jobs[j].status = "sent"
  <2> DEFINE new == [row EXCEPT !.pending = row.pending - 1, !.sent = row.sent + 1]
  <2>1. emails' = [emails EXCEPT ![r] = new]
    BY <1>1, <1>2, <1>3, <1>4, <1>5
  <2>2. /\ new \in [pending: Nat, sent: Nat, failed: Nat]
        /\ new.pending = row.pending - 1 /\ new.sent = row.sent + 1
    <3> DEFINE less == row.pending - 1
               more == row.sent + 1
    <3>1. less \in Nat /\ more \in Nat /\ row.sent = row.sent + 0
      BY <1>3
    <3> HIDE DEF less, more
    <3>2. new = [row EXCEPT !.pending = less, !.sent = more]
      BY DEF less, more
    <3>3. /\ new \in [pending: Nat, sent: Nat, failed: Nat]
          /\ new.pending = less /\ new.sent = more
      BY <1>3, <3>1, <3>2
    <3> QED BY <3>1, <3>3 DEF less, more
  <2>3. (IF jobs[j].status = "sent" THEN 1 ELSE 0) = 1
    BY <1>5
  <2> HIDE DEF new
  <2>4. /\ emails' \in [Users -> [pending: Nat, sent: Nat, failed: Nat]]
        /\ emails'[r] = new
        /\ \A u \in Users \ {r} : emails'[u] = emails[u]
    BY <1>1, <1>2, <2>1, <2>2
  <2> QED BY <2>2, <2>3, <2>4
<1>6. CASE jobs[j].status = "failed"
  <2> DEFINE new == [row EXCEPT !.pending = row.pending - 1, !.failed = row.failed + 1]
  <2>1. emails' = [emails EXCEPT ![r] = new]
    BY <1>1, <1>2, <1>3, <1>4, <1>6
  <2>2. /\ new \in [pending: Nat, sent: Nat, failed: Nat]
        /\ new.pending = row.pending - 1 /\ new.sent = row.sent + 0
    <3> DEFINE less == row.pending - 1
               more == row.failed + 1
    <3>1. less \in Nat /\ more \in Nat /\ row.sent = row.sent + 0
      BY <1>3
    <3> HIDE DEF less, more
    <3>2. new = [row EXCEPT !.pending = less, !.failed = more]
      BY DEF less, more
    <3>3. /\ new \in [pending: Nat, sent: Nat, failed: Nat]
          /\ new.pending = less /\ new.sent = row.sent
      BY <1>3, <3>1, <3>2
    <3> QED BY <3>1, <3>3 DEF less, more
  <2>3. (IF jobs[j].status = "sent" THEN 1 ELSE 0) = 0
    BY <1>6
  <2> HIDE DEF new
  <2>4. /\ emails' \in [Users -> [pending: Nat, sent: Nat, failed: Nat]]
        /\ emails'[r] = new
        /\ \A u \in Users \ {r} : emails'[u] = emails[u]
    BY <1>1, <1>2, <2>1, <2>2
  <2> QED BY <2>2, <2>3, <2>4
<1> QED BY <1>2, <1>5, <1>6

LEMMA SaveEmailKeeps ==
    ASSUME QueueInv, NEW j \in DOMAIN jobs, SaveEmail(j) PROVE QueueInv'
<1>1. JobsSound /\ UNCHANGED <<inApp, missed, mails, troubles>>
  BY DEF QueueInv, SaveEmail
<1>2. /\ Moved(j) /\ JobSound(j, jobs'[j]) /\ Advances(jobs[j], jobs'[j])
      /\ jobs[j].at = "save" /\ jobs'[j].at = "return" /\ Recipient(j) \in Users
      /\ jobs[j].status \in {"sent", "failed"} /\ jobs[j].kind = "send-email"
      /\ j \in DOMAIN jobs
  BY <1>1, SaveEmailJob
<1>e. /\ emails' \in [Users -> [pending: Nat, sent: Nat, failed: Nat]]
      /\ \A u \in Users \ {Recipient(j)} : emails'[u] = emails[u]
      /\ emails'[Recipient(j)].pending = emails[Recipient(j)].pending - 1
      /\ emails'[Recipient(j)].sent = emails[Recipient(j)].sent
            + (IF jobs[j].status = "sent" THEN 1 ELSE 0)
  BY SaveEmailRow
<1>3. Tables' /\ JobsSound' /\ troubles' \in Nat /\ troubles' >= troubles
  BY <1>1, <1>2, <1>e, SoundMoved, Numbers DEF QueueInv, Tables
<1>4. Told(jobs'[j], inApp', missed')
  BY <1>2 DEF Told, Moved
<1>5. JobsTold'
  BY <1>1, <1>2, <1>4, ToldQuiet
<1>6. Cardinality(RunningIn(jobs')) <= Concurrency
  <2>1. jobs[j].at \in Calls
    BY <1>2 DEF Calls, EmailCalls
  <2> QED BY <1>2, <2>1, RunningQuiet
<1>7. RowsCounted'
  <2> SUFFICES ASSUME NEW u \in Users
               PROVE  /\ Cardinality(SaversIn(jobs', u)) <= emails'[u].pending
                      /\ emails'[u].pending <= Cardinality(SaversIn(jobs', u)) + troubles'
    BY DEF RowsCounted
  <2>1. /\ Cardinality(SaversIn(jobs, u)) <= emails[u].pending
        /\ emails[u].pending <= Cardinality(SaversIn(jobs, u)) + troubles
    BY DEF QueueInv, RowsCounted
  <2>2. /\ Cardinality(SaversIn(jobs, u)) \in Nat /\ Cardinality(SaversIn(jobs', u)) \in Nat
        /\ emails[u].pending \in Nat /\ troubles \in Nat /\ troubles' = troubles
    BY <1>1, <1>2, Naturals, Counts
  <2>3. j \notin SaversIn(jobs', u) /\ (j \in SaversIn(jobs, u) <=> u = Recipient(j))
    BY <1>2 DEF SaversIn, Recipient
  <2>4. CASE u = Recipient(j)
    <3>1. Cardinality(SaversIn(jobs, u)) = Cardinality(SaversIn(jobs', u)) + 1
      BY <1>2, <2>3, <2>4, Counts
    <3>2. emails'[u].pending = emails[u].pending - 1
      BY <1>e, <2>4
    <3> QED BY <2>1, <2>2, <3>1, <3>2
  <2>5. CASE u # Recipient(j)
    <3>1. Cardinality(SaversIn(jobs', u)) = Cardinality(SaversIn(jobs, u))
      BY <1>2, <2>3, <2>5, Counts
    <3> QED BY <1>e, <2>1, <2>2, <2>5, <3>1
  <2> QED BY <2>4, <2>5
<1>8. SentCounted'
  <2> SUFFICES ASSUME Mailer, NEW u \in Users
               PROVE  emails'[u].sent + Cardinality(SentIn(jobs', u)) <= mails[u]
    BY <1>1 DEF SentCounted
  <2>1. emails[u].sent + Cardinality(SentIn(jobs, u)) <= mails[u]
    BY DEF QueueInv, SentCounted
  <2>2. /\ emails[u].sent \in Nat /\ mails[u] \in Nat
        /\ Cardinality(SentIn(jobs, u)) \in Nat /\ Cardinality(SentIn(jobs', u)) \in Nat
    BY <1>2, Naturals, Counts
  <2>3. /\ j \notin SentIn(jobs', u)
        /\ j \in SentIn(jobs, u) <=> u = Recipient(j) /\ jobs[j].status = "sent"
    BY <1>2 DEF SentIn, Recipient
  <2>4. CASE u = Recipient(j) /\ jobs[j].status = "sent"
    <3>1. Cardinality(SentIn(jobs, u)) = Cardinality(SentIn(jobs', u)) + 1
      BY <1>2, <2>3, <2>4, Counts
    <3>2. emails'[u].sent = emails[u].sent + 1
      BY <1>e, <2>4
    <3> QED BY <2>1, <2>2, <3>1, <3>2
  <2>5. CASE ~(u = Recipient(j) /\ jobs[j].status = "sent")
    <3>1. Cardinality(SentIn(jobs', u)) = Cardinality(SentIn(jobs, u))
      BY <1>2, <2>3, <2>5, Counts
    <3>2. emails'[u].sent = emails[u].sent
      <4>1. CASE u = Recipient(j)
        BY <1>e, <2>2, <2>5, <4>1
      <4>2. CASE u # Recipient(j)
        BY <1>e, <4>2
      <4> QED BY <4>1, <4>2
    <3> QED BY <2>1, <3>1, <3>2
  <2> QED BY <2>4, <2>5
<1>9. MailsCounted' /\ TellingsCounted'
  BY <1>1, <1>2, <1>3, MailsQuiet, TellingsQuiet
<1> QED BY <1>3, <1>5, <1>6, <1>7, <1>8, <1>9 DEF QueueInv

LEMMA FailAttemptKeeps ==
    ASSUME QueueInv, NEW j \in DOMAIN jobs, FailAttempt(j) PROVE QueueInv'
<1>1. /\ JobsSound /\ UNCHANGED <<inApp, emails, missed, mails>> /\ troubles' = troubles + 1
      /\ troubles < MaxTroubles /\ troubles \in Nat
  BY Numbers DEF QueueInv, FailAttempt, Failure, Tables
<1>2. /\ Moved(j) /\ JobSound(j, jobs'[j]) /\ Advances(jobs[j], jobs'[j])
      /\ jobs[j].at \in {"user", "insert", "save"} /\ jobs'[j].at \in {"waiting", "failed"}
      /\ j \in DOMAIN jobs
  BY <1>1, FailAttemptJob
<1>3. Tables' /\ JobsSound' /\ troubles' \in Nat /\ troubles' >= troubles
  <2>1. troubles' \in 0..MaxTroubles /\ troubles' \in Nat /\ troubles' >= troubles
    BY <1>1, Numbers
  <2> QED BY <1>1, <1>2, <2>1, SoundMoved DEF QueueInv, Tables
<1>4. Told(jobs'[j], inApp', missed')
  BY <1>2 DEF Told
<1>5. JobsTold'
  BY <1>1, <1>2, <1>4, ToldQuiet
<1>6. Cardinality(RunningIn(jobs')) <= Concurrency
  <2>1. jobs[j].at \in Calls
    BY <1>2 DEF Calls, EmailCalls
  <2> QED BY <1>2, <2>1, RunningQuiet
<1>7. RowsCounted'
  <2> SUFFICES ASSUME NEW u \in Users
               PROVE  /\ Cardinality(SaversIn(jobs', u)) <= emails[u].pending
                      /\ emails[u].pending <= Cardinality(SaversIn(jobs', u)) + troubles'
    BY <1>1 DEF RowsCounted
  <2>1. /\ Cardinality(SaversIn(jobs, u)) <= emails[u].pending
        /\ emails[u].pending <= Cardinality(SaversIn(jobs, u)) + troubles
    BY DEF QueueInv, RowsCounted
  <2>2. /\ Cardinality(SaversIn(jobs, u)) \in Nat /\ Cardinality(SaversIn(jobs', u)) \in Nat
        /\ emails[u].pending \in Nat /\ troubles \in Nat
    BY <1>2, Naturals, Counts
  <2>3. j \notin SaversIn(jobs', u)
    BY <1>2 DEF SaversIn
  <2>4. \/ Cardinality(SaversIn(jobs', u)) = Cardinality(SaversIn(jobs, u))
        \/ Cardinality(SaversIn(jobs, u)) = Cardinality(SaversIn(jobs', u)) + 1
    BY <1>2, <2>3, Counts
  <2> QED BY <1>1, <2>1, <2>2, <2>4
<1>8. SentCounted'
  <2> SUFFICES ASSUME Mailer, NEW u \in Users
               PROVE  emails[u].sent + Cardinality(SentIn(jobs', u)) <= mails[u]
    BY <1>1 DEF SentCounted
  <2>1. emails[u].sent + Cardinality(SentIn(jobs, u)) <= mails[u]
    BY DEF QueueInv, SentCounted
  <2>2. /\ emails[u].sent \in Nat /\ mails[u] \in Nat
        /\ Cardinality(SentIn(jobs, u)) \in Nat /\ Cardinality(SentIn(jobs', u)) \in Nat
    BY <1>2, Naturals, Counts
  <2>3. j \notin SentIn(jobs', u)
    BY <1>2 DEF SentIn
  <2>4. \/ Cardinality(SentIn(jobs', u)) = Cardinality(SentIn(jobs, u))
        \/ Cardinality(SentIn(jobs, u)) = Cardinality(SentIn(jobs', u)) + 1
    BY <1>2, <2>3, Counts
  <2> QED BY <2>1, <2>2, <2>4
<1>9. MailsCounted' /\ TellingsCounted'
  BY <1>1, <1>2, <1>3, MailsQuiet, TellingsQuiet
<1> QED BY <1>3, <1>5, <1>6, <1>7, <1>8, <1>9 DEF QueueInv


-----------------------------------------------------------------------------
(* A crash moves every job that runs.                                      *)

LEMMA CrashJob ==
    ASSUME JobsSound, NEW j \in RunningIn(jobs), NEW new,
           new = [jobs[j] EXCEPT !.at = "lost", !.left = <<>>, !.status = "pending"]
    PROVE  /\ new \in JobRecord /\ JobSound(j, new) /\ Advances(jobs[j], new)
           /\ new.at = "lost" /\ new.kind = jobs[j].kind /\ new.to = jobs[j].to
<1> DEFINE job == jobs[j]
<1>0. j \in DOMAIN jobs
  BY DEF RunningIn
<1>1. job \in JobRecord /\ JobSound(j, job) /\ job.at \in Calls \cup {"return"}
  BY <1>0, JobTyped DEF RunningIn
<1>2. /\ new \in JobRecord /\ new.at = "lost" /\ new.kind = job.kind /\ new.to = job.to
      /\ new.left = <<>> /\ new.status = "pending"
      /\ new.made = job.made /\ new.stalls = job.stalls
  <2>1. "lost" \in Places /\ <<>> \in Seq(Users)
    BY DEF Places
  <2> QED BY <1>1, <2>1 DEF JobRecord
<1>3. /\ EndOf(<<>>, job.to) /\ Len(<<>>) = 0 /\ Len(job.to) \in Nat /\ Len(job.left) \in Nat
      /\ job.left \in Seq(Users) /\ job.made \in Nat /\ job.stalls \in Nat
  BY <1>1, Ends, Measures DEF JobRecord
<1>4. job.made < Attempts /\ job.stalls <= MaxStalls
  BY <1>1 DEF JobSound, Pending
<1>5. JobSound(j, new)
  BY <1>1, <1>2, <1>3, <1>4 DEF JobSound, Calls, BroadcastCalls, EmailCalls, Pending
<1>6. Reached(new) >= Reached(job)
  <2>n. \A a, b \in Nat : a - 0 >= a - b /\ (b >= 1 => a - 0 >= a - b + 1)
    OBVIOUS
  <2>1. Reached(new) = Len(job.to) - 0
    BY <1>2, <1>3, Reaching
  <2>2. CASE job.at = "queue"
    <3>1. job.left # <<>>
      BY <1>1, <2>2 DEF JobSound, Calls, BroadcastCalls
    <3>2. Len(job.left) >= 1
      BY <1>3, <3>1, EmptySeq
    <3>3. Reached(job) = Len(job.to) - Len(job.left) + 1
      BY <1>1, <2>2, Reaching
    <3> QED BY <1>3, <2>1, <2>n, <3>2, <3>3
  <2>3. CASE job.at # "queue"
    <3>1. Reached(job) = Len(job.to) - Len(job.left)
      BY <1>1, <2>3, Reaching
    <3> QED BY <1>3, <2>1, <2>n, <3>1
  <2> QED BY <2>2, <2>3
<1>7. RunsOf(new) >= RunsOf(job)
  <2>1. RunsOf(new) = job.made + job.stalls + 1
    BY <1>2 DEF RunsOf
  <2>2. RunsOf(job) <= job.made + job.stalls + 1
    BY <1>3 DEF RunsOf
  <2>3. RunsOf(job) \in Nat
    BY <1>1, Measures
  <2> QED BY <1>3, <2>1, <2>2, <2>3
<1>8. Advances(job, new)
  BY <1>2, <1>6, <1>7 DEF Advances
<1> QED BY <1>2, <1>5, <1>8

LEMMA CrashJobs ==
    ASSUME JobsSound, Crash
    PROVE  /\ jobs' \in Seq(JobRecord) /\ DOMAIN jobs' = DOMAIN jobs
           /\ \A j \in DOMAIN jobs \ RunningIn(jobs) : jobs'[j] = jobs[j]
           /\ \A j \in RunningIn(jobs) :
                /\ JobSound(j, jobs'[j]) /\ Advances(jobs[j], jobs'[j])
                /\ jobs'[j].at = "lost" /\ jobs'[j].kind = jobs[j].kind
                /\ jobs'[j].to = jobs[j].to
<1> DEFINE Lost(j) == [jobs[j] EXCEPT !.at = "lost", !.left = <<>>, !.status = "pending"]
           new(j) == IF j \in RunningIn(jobs) THEN Lost(j) ELSE jobs[j]
<1>1. jobs' = [j \in DOMAIN jobs |-> new(j)]
  BY RunningSame DEF Crash
<1>2. \A j \in RunningIn(jobs) :
         /\ Lost(j) \in JobRecord /\ JobSound(j, Lost(j)) /\ Advances(jobs[j], Lost(j))
         /\ Lost(j).at = "lost" /\ Lost(j).kind = jobs[j].kind /\ Lost(j).to = jobs[j].to
  BY CrashJob
<1>3. jobs \in Seq(JobRecord) /\ RunningIn(jobs) \subseteq DOMAIN jobs
  BY DEF JobsSound, RunningIn
<1>4. \A j \in DOMAIN jobs : jobs[j] \in JobRecord
  BY <1>3
<1>5. \A j \in DOMAIN jobs : new(j) \in JobRecord
  BY <1>2, <1>4
<1>6. /\ \A j \in RunningIn(jobs) : new(j) = Lost(j)
      /\ \A j \in DOMAIN jobs \ RunningIn(jobs) : new(j) = jobs[j]
  OBVIOUS
<1>7. DOMAIN jobs = 1..Len(jobs) /\ Len(jobs) \in Nat
  BY <1>3, LenProperties
<1> HIDE DEF new, Lost
<1>8. DOMAIN jobs' = DOMAIN jobs /\ \A j \in DOMAIN jobs : jobs'[j] = new(j)
  BY <1>1
<1>9. jobs' \in [1..Len(jobs) -> JobRecord]
  BY <1>1, <1>5, <1>7
<1>10. jobs' \in Seq(JobRecord)
  BY <1>7, <1>9, SeqDef
<1> QED BY <1>2, <1>3, <1>6, <1>8, <1>10

\* The counts after a crash.
LEMMA CrashCounts ==
    ASSUME QueueInv, Crash
    PROVE  RowsCounted' /\ SentCounted' /\ MailsCounted' /\ TellingsCounted'
<1> DEFINE R == RunningIn(jobs)
<1>1. /\ JobsSound /\ UNCHANGED <<inApp, emails, missed, mails>>
      /\ troubles' = troubles + Cardinality(R) /\ jobs \in Seq(JobRecord)
  BY RunningSame DEF QueueInv, Crash, JobsSound
<1>2. /\ jobs' \in Seq(JobRecord) /\ DOMAIN jobs' = DOMAIN jobs
      /\ \A j \in DOMAIN jobs \ R : jobs'[j] = jobs[j]
      /\ \A j \in R : /\ Advances(jobs[j], jobs'[j]) /\ jobs'[j].at = "lost"
                      /\ jobs'[j].kind = jobs[j].kind /\ jobs'[j].to = jobs[j].to
  BY <1>1, CrashJobs
<1>3. IsFiniteSet(R) /\ Cardinality(R) \in Nat /\ R \subseteq DOMAIN jobs
  BY <1>1, RunningFinite DEF RunningIn
<1>4. ASSUME NEW u \in Users
      PROVE  /\ SaversIn(jobs, u) \in SUBSET R
             /\ SaversIn(jobs', u) = {} /\ SentIn(jobs', u) = {}
             /\ MailedIn(jobs, u) \in SUBSET (MailedIn(jobs', u) \cup R)
             /\ EmailsIn(jobs', u) = EmailsIn(jobs, u)
  <2>1. SaversIn(jobs, u) \in SUBSET R
    BY DEF SaversIn, RunningIn, Calls, EmailCalls
  <2>2. \A j \in DOMAIN jobs' : jobs'[j].at \notin {"mail", "save"}
    BY <1>2 DEF RunningIn, Calls, EmailCalls
  <2>3. SaversIn(jobs', u) = {} /\ SentIn(jobs', u) = {}
    BY <2>2 DEF SaversIn, SentIn
  <2>4. EmailsIn(jobs', u) = EmailsIn(jobs, u)
    BY <1>2 DEF EmailsIn
  <2>5. MailedIn(jobs, u) \in SUBSET (MailedIn(jobs', u) \cup R)
    BY <1>2, <2>4 DEF MailedIn, EmailsIn
  <2> QED BY <2>1, <2>3, <2>4, <2>5
<1>5. RowsCounted'
  <2> SUFFICES ASSUME NEW u \in Users
               PROVE  /\ Cardinality(SaversIn(jobs', u)) <= emails[u].pending
                      /\ emails[u].pending <= Cardinality(SaversIn(jobs', u)) + troubles'
    BY <1>1 DEF RowsCounted
  <2>1. emails[u].pending <= Cardinality(SaversIn(jobs, u)) + troubles
    BY DEF QueueInv, RowsCounted
  <2>2. Cardinality(SaversIn(jobs, u)) <= Cardinality(R)
    BY <1>3, <1>4, FS_Subset
  <2>3. /\ Cardinality(SaversIn(jobs, u)) \in Nat /\ emails[u].pending \in Nat
        /\ troubles \in Nat /\ Cardinality(SaversIn(jobs', u)) = 0
    BY <1>4, Naturals, FS_EmptySet
  <2> HIDE DEF R
  <2> QED BY <1>1, <1>3, <2>1, <2>2, <2>3
<1>6. SentCounted'
  <2> SUFFICES ASSUME Mailer, NEW u \in Users
               PROVE  emails[u].sent + Cardinality(SentIn(jobs', u)) <= mails[u]
    BY <1>1 DEF SentCounted
  <2>1. emails[u].sent + Cardinality(SentIn(jobs, u)) <= mails[u]
    BY DEF QueueInv, SentCounted
  <2>2. /\ emails[u].sent \in Nat /\ mails[u] \in Nat
        /\ Cardinality(SentIn(jobs, u)) \in Nat /\ Cardinality(SentIn(jobs', u)) = 0
    BY <1>4, Naturals, FS_EmptySet
  <2> QED BY <2>1, <2>2
<1>7. MailsCounted'
  <2> SUFFICES ASSUME NEW u \in Users
               PROVE  /\ mails[u] <= Cardinality(MailedIn(jobs', u)) + troubles'
                      /\ mails[u] <= Cardinality(SendingsIn(jobs', u))
    BY <1>1 DEF MailsCounted
  <2>1. /\ mails[u] <= Cardinality(MailedIn(jobs, u)) + troubles
        /\ mails[u] <= Cardinality(SendingsIn(jobs, u))
    BY DEF QueueInv, MailsCounted
  <2>2. /\ mails[u] \in Nat /\ troubles \in Nat
        /\ Cardinality(MailedIn(jobs, u)) \in Nat /\ Cardinality(SendingsIn(jobs, u)) \in Nat
    BY Naturals
  <2> DEFINE M == MailedIn(jobs', u)
             S == SendingsIn(jobs', u)
  <2>3. IsFiniteSet(M) /\ IsFiniteSet(S)
    BY <1>2, Finite
  <2>4. SendingsIn(jobs, u) \in SUBSET S
    <3>1. ASSUME NEW p \in SendingsIn(jobs, u) PROVE p \in S
      <4>1. /\ p \in EmailsIn(jobs, u) \X (0..(Attempts + MaxStalls - 1))
            /\ p[2] < RunsOf(jobs[p[1]]) /\ p[1] \in EmailsIn(jobs, u)
            /\ p[2] \in 0..(Attempts + MaxStalls - 1)
        BY <3>1 DEF SendingsIn
      <4>2. p[1] \in DOMAIN jobs /\ p[2] \in Int
        BY <4>1, Numbers DEF EmailsIn
      <4>3. jobs[p[1]] \in JobRecord /\ jobs'[p[1]] \in JobRecord
        BY <1>1, <1>2, <4>2
      <4>4. RunsOf(jobs[p[1]]) \in Nat /\ RunsOf(jobs'[p[1]]) \in Nat
        BY <4>3, Measures
      <4>5. p[2] < RunsOf(jobs'[p[1]])
        <5>1. CASE p[1] \in R
          <6>1. RunsOf(jobs'[p[1]]) >= RunsOf(jobs[p[1]])
            BY <1>2, <5>1 DEF Advances
          <6> QED BY <4>1, <4>2, <4>4, <6>1
        <5>2. CASE p[1] \notin R
          <6>1. jobs'[p[1]] = jobs[p[1]]
            BY <1>2, <4>2, <5>2
          <6> QED BY <4>1, <6>1
        <5> QED BY <5>1, <5>2
      <4>6. p \in EmailsIn(jobs', u) \X (0..(Attempts + MaxStalls - 1))
        BY <1>4, <4>1
      <4> QED BY <4>5, <4>6 DEF SendingsIn
    <3> QED BY <3>1
  <2>5. MailedIn(jobs, u) \in SUBSET (M \cup R)
    BY <1>4
  <2> HIDE DEF M, S, R
  <2>6. /\ Cardinality(SendingsIn(jobs, u)) <= Cardinality(S) /\ Cardinality(S) \in Nat
        /\ Cardinality(M) \in Nat
    BY <2>3, <2>4, FS_Subset, FS_CardinalityType
  <2>7. /\ IsFiniteSet(M \cup R)
        /\ Cardinality(M \cup R) = Cardinality(M) + Cardinality(R) - Cardinality(M \cap R)
    BY <1>3, <2>3, FS_Union
  <2>8. M \cap R \in SUBSET R
    OBVIOUS
  <2>9. Cardinality(M \cap R) \in Nat
    BY <1>3, <2>8, FS_Subset, FS_CardinalityType
  <2>10. Cardinality(MailedIn(jobs, u)) <= Cardinality(M \cup R)
    BY <2>5, <2>7, FS_Subset
  <2>11. mails[u] <= Cardinality(M) + troubles'
    BY <1>1, <1>3, <2>1, <2>2, <2>6, <2>7, <2>9, <2>10
  <2>12. mails[u] <= Cardinality(S)
    BY <2>1, <2>2, <2>6
  <2> QED BY <2>11, <2>12 DEF M, S
<1>8. TellingsCounted'
  <2> SUFFICES ASSUME NEW u \in Users PROVE inApp[u] <= Cardinality(TellingsIn(jobs', u))
    BY <1>1 DEF TellingsCounted
  <2>1. inApp[u] \in Nat /\ inApp[u] <= Cardinality(TellingsIn(jobs, u))
    BY Naturals DEF QueueInv, TellingsCounted
  <2>2. /\ jobs # <<>> /\ jobs' # <<>>
        /\ jobs[1] \in JobRecord /\ jobs'[1] \in JobRecord /\ 1 \in DOMAIN jobs
    <3>1. R # {}
      BY RunningSame DEF Crash
    <3>2. PICK j \in DOMAIN jobs : TRUE
      BY <1>3, <3>1
    <3>3. jobs # <<>> /\ 1 \in DOMAIN jobs /\ 1 \in DOMAIN jobs'
      BY <1>1, <1>2, <3>2, JobTyped
    <3>4. jobs' # <<>>
      BY <3>3
    <3>5. jobs[1] \in JobRecord /\ jobs'[1] \in JobRecord
      BY <1>1, <1>2, <3>3
    <3> QED BY <3>3, <3>4, <3>5
  <2>3. TellingsOf(jobs[1], u) \in SUBSET TellingsOf(jobs'[1], u)
    <3>1. CASE 1 \in R
      BY <1>2, <2>2, <3>1, TellingsGrow
    <3>2. CASE 1 \notin R
      BY <1>2, <2>2, <3>2
    <3> QED BY <3>1, <3>2
  <2>4. /\ IsFiniteSet(TellingsOf(jobs'[1], u)) /\ IsFiniteSet(TellingsOf(jobs[1], u))
        /\ Cardinality(TellingsOf(jobs[1], u)) <= Cardinality(TellingsOf(jobs'[1], u))
    BY <2>2, <2>3, TellingsFinite, FS_Subset
  <2>5. /\ Cardinality(TellingsOf(jobs[1], u)) \in Nat
        /\ Cardinality(TellingsOf(jobs'[1], u)) \in Nat
    BY <2>4, FS_CardinalityType
  <2>6. inApp[u] <= Cardinality(TellingsOf(jobs[1], u))
    BY <2>1, <2>2 DEF TellingsIn
  <2>7. inApp[u] <= Cardinality(TellingsOf(jobs'[1], u))
    BY <2>1, <2>4, <2>5, <2>6
  <2> QED BY <2>2, <2>7 DEF TellingsIn
<1> QED BY <1>5, <1>6, <1>7, <1>8

LEMMA CrashKeeps ==
    ASSUME QueueInv, Crash PROVE QueueInv'
<1> DEFINE R == RunningIn(jobs)
<1>1. /\ JobsSound /\ UNCHANGED <<inApp, emails, missed, mails>>
      /\ troubles' = troubles + Cardinality(R) /\ troubles + Cardinality(R) <= MaxTroubles
      /\ jobs \in Seq(JobRecord)
  BY RunningSame DEF QueueInv, Crash, JobsSound
<1>2. /\ jobs' \in Seq(JobRecord) /\ DOMAIN jobs' = DOMAIN jobs
      /\ \A j \in DOMAIN jobs \ R : jobs'[j] = jobs[j]
      /\ \A j \in R : JobSound(j, jobs'[j]) /\ jobs'[j].at = "lost"
  BY <1>1, CrashJobs
<1>3. Cardinality(R) \in Nat
  BY <1>1, RunningFinite
<1>4. Tables'
  <2>1. troubles' \in 0..MaxTroubles
    <3>1. troubles \in Nat
      BY Numbers DEF QueueInv, Tables
    <3> HIDE DEF R
    <3> QED BY <1>1, <1>3, <3>1, Numbers
  <2> QED BY <1>1, <2>1 DEF QueueInv, Tables
<1>5. JobsSound'
  BY <1>1, <1>2 DEF JobsSound
<1>6. JobsTold'
  <2> SUFFICES ASSUME NEW i \in DOMAIN jobs' PROVE Told(jobs'[i], inApp, missed)
    BY <1>1 DEF JobsTold
  <2>1. CASE i \in R
    BY <1>2, <2>1 DEF Told
  <2>2. CASE i \notin R
    BY <1>2, <2>2 DEF QueueInv, JobsTold
  <2> QED BY <2>1, <2>2
<1>7. Cardinality(RunningIn(jobs')) <= Concurrency
  <2>1. RunningIn(jobs') = {}
    BY <1>2 DEF RunningIn, Calls, BroadcastCalls, EmailCalls
  <2> QED BY <2>1, FS_EmptySet, Numbers
<1>8. RowsCounted' /\ SentCounted' /\ MailsCounted' /\ TellingsCounted'
  BY CrashCounts
<1> QED BY <1>4, <1>5, <1>6, <1>7, <1>8 DEF QueueInv


-----------------------------------------------------------------------------
(* The broadcast is sent, the beginning, and every step.                   *)

LEMMA AudienceTyped ==
    ASSUME NEW audience \in UsersForAudience PROVE audience \in Seq(Users)
<1>1. CASE audience \in Audiences
  BY <1>1, BroadcastConstants
<1>2. CASE audience \in AllUsers
  <2>1. Cardinality(Present) \in Nat
    BY BroadcastConstants, FS_CardinalityType
  <2>2. PICK n \in 0..Cardinality(Present) : audience \in [1..n -> Present]
    BY <1>2 DEF AllUsers
  <2>3. n \in Nat /\ audience \in [1..n -> Users]
    BY <2>1, <2>2, BroadcastConstants
  <2> QED BY <2>3, SeqDef
<1> QED BY <1>1, <1>2 DEF UsersForAudience

\* Without jobs, or with a broadcast only that has not begun, nothing is counted.
LEMMA NothingCounted ==
    ASSUME NEW js, NEW u,
           \A j \in DOMAIN js : js[j].kind = "broadcast" /\ js[j].at = "waiting"
    PROVE  /\ SaversIn(js, u) = {} /\ SentIn(js, u) = {} /\ RunningIn(js) = {}
           /\ EmailsIn(js, u) = {} /\ MailedIn(js, u) = {} /\ SendingsIn(js, u) = {}
<1>1. /\ SaversIn(js, u) = {} /\ SentIn(js, u) = {} /\ EmailsIn(js, u) = {}
      /\ RunningIn(js) = {}
  BY DEF SaversIn, SentIn, EmailsIn, RunningIn, Calls, BroadcastCalls, EmailCalls
<1>2. MailedIn(js, u) = {} /\ SendingsIn(js, u) = {}
  BY <1>1 DEF MailedIn, SendingsIn
<1> QED BY <1>1, <1>2

LEMMA SendBroadcastKeeps ==
    ASSUME QueueInv, NEW audience \in UsersForAudience, NEW byMail \in BOOLEAN,
           SendBroadcast(audience, byMail)
    PROVE  QueueInv'
<1> DEFINE job == Job("broadcast", audience, byMail)
<1>1. /\ jobs = <<>> /\ jobs' = <<job>> /\ UNCHANGED <<inApp, emails, missed, mails, troubles>>
  BY DEF SendBroadcast
<1>2. audience \in Seq(Users) /\ EndOf(audience, audience)
  BY AudienceTyped, Ends
<1>3. /\ job = [kind |-> "broadcast", to |-> audience, byMail |-> byMail, at |-> "waiting",
                left |-> audience, status |-> "pending", made |-> 0, stalls |-> 0]
  BY DEF Job
<1>4. job \in JobRecord
  BY <1>2, <1>3, Numbers DEF JobRecord, Places
<1>5. JobSound(1, job)
  BY <1>2, <1>3, Numbers DEF JobSound, Calls, BroadcastCalls, EmailCalls
<1>6. job.kind = "broadcast" /\ job.at = "waiting"
  BY <1>3
<1> HIDE DEF job
<1>7. /\ jobs' \in Seq(JobRecord) /\ DOMAIN jobs' = {1} /\ jobs'[1] = job /\ jobs' # <<>>
      /\ DOMAIN jobs = {}
  BY <1>1, <1>4
<1>8. Tables' /\ JobsSound'
  BY <1>1, <1>5, <1>7 DEF QueueInv, Tables, JobsSound
<1>9. JobsTold'
  BY <1>6, <1>7 DEF JobsTold, Told
<1>10. /\ \A j \in DOMAIN jobs : jobs[j].kind = "broadcast" /\ jobs[j].at = "waiting"
       /\ \A j \in DOMAIN jobs' : jobs'[j].kind = "broadcast" /\ jobs'[j].at = "waiting"
  BY <1>6, <1>7
<1>11. Cardinality(RunningIn(jobs')) <= Concurrency
  <2>1. RunningIn(jobs') = {}
    BY <1>10, NothingCounted
  <2> QED BY <2>1, FS_EmptySet, Numbers
<1>12. ASSUME NEW u \in Users
       PROVE  /\ SaversIn(jobs', u) = SaversIn(jobs, u) /\ SentIn(jobs', u) = SentIn(jobs, u)
              /\ MailedIn(jobs', u) = MailedIn(jobs, u)
              /\ SendingsIn(jobs', u) = SendingsIn(jobs, u)
  BY <1>10, NothingCounted
<1>13. RowsCounted' /\ SentCounted' /\ MailsCounted'
  BY <1>1, <1>12 DEF QueueInv, RowsCounted, SentCounted, MailsCounted
<1>14. TellingsCounted'
  <2> SUFFICES ASSUME NEW u \in Users PROVE inApp[u] <= Cardinality(TellingsOf(job, u))
    BY <1>1, <1>7 DEF TellingsCounted, TellingsIn
  <2>1. inApp[u] \in Nat /\ inApp[u] <= Cardinality(TellingsIn(jobs, u))
    BY Naturals DEF QueueInv, TellingsCounted
  <2>2. Cardinality(TellingsIn(jobs, u)) = 0
    BY <1>1, FS_EmptySet DEF TellingsIn
  <2>3. Cardinality(TellingsOf(job, u)) \in Nat
    BY <1>4, TellingsFinite, FS_CardinalityType
  <2> QED BY <2>1, <2>2, <2>3
<1> QED BY <1>8, <1>9, <1>11, <1>13, <1>14 DEF QueueInv

LEMMA InitQueue == Init => QueueInv
<1> SUFFICES ASSUME Init PROVE QueueInv
  OBVIOUS
<1>1. Tables
  BY Numbers DEF Init, Tables
<1>2. jobs = <<>> /\ jobs \in Seq(JobRecord) /\ DOMAIN jobs = {}
  BY DEF Init
<1>3. JobsSound /\ JobsTold
  BY <1>2 DEF JobsSound, JobsTold
<1>4. /\ RunningIn(jobs) = {}
      /\ \A u : /\ SaversIn(jobs, u) = {} /\ SentIn(jobs, u) = {}
                /\ MailedIn(jobs, u) = {} /\ SendingsIn(jobs, u) = {}
  BY <1>2, NothingCounted
<1>5. Cardinality(RunningIn(jobs)) <= Concurrency
  BY <1>4, FS_EmptySet, Numbers
<1>6. \A u \in Users : /\ inApp[u] = 0 /\ mails[u] = 0 /\ troubles = 0
                       /\ emails[u].pending = 0 /\ emails[u].sent = 0
  BY DEF Init
<1>7. RowsCounted
  BY <1>4, <1>6, FS_EmptySet DEF RowsCounted
<1>8. SentCounted
  BY <1>4, <1>6, FS_EmptySet DEF SentCounted
<1>9. MailsCounted
  BY <1>4, <1>6, FS_EmptySet DEF MailsCounted
<1>10. TellingsCounted
  BY <1>2, <1>6, FS_EmptySet DEF TellingsCounted, TellingsIn
<1> QED BY <1>1, <1>3, <1>5, <1>7, <1>8, <1>9, <1>10 DEF QueueInv

LEMMA StepQueue == QueueInv /\ [Next]_vars => QueueInv'
<1> SUFFICES ASSUME QueueInv, [Next]_vars PROVE QueueInv'
  OBVIOUS
<1>1. ASSUME NEW audience \in UsersForAudience, NEW byMail \in BOOLEAN,
             SendBroadcast(audience, byMail)
      PROVE  QueueInv'
  BY <1>1, SendBroadcastKeeps
<1>2. ASSUME NEW j \in DOMAIN jobs, Progress(j) PROVE QueueInv'
  BY <1>2, TakeKeeps, TellInAppKeeps, QueueEmailKeeps, FindUserKeeps, InsertEmailKeeps,
     SendMailKeeps, SaveEmailKeeps, CompleteKeeps DEF Progress
<1>3. ASSUME NEW j \in DOMAIN jobs, Stalled(j) \/ SkipRecipient(j) \/ FailAttempt(j)
      PROVE  QueueInv'
  BY <1>3, StalledKeeps, SkipRecipientKeeps, FailAttemptKeeps
<1>4. CASE Crash
  BY <1>4, CrashKeeps
<1>5. CASE UNCHANGED vars
  BY <1>5 DEF vars, QueueInv, Tables, JobsSound, JobsTold, RowsCounted, SentCounted,
              MailsCounted, TellingsCounted
<1> QED BY <1>1, <1>2, <1>3, <1>4, <1>5 DEF Next

-----------------------------------------------------------------------------
(* The theorems.                                                           *)

\* However Bull runs, loses and restarts the jobs, what is known of each job, and
\* what is counted, stays so.
THEOREM QueueHolds == Spec => []QueueInv
<1>1. Init => QueueInv
  BY InitQueue
<1>2. QueueInv /\ [Next]_vars => QueueInv'
  BY StepQueue
<1> QED BY <1>1, <1>2, PTL DEF Spec

\* The queue, the tables of notifications and the locals of the handlers have their
\* types, a handler at a call has a recipient left and, when it saves its e-mail, an
\* outcome, and no more handlers run than there are processes for.
THEOREM BroadcastsTyped == Spec => []TypeOK
<1>1. QueueInv => TypeOK
  <2> SUFFICES ASSUME QueueInv PROVE TypeOK
    OBVIOUS
  <2>1. jobs \in Seq(JobRecord) /\ \A j \in DOMAIN jobs : JobSound(j, jobs[j])
    BY DEF QueueInv, JobsSound
  <2>2. \A j \in DOMAIN jobs :
          /\ jobs[j].at \in BroadcastCalls \cup EmailCalls => jobs[j].left # <<>>
          /\ At(j, "save") => jobs[j].status # "pending"
    BY <2>1 DEF JobSound, Calls, At
  <2>3. Cardinality(Running) <= Concurrency
    BY RunningSame DEF QueueInv
  <2>4. Tables
    BY DEF QueueInv
  <2> QED BY <2>1, <2>2, <2>3, <2>4 DEF TypeOK, Tables, JobRecord
<1> QED BY <1>1, QueueHolds, PTL

\* When Bull calls a broadcast completed, everybody on its list has an in-app
\* notification or handleBroadcast has logged an error for them: no crash, restart or
\* failing call makes the loop pass over a recipient in silence.
THEOREM BroadcastTells == Spec => []DoneMeansTold
<1>1. QueueInv => DoneMeansTold
  <2> SUFFICES ASSUME QueueInv, NEW j \in DOMAIN jobs, jobs[j].kind = "broadcast",
                      At(j, "completed"), NEW i \in DOMAIN jobs[j].to
               PROVE  inApp[jobs[j].to[i]] > 0 \/ jobs[j].to[i] \in missed
    BY DEF DoneMeansTold
  <2>1. /\ jobs[j] \in JobRecord /\ JobSound(j, jobs[j]) /\ jobs[j].at = "completed"
        /\ Told(jobs[j], inApp, missed)
    BY JobTyped DEF QueueInv, JobsTold, At
  <2>2. /\ jobs[j].to \in Seq(Users) /\ Len(jobs[j].to) \in Nat /\ Len(<<>>) = 0
        /\ DOMAIN jobs[j].to = 1..Len(jobs[j].to) /\ jobs[j].left = <<>>
    BY <2>1, Measures, Ends, LenProperties DEF JobSound
  <2>3. Reached(jobs[j]) = Len(jobs[j].to) - Len(jobs[j].left)
    BY <2>1, Reaching
  <2>4. Reached(jobs[j]) = Len(jobs[j].to)
    BY <2>2, <2>3
  <2> QED BY <2>1, <2>2, <2>4 DEF Told
<1> QED BY <1>1, QueueHolds, PTL

LEMMA MailsWithin == QueueInv => MailsBounded
<1> SUFFICES ASSUME QueueInv, NEW u \in Users
             PROVE  /\ mails[u] <= EmailJobs(u) + troubles
                    /\ mails[u] <= EmailJobs(u) * (Attempts + MaxStalls)
  BY DEF MailsBounded
<1> DEFINE E == EmailsIn(jobs, u)
           I == 0..(Attempts + MaxStalls - 1)
           S == SendingsIn(jobs, u)
           M == MailedIn(jobs, u)
<1>1. EmailJobs(u) = Cardinality(E)
  BY DEF EmailJobs, EmailsIn
<1>2. /\ mails[u] <= Cardinality(M) + troubles /\ mails[u] <= Cardinality(S)
      /\ mails[u] \in Nat /\ troubles \in Nat /\ jobs \in Seq(JobRecord)
  BY Naturals DEF QueueInv, MailsCounted
<1>3. IsFiniteSet(E) /\ IsFiniteSet(M) /\ M \in SUBSET E /\ S \in SUBSET (E \X I)
  BY <1>2, Finite DEF MailedIn, SendingsIn
<1>4. IsFiniteSet(I) /\ Cardinality(I) = Attempts + MaxStalls
  <2>1. Attempts + MaxStalls - 1 \in Int /\ ~(0 > Attempts + MaxStalls - 1)
    BY Numbers
  <2>2. /\ IsFiniteSet(I)
        /\ Cardinality(I) = (Attempts + MaxStalls - 1) - 0 + 1
    BY <2>1, FS_Interval
  <2> HIDE DEF I
  <2> QED BY <2>2, Numbers
<1> HIDE DEF E, I, S, M
<1>5. IsFiniteSet(E \X I) /\ Cardinality(E \X I) = Cardinality(E) * Cardinality(I)
  BY <1>3, <1>4, FS_Product
<1>6. Cardinality(S) <= Cardinality(E \X I) /\ Cardinality(S) \in Nat
  BY <1>3, <1>5, FS_Subset, FS_CardinalityType
<1>7. Cardinality(M) <= Cardinality(E) /\ Cardinality(M) \in Nat /\ Cardinality(E) \in Nat
  BY <1>3, FS_Subset, FS_CardinalityType
<1>8. mails[u] <= EmailJobs(u) + troubles
  BY <1>1, <1>2, <1>7
<1>9. mails[u] <= Cardinality(E \X I)
  <2>1. Cardinality(E \X I) \in Nat
    BY <1>5, FS_CardinalityType
  <2> QED BY <1>2, <1>6, <2>1
<1>10. mails[u] <= EmailJobs(u) * (Attempts + MaxStalls)
  BY <1>1, <1>4, <1>5, <1>9
<1> QED BY <1>8, <1>10

LEMMA InAppWithin == QueueInv => InAppBounded
<1> SUFFICES ASSUME QueueInv, NEW j \in DOMAIN jobs, NEW u \in Users,
                    jobs[j].kind = "broadcast"
             PROVE  inApp[u] <= Cardinality({i \in DOMAIN jobs[j].to : jobs[j].to[i] = u})
                                  * (1 + MaxStalls)
  BY DEF InAppBounded
<1> DEFINE P == PlacesOf(jobs[j], u)
           I == 0..MaxStalls
           T == TellingsOf(jobs[j], u)
<1>1. jobs[j] \in JobRecord /\ JobSound(j, jobs[j]) /\ jobs # <<>>
  BY JobTyped DEF QueueInv
<1>2. j = 1
  BY <1>1 DEF JobSound
<1>3. inApp[u] <= Cardinality(T) /\ inApp[u] \in Nat
  BY <1>1, <1>2, Naturals DEF QueueInv, TellingsCounted, TellingsIn
<1>4. IsFiniteSet(P) /\ T \in SUBSET (P \X I)
  BY <1>1, TellingsFinite DEF TellingsOf
<1>5. IsFiniteSet(I) /\ Cardinality(I) = 1 + MaxStalls
  <2>1. ~(0 > MaxStalls) /\ MaxStalls \in Int
    BY Numbers
  <2>2. IsFiniteSet(I) /\ Cardinality(I) = MaxStalls - 0 + 1
    BY <2>1, FS_Interval
  <2> HIDE DEF I
  <2> QED BY <2>1, <2>2
<1>6. Cardinality({i \in DOMAIN jobs[j].to : jobs[j].to[i] = u}) = Cardinality(P)
  BY DEF PlacesOf
<1> HIDE DEF P, I, T
<1>7. IsFiniteSet(P \X I) /\ Cardinality(P \X I) = Cardinality(P) * Cardinality(I)
  BY <1>4, <1>5, FS_Product
<1>8. /\ Cardinality(T) <= Cardinality(P \X I) /\ Cardinality(T) \in Nat
      /\ Cardinality(P \X I) \in Nat
  BY <1>4, <1>7, FS_Subset, FS_CardinalityType
<1>9. inApp[u] <= Cardinality(P \X I)
  BY <1>3, <1>8
<1> QED BY <1>5, <1>6, <1>7, <1>9

\* Nobody is mailed more often than once for each of their e-mails and for each trouble,
\* nor more often than Bull runs their e-mails; nobody is told in the application more
\* often than once for each of their places on the list and each restart.
THEOREM RepeatsLimited == Spec => []RepeatsBounded
<1>1. QueueInv => RepeatsBounded
  BY MailsWithin, InAppWithin DEF RepeatsBounded
<1> QED BY <1>1, QueueHolds, PTL

LEMMA SaversSame ==
    ASSUME NEW u PROVE AboutToSave(u) = SaversIn(jobs, u)
BY RunningSame DEF AboutToSave, SaversIn, RunningIn, Recipient, Calls, EmailCalls

\* Where an EmailService is injected into NotificationProcessor, a row says SENT only
\* of an e-mail that left, and a row stays PENDING only where a run of handleSendEmail
\* was cut short.  Without one the first half is false, as a run shows.
THEOREM RowsExplained == Spec => [](Mailer => EmailRowsExplained)
<1>1. QueueInv => OrphansExplained
  <2> SUFFICES ASSUME QueueInv, NEW u \in Users
               PROVE  emails[u].pending <= Cardinality(AboutToSave(u)) + troubles
    BY DEF OrphansExplained
  <2> QED BY SaversSame DEF QueueInv, RowsCounted
<1>2. Mailer /\ QueueInv => SentMeansMailed
  <2> SUFFICES ASSUME Mailer, QueueInv, NEW u \in Users PROVE emails[u].sent <= mails[u]
    BY DEF SentMeansMailed
  <2>1. emails[u].sent + Cardinality(SentIn(jobs, u)) <= mails[u]
    BY DEF QueueInv, SentCounted
  <2>2. emails[u].sent \in Nat /\ mails[u] \in Nat /\ Cardinality(SentIn(jobs, u)) \in Nat
    BY Naturals
  <2> QED BY <2>1, <2>2
<1>3. QueueInv => (Mailer => EmailRowsExplained)
  BY <1>1, <1>2 DEF EmailRowsExplained
<1> QED BY <1>3, QueueHolds, PTL
=============================================================================

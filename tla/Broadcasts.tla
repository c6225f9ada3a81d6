------------------------------ MODULE Broadcasts ------------------------------
(***************************************************************************)
(* A broadcast of NotificationsService.sendBroadcast on its way through    *)
(* the Bull queue "notifications": the job that tells its recipients in    *)
(* the application, the e-mail jobs it queues, and the retries.            *)
(*                                                                         *)
(* A job that runs is at one database, queue or mail call of its handler   *)
(* of NotificationProcessor.  Any of these calls may fail, and the process *)
(* may die at any of them; a call that fails has no effect, except that a  *)
(* message may have left.  Bull gives a job whose handler threw back to    *)
(* the queue until that has happened Attempts times, and one that was lost *)
(* with its process MaxStalls times.                                       *)
(*                                                                         *)
(* Rows of notifications are counted, by recipient and status: only the    *)
(* handler that inserted an e-mail's row saves it again.  Reading and      *)
(* deleting notifications is not in this module.                           *)
(***************************************************************************)
EXTENDS Naturals, Sequences, FiniteSets

CONSTANTS
    Users,
    Present,        \* those whose account is not deleted
    Audiences,      \* bound: the lists of recipients that an administrator names
    Mailer,         \* is an EmailService injected into NotificationProcessor?
    Concurrency,    \* jobs that run at the same time
    Attempts,       \* defaultJobOptions.attempts
    MaxStalls,      \* Bull's maxStalledCount
    MaxTroubles     \* bound: calls that fail and handlers cut short by a crash

ASSUME BroadcastConstants ==
    /\ Present \subseteq Users /\ IsFiniteSet(Present)
    /\ Audiences \subseteq Seq(Users)
    /\ Mailer \in BOOLEAN
    /\ Concurrency \in Nat \ {0}
    /\ Attempts \in Nat \ {0}
    /\ MaxStalls \in Nat
    /\ MaxTroubles \in Nat

VARIABLES
    jobs,       \* the jobs of the queue, in the order of their addition
    inApp,      \* inApp[u] : in-app notifications of u
    emails,     \* emails[u] : e-mail notifications of u by status
    missed,     \* recipients for whom handleBroadcast has logged an error
    mails,      \* mails[u] : messages that left for u
    troubles    \* calls that failed, and handlers that a crash cut short

vars == <<jobs, inApp, emails, missed, mails, troubles>>

-----------------------------------------------------------------------------
(* Jobs.                                                                   *)

Settled == {"completed", "failed"}
BroadcastCalls == {"row", "queue"}
EmailCalls == {"user", "insert", "mail", "save"}

\* Where a job is: waiting, at a call of its handler, at the handler's return,
\* lost with the process that ran it, or settled.
Places == {"waiting", "return", "lost"} \cup BroadcastCalls \cup EmailCalls \cup Settled

Job(kind, to, byMail) ==
    [kind |-> kind, to |-> to, byMail |-> byMail, at |-> "waiting", left |-> to,
     status |-> "pending", made |-> 0, stalls |-> 0]

Init ==
    /\ jobs = <<>>
    /\ inApp = [u \in Users |-> 0]
    /\ emails = [u \in Users |-> [pending |-> 0, sent |-> 0, failed |-> 0]]
    /\ missed = {}
    /\ mails = [u \in Users |-> 0]
    /\ troubles = 0

At(j, place) == jobs[j].at = place
Recipient(j) == Head(jobs[j].left)

Running == {j \in DOMAIN jobs : jobs[j].at \in BroadcastCalls \cup EmailCalls \cup {"return"}}

Goto(j, place) == jobs' = [jobs EXCEPT ![j].at = place]

\* A handler that starts, or starts again, starts from the beginning.
FirstCall(job) ==
    IF job.kind = "send-email" THEN "user"
    ELSE IF job.to = <<>> THEN "return" ELSE "row"

Requeued(job) == [job EXCEPT !.at = "waiting", !.left = job.to, !.status = "pending"]
GivenUp(job) == [job EXCEPT !.at = "failed", !.left = <<>>, !.status = "pending"]

\* A job whose handler threw, and one that was lost with its process.
Retried(job) ==
    [(IF job.made + 1 < Attempts THEN Requeued(job) ELSE GivenUp(job))
        EXCEPT !.made = job.made + 1]
Restarted(job) ==
    [(IF job.stalls < MaxStalls THEN Requeued(job) ELSE GivenUp(job))
        EXCEPT !.stalls = job.stalls + 1]

\* The loop of handleBroadcast goes on to the next recipient.
Onward(job) ==
    [job EXCEPT !.left = Tail(@), !.at = IF Len(job.left) = 1 THEN "return" ELSE "row"]

Failure == troubles < MaxTroubles /\ troubles' = troubles + 1

\* Bull hands a waiting job to a process.
Take(j) ==
    /\ At(j, "waiting")
    /\ Cardinality(Running) < Concurrency
    /\ Goto(j, FirstCall(jobs[j]))
    /\ UNCHANGED <<inApp, emails, missed, mails, troubles>>

\* The handler has returned and Bull is told.
Complete(j) ==
    /\ At(j, "return")
    /\ jobs' = [jobs EXCEPT ![j].at = "completed", ![j].left = <<>>, ![j].status = "pending"]
    /\ UNCHANGED <<inApp, emails, missed, mails, troubles>>

Crash ==
    /\ Running # {}
    /\ troubles + Cardinality(Running) <= MaxTroubles
    /\ troubles' = troubles + Cardinality(Running)
    /\ jobs' = [j \in DOMAIN jobs |-> IF j \in Running
                    THEN [jobs[j] EXCEPT !.at = "lost", !.left = <<>>, !.status = "pending"]
                    ELSE jobs[j]]
    /\ UNCHANGED <<inApp, emails, missed, mails>>

\* Bull has found an active job that nobody runs.
Stalled(j) ==
    /\ At(j, "lost")
    /\ jobs' = [jobs EXCEPT ![j] = Restarted(@)]
    /\ UNCHANGED <<inApp, emails, missed, mails, troubles>>

-----------------------------------------------------------------------------
(* The broadcast.                                                          *)

\* All users: the accounts that are active, some of those that are there, in
\* any order and each of them once.
AllUsers == {list \in UNION {[1..n -> Present] : n \in 0..Cardinality(Present)} :
                \A i, j \in DOMAIN list : list[i] = list[j] => i = j}

\* The users that the administrator names, who need not be there, or all.
UsersForAudience == Audiences \cup AllUsers

\* sendBroadcast adds its job; one broadcast is enough.
SendBroadcast(audience, byMail) ==
    /\ jobs = <<>>
    /\ jobs' = <<Job("broadcast", audience, byMail)>>
    /\ UNCHANGED <<inApp, emails, missed, mails, troubles>>

TellInApp(j) ==
    /\ At(j, "row")
    /\ inApp' = [inApp EXCEPT ![Recipient(j)] = @ + 1]
    /\ IF jobs[j].byMail THEN Goto(j, "queue")
                         ELSE jobs' = [jobs EXCEPT ![j] = Onward(@)]
    /\ UNCHANGED <<emails, missed, mails, troubles>>

QueueEmail(j) ==
    /\ At(j, "queue")
    /\ jobs' = Append([jobs EXCEPT ![j] = Onward(@)],
                      Job("send-email", <<Recipient(j)>>, TRUE))
    /\ UNCHANGED <<inApp, emails, missed, mails, troubles>>

\* Mutant: the error leaves the loop and the job is tried again.
SkipRecipient_Throws(j) ==
    /\ jobs[j].at \in BroadcastCalls
    /\ Failure
    /\ jobs' = [jobs EXCEPT ![j] = Retried(@)]
    /\ UNCHANGED <<inApp, emails, missed, mails>>

\* Mutant: the loop is inside the try block, not the other way round.
SkipRecipient_EndsLoop(j) ==
    /\ jobs[j].at \in BroadcastCalls
    /\ Failure
    /\ missed' = missed \cup {Recipient(j)}
    /\ Goto(j, "return")
    /\ UNCHANGED <<inApp, emails, mails>>

\* The insertion or the addition throws: logged, and on to the next recipient.
SkipRecipient(j) ==
    /\ jobs[j].at \in BroadcastCalls
    /\ Failure
    /\ missed' = missed \cup {Recipient(j)}
    /\ jobs' = [jobs EXCEPT ![j] = Onward(@)]
    /\ UNCHANGED <<inApp, emails, mails>>

-----------------------------------------------------------------------------
(* The e-mail.                                                             *)

\* Mutant: the e-mail of a missing account goes back to the queue to wait for it.
FindUser_Waits(j) ==
    /\ At(j, "user")
    /\ Goto(j, IF Recipient(j) \in Present THEN "insert" ELSE "waiting")
    /\ UNCHANGED <<inApp, emails, missed, mails, troubles>>

FindUser(j) ==
    /\ At(j, "user")
    /\ Goto(j, IF Recipient(j) \in Present THEN "insert" ELSE "return")
    /\ UNCHANGED <<inApp, emails, missed, mails, troubles>>

\* Mutant: the row is inserted as SENT.
InsertEmail_Sent(j) ==
    /\ At(j, "insert")
    /\ emails' = [emails EXCEPT ![Recipient(j)].sent = @ + 1]
    /\ Goto(j, "mail")
    /\ UNCHANGED <<inApp, missed, mails, troubles>>

InsertEmail(j) ==
    /\ At(j, "insert")
    /\ emails' = [emails EXCEPT ![Recipient(j)].pending = @ + 1]
    /\ Goto(j, "mail")
    /\ UNCHANGED <<inApp, missed, mails, troubles>>

\* The row will say what became of the message.
Outcome(j, status) == jobs' = [jobs EXCEPT ![j].at = "save", ![j].status = status]

Leave(u) == mails' = [mails EXCEPT ![u] = @ + 1]

\* Mutant: an error of the mail service is taken for success.
SendMail_Optimistic(j) ==
    /\ At(j, "mail")
    /\ Outcome(j, "sent")
    /\ Leave(Recipient(j)) \/ UNCHANGED mails
    /\ UNCHANGED <<inApp, emails, missed, troubles>>

\* Mutant: an error of the mail service fails the attempt.
SendMail_Rethrows(j) ==
    /\ At(j, "mail")
    /\ \/ Leave(Recipient(j)) /\ Outcome(j, "sent")
       \/ /\ Leave(Recipient(j)) \/ UNCHANGED mails
          /\ jobs' = [jobs EXCEPT ![j] = Retried(@)]
    /\ UNCHANGED <<inApp, emails, missed, troubles>>

\* With an EmailService: it reports success, or an error, after which the
\* message may have left all the same.  Without one the row becomes SENT.
SendMail(j) ==
    /\ At(j, "mail")
    /\ \/ Mailer /\ Leave(Recipient(j)) /\ \E s \in {"sent", "failed"} : Outcome(j, s)
       \/ Mailer /\ Outcome(j, "failed") /\ UNCHANGED mails
       \/ ~Mailer /\ Outcome(j, "sent") /\ UNCHANGED mails
    /\ UNCHANGED <<inApp, emails, missed, troubles>>

SaveEmail(j) ==
    /\ At(j, "save")
    /\ emails' = [emails EXCEPT ![Recipient(j)].pending = @ - 1,
                                ![Recipient(j)][jobs[j].status] = @ + 1]
    /\ Goto(j, "return")
    /\ UNCHANGED <<inApp, missed, mails, troubles>>

\* A call of handleSendEmail throws: Bull counts the attempt and, unless it was
\* the last one, has the job wait again.
FailAttempt(j) ==
    /\ jobs[j].at \in EmailCalls \ {"mail"}
    /\ Failure
    /\ jobs' = [jobs EXCEPT ![j] = Retried(@)]
    /\ UNCHANGED <<inApp, emails, missed, mails>>

-----------------------------------------------------------------------------
Progress(j) ==
    \/ Take(j)
    \/ TellInApp(j) \/ QueueEmail(j)
    \/ FindUser(j) \/ InsertEmail(j) \/ SendMail(j) \/ SaveEmail(j)
    \/ Complete(j)

Next ==
    \/ \E audience \in UsersForAudience, byMail \in BOOLEAN : SendBroadcast(audience, byMail)
    \/ \E j \in DOMAIN jobs :
          Progress(j) \/ Stalled(j) \/ SkipRecipient(j) \/ FailAttempt(j)
    \/ Crash

\* The processes go on with the jobs they run and Bull looks for stalled jobs;
\* nothing has to fail, and nobody has to send a broadcast.
Fairness ==
    /\ WF_vars(\E j \in DOMAIN jobs : Progress(j))
    /\ WF_vars(\E j \in DOMAIN jobs : Stalled(j))

Spec == Init /\ [][Next]_vars /\ Fairness

-----------------------------------------------------------------------------
(* Properties.                                                             *)

\* The types, and what a job's place in its handler says of its locals.
TypeOK ==
    /\ jobs \in Seq([kind: {"broadcast", "send-email"}, to: Seq(Users), byMail: BOOLEAN,
                     at: Places, left: Seq(Users), status: {"pending", "sent", "failed"},
                     made: 0..Attempts, stalls: 0..(MaxStalls + 1)])
    /\ \A j \in DOMAIN jobs :
          /\ jobs[j].at \in BroadcastCalls \cup EmailCalls => jobs[j].left # <<>>
          /\ At(j, "save") => jobs[j].status # "pending"
    /\ Cardinality(Running) <= Concurrency
    /\ inApp \in [Users -> Nat]
    /\ emails \in [Users -> [pending: Nat, sent: Nat, failed: Nat]]
    /\ missed \subseteq Users
    /\ mails \in [Users -> Nat]
    /\ troubles \in 0..MaxTroubles

EmailJobs(u) == Cardinality({j \in DOMAIN jobs : jobs[j].kind = "send-email" /\ jobs[j].to = <<u>>})

\* handleSendEmail may mail its recipient again, since a retry starts from the
\* beginning, but never without a run that was cut short, and no more often
\* than Bull runs the job.
MailsBounded ==
    \A u \in Users :
        /\ mails[u] <= EmailJobs(u) + troubles
        /\ mails[u] <= EmailJobs(u) * (Attempts + MaxStalls)

\* handleBroadcast is not retried for an error of one recipient: nobody is told
\* in the application more often than Bull restarts a job that was lost.
InAppBounded ==
    \A j \in DOMAIN jobs, u \in Users :
        jobs[j].kind = "broadcast" =>
            inApp[u] <= Cardinality({i \in DOMAIN jobs[j].to : jobs[j].to[i] = u})
                          * (1 + MaxStalls)

\* Retries and restarts repeat messages, within the two bounds.
RepeatsBounded == MailsBounded /\ InAppBounded

\* When a broadcast is completed everybody on its list was told, or is one of
\* the recipients for whom handleBroadcast logged an error.
DoneMeansTold ==
    \A j \in DOMAIN jobs :
        jobs[j].kind = "broadcast" /\ At(j, "completed") =>
            \A i \in DOMAIN jobs[j].to :
                inApp[jobs[j].to[i]] > 0 \/ jobs[j].to[i] \in missed

\* An e-mail's row says SENT only if a message left for it ("Email enviado").
SentMeansMailed ==
    \A u \in Users : emails[u].sent <= mails[u]

\* The handlers that have inserted a row for u and will save it.
AboutToSave(u) == {j \in Running : jobs[j].at \in {"mail", "save"} /\ Recipient(j) = u}

\* A row stays PENDING only where a run of handleSendEmail was cut short: an
\* error of the mail service is always recorded.
OrphansExplained ==
    \A u \in Users : emails[u].pending <= Cardinality(AboutToSave(u)) + troubles

\* What the rows of e-mails say is what happened, or a cut explains it.
EmailRowsExplained == SentMeansMailed /\ OrphansExplained

\* Every job comes to an end, completed or failed: none is forgotten active by
\* a process that died, none is tried for ever.
JobsSettle ==
    []<>(\A j \in DOMAIN jobs : jobs[j].at \in Settled)
=============================================================================

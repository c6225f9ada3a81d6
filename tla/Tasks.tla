-------------------------------- MODULE Tasks --------------------------------
(***************************************************************************)
(* The board of one project: TasksService and TaskStatusesService.         *)
(*                                                                         *)
(* A request is at one database call.  What it still has to call is its    *)
(* plan, which the code fixes when the request has read its task.  save is *)
(* two calls: a SELECT, to find the columns in which the entity differs    *)
(* from the row, and an UPDATE of those.  The rows that a transaction has  *)
(* updated are locked until it ends, and nobody sees them before.          *)
(*                                                                         *)
(* Looking up a task that is not there, and being refused, end a request   *)
(* before it has done anything: such requests do not begin.  Left out are  *)
(* the title, dates and priority of a task, the column assignedToId, the   *)
(* name, order and isDefault of a status, and who may do what.             *)
(***************************************************************************)
EXTENDS Naturals, Sequences, FiniteSets

CONSTANTS
    Requests,       \* slots for requests in flight: 1..n
    TaskIds,
    First, Second,  \* two of them, the second one a subtask of the first
    StatusIds,
    Seeds,          \* the statuses that createDefaultStatuses inserts
    Completed,      \* those of them with isCompleted
    Users,
    Parents,        \* bound: the parents that requests name
    Columns,        \* bound: the statuses that requests name
    Lists,          \* bound: the lists of assignees that requests name
    Actors,         \* bound: the users who send requests
    Leavers,        \* bound: the users who are deleted
    Bulks,          \* bound: the moves of cards that requests ask for
    MaxServed,      \* bound: requests
    None,           \* NULL
    Keep            \* a column that the DTO of update does not mention

ASSUME TaskConstants ==
    /\ Requests \subseteq Nat
    /\ First \in TaskIds /\ Second \in TaskIds \ {First}
    /\ Parents \subseteq TaskIds \cup {None} /\ Columns \subseteq StatusIds \cup {None}
    /\ Seeds \subseteq StatusIds /\ Completed \subseteq Seeds
    /\ Lists \subseteq Seq(Users)
    /\ Actors \subseteq Users /\ Leavers \subseteq Users
    /\ Bulks \subseteq Seq([task: TaskIds, pos: Nat, status: StatusIds \cup {None}])
    /\ \A items \in Bulks : \A i, k \in DOMAIN items :
          items[i].task = items[k].task => i = k
    /\ MaxServed \in Nat
    /\ None \notin TaskIds \cup StatusIds \cup Requests
    /\ {None, Keep} \cap Seq(Users) = {}
    /\ Keep \notin StatusIds \cup {None}

VARIABLES
    tasks,      \* the rows of tasks
    assigned,   \* assigned[t] : the users of the rows of task_assignees for t
    statuses,   \* the rows of task_statuses
    lock,       \* lock[t] : the request whose transaction has updated t
    req,        \* req[r] : the request in slot r
    served,     \* requests that have begun
    deleted     \* the users who have been deleted; their rows stay

vars == <<tasks, assigned, statuses, lock, req, served, deleted>>

-----------------------------------------------------------------------------
(* Rows and requests.                                                      *)

NoTask == [life |-> "none", parent |-> None, status |-> None, done |-> FALSE, pos |-> 0]

\* What a save of a task may find changed; done: completedAt is not NULL.
Fields == {"life", "status", "done", "pos"}

NoStatus == [life |-> "none", completed |-> FALSE]

\* actor: who sends the request; row: the entity; old: the assignees read before
\* they are replaced; before: the assignees when the request began; alone: nobody
\* else has written a task, an assignment or a status since then.
Idle == [op |-> "none", plan |-> <<>>, task |-> None, parent |-> None, status |-> None,
         ids |-> Keep, row |-> NoTask, dirty |-> {}, old |-> {}, before |-> {},
         items |-> <<>>, left |-> <<>>, found |-> {}, completed |-> {}, alone |-> TRUE,
         actor |-> None]

\* Two tasks from before the listener has created the statuses.  The first one has
\* a date without a status, which an update that takes the status away leaves.
Init ==
    /\ tasks = [t \in TaskIds |->
            CASE t = First  -> [NoTask EXCEPT !.life = "live", !.done = TRUE]
              [] t = Second -> [NoTask EXCEPT !.life = "live", !.parent = First]
              [] OTHER      -> NoTask]
    /\ assigned = [t \in TaskIds |-> {}]
    /\ statuses = [s \in StatusIds |-> NoStatus]
    /\ lock = [t \in TaskIds |-> None]
    /\ req = [r \in Requests |-> Idle]
    /\ served = 0
    /\ deleted = {}

Live(t) == t \in TaskIds /\ tasks[t].life = "live"
LiveStatus(s) == s \in StatusIds /\ statuses[s].life = "live"
Named(ids) == {ids[i] : i \in DOMAIN ids}

InFlight(r) == req[r].op # "none"
At(r, call) == InFlight(r) /\ req[r].plan # <<>> /\ Head(req[r].plan) = call
Answered(r) == InFlight(r) /\ req[r].plan = <<>>

\* r goes on as slot; after a write the others know that they are not alone.
Put(r, slot) == req' = [req EXCEPT ![r] = slot]
PutWriting(r, slot) ==
    req' = [q \in Requests |-> IF q = r THEN slot
                               ELSE [req[q] EXCEPT !.alone = ~InFlight(q)]]

Done(slot) == [slot EXCEPT !.plan = Tail(@)]

\* Slots are taken in their order, which does not matter to anybody.
Begin(r, slot) ==
    /\ ~InFlight(r)
    /\ \A q \in Requests : q < r => InFlight(q)
    /\ served < MaxServed
    /\ served' = served + 1
    /\ Put(r, slot)
    /\ UNCHANGED <<tasks, assigned, statuses, lock, deleted>>

\* The answer, or the exception, is sent.
Finish(r) == Put(r, Idle)

Unlocked(r) == [t \in TaskIds |-> IF lock[t] = r THEN None ELSE lock[t]]

-----------------------------------------------------------------------------
(* The order of the calls.                                                 *)

If(needed, call) == IF needed THEN <<call>> ELSE <<>>

\* assignedToIds is in the DTO, and not empty.
Names(slot) == slot.ids \notin {Keep, <<>>}

SaveAssigneesPlan(slot) == <<"clear">> \o If(slot.ids # <<>>, "assign")

CreatePlan(slot) ==
    If(slot.op = "subtask" /\ Names(slot), "validate")
        \o If(slot.status = None, "default")
        \o <<"insert">>
        \o (IF Names(slot) THEN SaveAssigneesPlan(slot) ELSE <<>>)

\* Mutant: the old assignees are read after the new ones are saved.
UpdatePlan_LateRead(slot) ==
    If(slot.status # None, "status")
        \o If(Names(slot) /\ slot.row.parent # None, "validate")
        \o (IF slot.ids # Keep THEN SaveAssigneesPlan(slot) \o <<"old">> ELSE <<>>)
        \o <<"select">>

UpdatePlan(slot) ==
    If(slot.status # None, "status")
        \o If(slot.ids # Keep, "old")
        \o If(Names(slot) /\ slot.row.parent # None, "validate")
        \o (IF slot.ids # Keep THEN SaveAssigneesPlan(slot) ELSE <<>>)
        \o <<"select">>

BulkPlan(items) ==
    If(\E i \in DOMAIN items : items[i].status # None, "statuses")
        \o [i \in DOMAIN items |-> "item"]
        \o <<"commit">>

-----------------------------------------------------------------------------
(* Creation.                                                               *)

\* An id that no task has and no request is about to insert.
FreshTask(t) == tasks[t].life = "none" /\ \A q \in Requests : req[q].task # t

CreateTask(r, t, parent, status, ids, actor) ==
    LET slot == [Idle EXCEPT !.op = "create", !.task = t, !.parent = parent,
                             !.status = status, !.ids = ids, !.actor = actor]
    IN  /\ FreshTask(t)
        /\ Begin(r, [slot EXCEPT !.plan = CreatePlan(slot)])

CreateSubtask(r, t, parent, status, ids, actor) ==
    LET slot == [Idle EXCEPT !.op = "subtask", !.task = t, !.parent = parent,
                             !.status = status, !.ids = ids, !.actor = actor]
    IN  /\ FreshTask(t)
        /\ Live(parent)
        /\ Begin(r, [slot EXCEPT !.plan = CreatePlan(slot)])

\* Any status may have isDefault, which administrators set, or none.
FindDefault(r) ==
    /\ At(r, "default")
    /\ \E s \in {d \in StatusIds : LiveStatus(d)} \cup {None} :
          Put(r, [Done(req[r]) EXCEPT !.status = s])
    /\ UNCHANGED <<tasks, assigned, statuses, lock, served, deleted>>

InsertTask(r) ==
    /\ At(r, "insert")
    /\ tasks' = [tasks EXCEPT ![req[r].task] = [NoTask EXCEPT !.life = "live",
                        !.parent = req[r].parent, !.status = req[r].status]]
    /\ PutWriting(r, Done(req[r]))
    /\ UNCHANGED <<assigned, statuses, lock, served, deleted>>

-----------------------------------------------------------------------------
(* Update and removal.                                                     *)

\* A status that is null is no move, which leaves the date alone, and is saved.
UpdateTask(r, t, status, ids, actor) ==
    LET slot == [Idle EXCEPT !.op = "update", !.task = t, !.ids = ids, !.actor = actor,
                    !.status = IF status \in {Keep, tasks[t].status} THEN None ELSE status,
                    !.row = IF status = None THEN [tasks[t] EXCEPT !.status = None]
                            ELSE tasks[t],
                    !.before = assigned[t]]
    IN  /\ Live(t)
        /\ Begin(r, [slot EXCEPT !.plan = UpdatePlan(slot)])

\* Mutant: completedAt is set and never reset.
FindStatus_NoReset(r) ==
    /\ At(r, "status")
    /\ LET s == req[r].status
       IN  IF LiveStatus(s)
           THEN Put(r, [Done(req[r]) EXCEPT !.row.status = s,
                                            !.row.done = @ \/ statuses[s].completed])
           ELSE Finish(r)
    /\ UNCHANGED <<tasks, assigned, statuses, lock, served, deleted>>

FindStatus(r) ==
    /\ At(r, "status")
    /\ LET s == req[r].status
       IN  IF LiveStatus(s)
           THEN Put(r, [Done(req[r]) EXCEPT !.row.status = s,
                                            !.row.done = statuses[s].completed])
           ELSE Finish(r)
    /\ UNCHANGED <<tasks, assigned, statuses, lock, served, deleted>>

\* Rows of users who have been deleted come without a user and are left out.
OldAssignees(r) ==
    /\ At(r, "old")
    /\ Put(r, [Done(req[r]) EXCEPT !.old = assigned[req[r].task] \ deleted])
    /\ UNCHANGED <<tasks, assigned, statuses, lock, served, deleted>>

ParentOf(slot) == IF slot.op = "update" THEN slot.row.parent ELSE slot.parent

AssigneesOf(t) == IF t \in TaskIds THEN assigned[t] ELSE {}

\* Mutant: a parent without assignees is not told from a parent with any.
ValidateAssignees_Overlap(r) ==
    /\ At(r, "validate")
    /\ LET ids == req[r].ids  allowed == AssigneesOf(ParentOf(req[r]))
       IN  IF ids # None /\ (allowed = {} \/ Named(ids) \cap allowed # {})
           THEN Put(r, Done(req[r])) ELSE Finish(r)
    /\ UNCHANGED <<tasks, assigned, statuses, lock, served, deleted>>

\* A list that is null has no length, which is a TypeError here...
ValidateAssignees(r) ==
    /\ At(r, "validate")
    /\ LET ids == req[r].ids  allowed == AssigneesOf(ParentOf(req[r]))
       IN  IF ids # None /\ (allowed = {} \/ Named(ids) \subseteq allowed)
           THEN Put(r, Done(req[r])) ELSE Finish(r)
    /\ UNCHANGED <<tasks, assigned, statuses, lock, served, deleted>>

\* ...or, for a task without a parent, after the deletion.
ClearAssignees(r) ==
    /\ At(r, "clear")
    /\ assigned' = [assigned EXCEPT ![req[r].task] = {}]
    /\ PutWriting(r, IF req[r].ids = None THEN Idle ELSE Done(req[r]))
    /\ UNCHANGED <<tasks, statuses, lock, served, deleted>>

\* One insertion for all, which the unique index refuses if one of them is there.
InsertAssignees(r) ==
    /\ At(r, "assign")
    /\ LET ids == req[r].ids  t == req[r].task
       IN  IF Cardinality(Named(ids)) = Len(ids) /\ Named(ids) \cap assigned[t] = {}
           THEN /\ assigned' = [assigned EXCEPT ![t] = @ \cup Named(ids)]
                /\ PutWriting(r, Done(req[r]))
           ELSE /\ UNCHANGED assigned
                /\ Finish(r)
    /\ UNCHANGED <<tasks, statuses, lock, served, deleted>>

\* save compares the entity with the row, a deleted one too.
SelectTask(r) ==
    /\ At(r, "select")
    /\ LET dirty == {c \in Fields : req[r].row[c] # tasks[req[r].task][c]}
       IN  Put(r, [req[r] EXCEPT !.dirty = dirty, !.plan = If(dirty # {}, "write")])
    /\ UNCHANGED <<tasks, assigned, statuses, lock, served, deleted>>

WriteTask(r) ==
    /\ At(r, "write")
    /\ LET t == req[r].task
       IN  /\ lock[t] = None
           /\ tasks' = [tasks EXCEPT ![t] = [c \in DOMAIN NoTask |->
                            IF c \in req[r].dirty THEN req[r].row[c] ELSE @[c]]]
    /\ PutWriting(r, Done(req[r]))
    /\ UNCHANGED <<assigned, statuses, lock, served, deleted>>

RemoveTask(r, t) ==
    /\ Live(t)
    /\ Begin(r, [Idle EXCEPT !.op = "remove", !.task = t, !.plan = <<"delete">>])

SoftDeleteTask(r) ==
    /\ At(r, "delete")
    /\ lock[req[r].task] = None
    /\ tasks' = [tasks EXCEPT ![req[r].task].life = "deleted"]
    /\ PutWriting(r, Done(req[r]))
    /\ UNCHANGED <<assigned, statuses, lock, served, deleted>>

-----------------------------------------------------------------------------
(* bulkUpdatePositions.                                                    *)

\* A super administrator's cards are not looked up first.
BulkUpdatePositions(r, items) ==
    Begin(r, [Idle EXCEPT !.op = "bulk", !.items = items, !.left = items,
                          !.plan = BulkPlan(items)])

LoadStatuses(r) ==
    /\ At(r, "statuses")
    /\ LET found == {s \in StatusIds : /\ LiveStatus(s)
                                       /\ \E i \in DOMAIN req[r].items :
                                             req[r].items[i].status = s}
       IN  Put(r, [Done(req[r]) EXCEPT !.found = found,
                        !.completed = {s \in found : statuses[s].completed}])
    /\ UNCHANGED <<tasks, assigned, statuses, lock, served, deleted>>

\* What the item makes of its row; a card that is no task changes nothing.
Moved(row, item, completed) ==
    [row EXCEPT !.pos = item.pos,
                !.status = IF item.status = None THEN @ ELSE item.status,
                !.done = IF item.status = None THEN @ ELSE item.status \in completed]

Unknown(slot) ==
    LET s == Head(slot.left).status IN s # None /\ s \notin slot.found

\* Mutant: the update does not go through the query runner of the transaction.
WriteItem_Outside(r) ==
    /\ At(r, "item")
    /\ LET slot == req[r]  t == Head(slot.left).task
       IN  /\ ~Unknown(slot)
           /\ lock[t] = None
           /\ tasks' = [tasks EXCEPT ![t] = IF @.life = "none" THEN @
                            ELSE Moved(@, Head(slot.left), slot.completed)]
           /\ PutWriting(r, [Done(slot) EXCEPT !.left = Tail(@)])
    /\ UNCHANGED <<assigned, statuses, lock, served, deleted>>

WriteItem(r) ==
    /\ At(r, "item")
    /\ LET slot == req[r]  t == Head(slot.left).task
       IN  /\ ~Unknown(slot)
           /\ lock[t] \in {None, r}
           /\ lock' = [lock EXCEPT ![t] = IF tasks[t].life = "none" THEN @ ELSE r]
           /\ Put(r, [Done(slot) EXCEPT !.left = Tail(@)])
    /\ UNCHANGED <<tasks, assigned, statuses, served, deleted>>

\* Mutant: the exception passes the transaction by, which stays open.
Rollback_Forgotten(r) ==
    /\ At(r, "item")
    /\ Unknown(req[r])
    /\ Finish(r)
    /\ UNCHANGED <<tasks, assigned, statuses, lock, served, deleted>>

\* The item names a status that was not found.
Rollback(r) ==
    /\ At(r, "item")
    /\ Unknown(req[r])
    /\ lock' = Unlocked(r)
    /\ Finish(r)
    /\ UNCHANGED <<tasks, assigned, statuses, served, deleted>>

Commit(r) ==
    /\ At(r, "commit")
    /\ LET items == req[r].items
       IN  tasks' = [t \in TaskIds |->
                IF tasks[t].life # "none" /\ \E i \in DOMAIN items : items[i].task = t
                THEN Moved(tasks[t],
                           items[CHOOSE i \in DOMAIN items : items[i].task = t],
                           req[r].completed)
                ELSE tasks[t]]
    /\ lock' = Unlocked(r)
    /\ PutWriting(r, Done(req[r]))
    /\ UNCHANGED <<assigned, statuses, served, deleted>>

\* The request that holds the row for which r waits.
HeldFrom(r) ==
    IF At(r, "item") /\ ~Unknown(req[r]) /\ lock[Head(req[r].left).task] # r
    THEN lock[Head(req[r].left).task]
    ELSE None

\* PostgreSQL ends one of the transactions that wait for each other in a circle.
BreakDeadlock(r) ==
    /\ \E circle \in SUBSET Requests :
          /\ r \in circle
          /\ {HeldFrom(q) : q \in circle} = circle
    /\ lock' = Unlocked(r)
    /\ Finish(r)
    /\ UNCHANGED <<tasks, assigned, statuses, served, deleted>>

-----------------------------------------------------------------------------
(* Statuses.                                                               *)

\* The listener of project.created, which nobody awaits and whose failure is only
\* logged.  One save of all, in one transaction.
SeedStatuses ==
    /\ \A s \in Seeds : statuses[s].life = "none"
    /\ statuses' = [s \in StatusIds |-> IF s \in Seeds
                        THEN [life |-> "live", completed |-> s \in Completed]
                        ELSE statuses[s]]
    /\ req' = [q \in Requests |-> [req[q] EXCEPT !.alone = ~InFlight(q)]]
    /\ UNCHANGED <<tasks, assigned, lock, served, deleted>>

CreateStatus(r, s, completed) ==
    /\ s \notin Seeds
    /\ statuses[s].life = "none"
    /\ \A q \in Requests : req[q].op = "newStatus" => req[q].status # s
    /\ Begin(r, [Idle EXCEPT !.op = "newStatus", !.status = s,
                    !.completed = IF completed THEN {s} ELSE {}, !.plan = <<"putStatus">>])

\* A new name leaves isCompleted as it was read.
UpdateStatus(r, s, completed) ==
    /\ LiveStatus(s)
    /\ Begin(r, [Idle EXCEPT !.op = "editStatus", !.status = s,
                    !.completed = IF completed THEN {s} ELSE {}, !.plan = <<"putStatus">>])

RemoveStatus(r, s) ==
    /\ LiveStatus(s)
    /\ Begin(r, [Idle EXCEPT !.op = "dropStatus", !.status = s, !.plan = <<"dropStatus">>])

\* save inserts the entity again if its row has been deleted.
PutStatus(r) ==
    /\ At(r, "putStatus")
    /\ statuses' = [statuses EXCEPT ![req[r].status] =
            [life |-> "live", completed |-> req[r].status \in req[r].completed]]
    /\ PutWriting(r, Done(req[r]))
    /\ UNCHANGED <<tasks, assigned, lock, served, deleted>>

DropStatus(r) ==
    /\ At(r, "dropStatus")
    /\ statuses' = [statuses EXCEPT ![req[r].status] = [NoStatus EXCEPT !.life = "gone"]]
    /\ PutWriting(r, Done(req[r]))
    /\ UNCHANGED <<tasks, assigned, lock, served, deleted>>

-----------------------------------------------------------------------------
\* deleteUser of UsersService, which leaves the rows of task_assignees.
RemoveUser(u) ==
    /\ u \notin deleted
    /\ deleted' = deleted \cup {u}
    /\ UNCHANGED <<tasks, assigned, statuses, lock, req, served>>

\* The people who get task.assigned and task.unassigned with the answer: nobody is
\* told of what he does himself.
ToldAssigned(slot) == (Named(slot.ids) \ slot.old) \ {slot.actor}

ToldUnassigned(slot) == (slot.old \ Named(slot.ids)) \ {slot.actor}

Answer(r) ==
    /\ Answered(r)
    /\ Finish(r)
    /\ UNCHANGED <<tasks, assigned, statuses, lock, served, deleted>>

GoOn(r) ==
    \/ FindDefault(r) \/ InsertTask(r)
    \/ FindStatus(r) \/ OldAssignees(r) \/ ValidateAssignees(r)
    \/ ClearAssignees(r) \/ InsertAssignees(r) \/ SelectTask(r) \/ WriteTask(r)
    \/ SoftDeleteTask(r)
    \/ LoadStatuses(r) \/ WriteItem(r) \/ Rollback(r) \/ Commit(r)
    \/ PutStatus(r) \/ DropStatus(r)
    \/ Answer(r)

Call(r) ==
    \/ \E t \in TaskIds, s \in Columns, actor \in Actors \ deleted :
          \/ \E parent \in Parents, ids \in Lists :
                \/ CreateTask(r, t, parent, s, ids, actor)
                \/ CreateSubtask(r, t, parent, s, ids, actor)
          \/ \E column \in {s, Keep}, ids \in Lists \cup {None, Keep} :
                UpdateTask(r, t, column, ids, actor)
    \/ \E t \in TaskIds : RemoveTask(r, t)
    \/ \E items \in Bulks : BulkUpdatePositions(r, items)
    \/ \E s \in StatusIds, completed \in BOOLEAN :
          CreateStatus(r, s, completed) \/ UpdateStatus(r, s, completed)
    \/ \E s \in StatusIds : RemoveStatus(r, s)

Next ==
    \/ \E r \in Requests : Call(r) \/ GoOn(r) \/ BreakDeadlock(r)
    \/ SeedStatuses
    \/ \E u \in Leavers : RemoveUser(u)

\* Database calls return, and PostgreSQL looks for deadlocks.
Fairness ==
    /\ \A r \in Requests : WF_vars(GoOn(r))
    /\ WF_vars(\E r \in Requests : BreakDeadlock(r))

Spec == Init /\ [][Next]_vars /\ Fairness

-----------------------------------------------------------------------------
(* Properties.                                                             *)

Rows == [life: {"none", "live", "deleted"}, parent: TaskIds \cup {None},
         status: StatusIds \cup {None}, done: BOOLEAN, pos: Nat]

Calls == {"validate", "default", "insert", "clear", "assign", "status", "old", "select",
          "write", "delete", "statuses", "item", "commit", "putStatus", "dropStatus"}

\* The types, and that rows are locked by transactions in progress only.
TypeOK ==
    /\ tasks \in [TaskIds -> Rows]
    /\ assigned \in [TaskIds -> SUBSET Users]
    /\ statuses \in [StatusIds -> [life: {"none", "live", "gone"}, completed: BOOLEAN]]
    /\ lock \in [TaskIds -> Requests \cup {None}]
    /\ req \in [Requests ->
            [op: {"none", "create", "subtask", "update", "remove", "bulk", "newStatus",
                  "editStatus", "dropStatus"},
             plan: Seq(Calls), task: TaskIds \cup {None}, parent: TaskIds \cup {None},
             status: StatusIds \cup {None}, ids: Seq(Users) \cup {None, Keep}, row: Rows,
             dirty: SUBSET Fields, old: SUBSET Users, before: SUBSET Users,
             items: Seq([task: TaskIds, pos: Nat, status: StatusIds \cup {None}]),
             left: Seq([task: TaskIds, pos: Nat, status: StatusIds \cup {None}]),
             found: SUBSET StatusIds, completed: SUBSET StatusIds, alone: BOOLEAN,
             actor: Users \cup {None}]]
    /\ \A t \in TaskIds : lock[t] # None =>
          /\ At(lock[t], "item") \/ At(lock[t], "commit")
          /\ \E i \in DOMAIN req[lock[t]].items : req[lock[t]].items[i].task = t
    /\ served \in 0..MaxServed
    /\ deleted \subseteq Users

Undisturbed(r) == Answered(r) /\ req[r].alone

\* The tasks that r has moved to another status.
MovedBy(r) ==
    IF req[r].op = "update" /\ req[r].status # None THEN {req[r].task}
    ELSE {req[r].items[i].task : i \in {k \in DOMAIN req[r].items :
                                           req[r].items[k].status # None}}

\* A task that update or bulkUpdatePositions moves to another status has a
\* completion date exactly if that status is a completed one, whatever an earlier
\* race, or an update that took the status away, has left in the two columns, if
\* nobody else writes meanwhile.
DateFollowsStatus ==
    \A r \in Requests : Undisturbed(r) =>
        \A t \in MovedBy(r) : tasks[t].life # "none" =>
            (tasks[t].done <=> statuses[tasks[t].status].completed)

\* Of the people who have not been deleted, those who get task.assigned and
\* task.unassigned are the ones whose assignment the request has changed, without
\* the one who sent it, if nobody else writes meanwhile.  (One who has been deleted
\* and stays on the list is told of it again, and is not told of being removed.)
TellsDifference ==
    \A r \in Requests : Undisturbed(r) /\ req[r].ids # Keep =>
        LET now == assigned[req[r].task]
            others == Users \ (deleted \cup {req[r].actor})
        IN  /\ ToldAssigned(req[r]) \ deleted = (now \ req[r].before) \cap others
            /\ ToldUnassigned(req[r]) \ deleted = (req[r].before \ now) \cap others

\* "Los asignados de la subtarea deben ser asignados de la tarea padre": after
\* createSubtask or update has set them, if nobody else writes meanwhile.
SubtaskWithinParent ==
    \A r \in Requests :
        Undisturbed(r) /\ req[r].op \in {"subtask", "update"} /\ req[r].ids # Keep =>
            LET allowed == AssigneesOf(tasks[req[r].task].parent)
            IN  allowed = {} \/ assigned[req[r].task] \subseteq allowed

\* No step of bulkUpdatePositions changes some of its cards: the step that changes
\* one puts all of them where they were asked to be.
BulkAllOrNothing ==
    [][\A r \in Requests :
          req[r].op = "bulk" /\ req'[r].plan # req[r].plan /\ tasks' # tasks =>
              \A i \in DOMAIN req[r].items :
                  LET item == req[r].items[i]
                  IN  tasks[item.task].life = "none" \/ tasks'[item.task].pos = item.pos]_vars

\* Every request is answered: bulk moves of the same cards in different orders wait
\* for each other's rows, and whoever gives up lets the others go on.
RequestsEnd == \A r \in Requests : []<>~InFlight(r)
=============================================================================

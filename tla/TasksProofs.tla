----------------------------- MODULE TasksProofs -----------------------------
(***************************************************************************)
(* The board of a project, for every set of tasks, statuses, people and    *)
(* requests: the types and the locks, bulk moves that are all or nothing,  *)
(* and what a request that nobody disturbed leaves behind: completion      *)
(* dates that follow the statuses, subtasks assigned within their parent,  *)
(* events for the people whose assignment has changed.                     *)
(*                                                                         *)
(* The last three speak of an answered request and of nothing before.      *)
(* BoardInv says of each request in flight what is left of its plan        *)
(* (Shape), what it knows of its task whatever the others do (Grounded)    *)
(* and, as long as nobody else has written, how its local variables relate *)
(* to the tables at the call that it has come to (Undisputed).             *)
(***************************************************************************)
EXTENDS Tasks, SequenceTheorems, TLAPS

-----------------------------------------------------------------------------
(* Plans, from their end.                                                  *)

Cons(call, plan) == <<call>> \o plan

\* The call that a request has come to.
Stage(q) == IF q.plan = <<>> THEN "end" ELSE Head(q.plan)

\* create and createSubtask.
AfterInsert(q) == IF Names(q) THEN Cons("clear", Cons("assign", <<>>)) ELSE <<>>
AfterDefault(q) == Cons("insert", AfterInsert(q))
BeforeInsert(q) ==
    IF q.status = None THEN Cons("default", AfterDefault(q)) ELSE AfterDefault(q)

CreateShape(q) ==
    CASE Stage(q) = "validate" -> /\ q.op = "subtask" /\ Names(q)
                                  /\ q.plan = Cons("validate", BeforeInsert(q))
      [] Stage(q) = "default"  -> q.plan = Cons("default", AfterDefault(q))
      [] Stage(q) = "insert"   -> q.plan = AfterDefault(q)
      [] Stage(q) = "clear"    -> q.plan = AfterInsert(q) /\ Names(q)
      [] Stage(q) = "assign"   -> q.plan = Cons("assign", <<>>) /\ Names(q)
      [] OTHER                 -> q.plan = <<>>

\* update.
SaveTask == Cons("select", <<>>)
AfterClear(q) == IF q.ids # <<>> THEN Cons("assign", SaveTask) ELSE SaveTask
AfterValidate(q) == Cons("clear", AfterClear(q))
AfterOld(q) ==
    IF Names(q) /\ q.row.parent # None THEN Cons("validate", AfterValidate(q))
    ELSE AfterValidate(q)
AfterStatus(q) == IF q.ids # Keep THEN Cons("old", AfterOld(q)) ELSE SaveTask

UpdateShape(q) ==
    CASE Stage(q) = "status"   -> q.plan = Cons("status", AfterStatus(q)) /\ q.status # None
      [] Stage(q) = "old"      -> q.plan = Cons("old", AfterOld(q)) /\ q.ids # Keep
      [] Stage(q) = "validate" -> q.plan = Cons("validate", AfterValidate(q)) /\ Names(q)
      [] Stage(q) = "clear"    -> q.plan = AfterValidate(q) /\ q.ids # Keep
      [] Stage(q) = "assign"   -> /\ Names(q) /\ q.ids # None
                                  /\ q.plan = Cons("assign", SaveTask)
      [] Stage(q) = "select"   -> q.plan = SaveTask /\ q.ids # None
      [] Stage(q) = "write"    -> q.plan = Cons("write", <<>>) /\ q.ids # None
      [] OTHER                 -> q.plan = <<>> /\ q.ids # None

\* bulkUpdatePositions.
ItemsPlan(items) ==
    [i \in 1..(Len(items) + 1) |-> IF i <= Len(items) THEN "item" ELSE "commit"]

Written(q) == Len(q.items) - Len(q.left)

BulkShape(q) ==
    /\ Len(q.left) <= Len(q.items)
    /\ \A i \in 1..Len(q.left) : q.left[i] = q.items[Written(q) + i]
    /\ \A i \in 1..Written(q) : q.items[i].status = None \/ q.items[i].status \in q.found
    /\ \A i, k \in 1..Len(q.items) : q.items[i].task = q.items[k].task => i = k
    /\ CASE Stage(q) = "statuses" -> q.plan = Cons("statuses", ItemsPlan(q.left)) /\ q.left = q.items
         [] Stage(q) = "item"     -> q.plan = ItemsPlan(q.left) /\ q.left # <<>>
         [] Stage(q) = "commit"   -> q.plan = ItemsPlan(q.left) /\ q.left = <<>>
         [] OTHER                 -> q.plan = <<>> /\ q.left = <<>>

\* The requests of one call.
OneCall(q, call) == q.plan \in {Cons(call, <<>>), <<>>}

Creating == {"create", "subtask"}

Shape(q) ==
    /\ q.op = "none" => q.plan = <<>> /\ q.task = None
    /\ q.op \in Creating => CreateShape(q) /\ q.old = {} /\ q.before = {}
                         /\ q.ids \notin {None, Keep}
    /\ q.op = "update" => UpdateShape(q)
    /\ q.op = "remove" => OneCall(q, "delete")
    /\ q.op = "bulk" => BulkShape(q)
    /\ q.op \in {"newStatus", "editStatus"} => OneCall(q, "putStatus")
    /\ q.op = "dropStatus" => OneCall(q, "dropStatus")
    /\ q.op # "bulk" => q.items = <<>>
    /\ q.op \notin Creating \cup {"update"} => q.ids = Keep
    /\ q.op \in Creating \cup {"update", "remove"} => q.task \in TaskIds

-----------------------------------------------------------------------------
(* What requests know of the tables.                                       *)

ToInsert == {"validate", "default", "insert"}

\* Whatever the others do: rows stay, with their parents, and nobody else inserts
\* the task of a request.
Grounded(q, rows) ==
    /\ q.op \in Creating =>
          IF Stage(q) \in ToInsert THEN rows[q.task].life = "none"
          ELSE rows[q.task].life # "none" /\ rows[q.task].parent = q.parent
    /\ q.op = "subtask" => q.parent \in TaskIds \ {q.task}
    /\ q.op = "update" => /\ rows[q.task].life # "none" /\ rows[q.task].parent = q.row.parent
                          /\ q.row.life = "live"
    /\ q.op = "remove" => rows[q.task].life # "none"

\* The people named are assigned to the parent, if anybody is.
WithinParent(q, parent, people) ==
    LET allowed == IF parent \in TaskIds THEN people[parent] ELSE {}
    IN  parent = q.task \/ allowed = {} \/ Named(q.ids) \subseteq allowed

CreateUndisputed(q, people) ==
    /\ people[q.task] = IF Stage(q) = "end" THEN Named(q.ids) ELSE {}
    /\ q.op = "subtask" /\ Stage(q) # "validate" => WithinParent(q, q.parent, people)

UpdateAssignees(q, people, gone) ==
    /\ Stage(q) \in {"status", "old", "validate", "clear"} => people[q.task] = q.before
    /\ Stage(q) \notin {"status", "old"} => q.old \ gone = q.before \ gone
    /\ Stage(q) \notin {"status", "old", "validate"} => WithinParent(q, q.row.parent, people)
    /\ Stage(q) = "assign" => people[q.task] = {}
    /\ Stage(q) \in {"select", "write", "end"} => people[q.task] = Named(q.ids)

UpdateUndisputed(q, rows, people, board, gone) ==
    /\ q.ids \notin {None, Keep} => UpdateAssignees(q, people, gone)
    /\ q.status # None /\ Stage(q) # "status" =>
          /\ q.status \in StatusIds /\ q.row.status = q.status
          /\ q.row.done = board[q.status].completed
    /\ Stage(q) = "write" =>
          \A c \in Fields : q.row[c] # rows[q.task][c] => c \in q.dirty
    /\ Stage(q) = "end" => \A c \in Fields : rows[q.task][c] = q.row[c]

BulkUndisputed(q, rows, board) ==
    /\ q.completed = {s \in q.found : board[s].completed}
    /\ Stage(q) = "end" =>
          \A i \in 1..Len(q.items) :
              LET row == rows[q.items[i].task]
              IN  q.items[i].status # None /\ row.life # "none" =>
                      /\ row.status = q.items[i].status
                      /\ row.done = board[q.items[i].status].completed

\* As long as nobody else has written.
Undisputed(q, rows, people, board, gone) ==
    /\ q.op \in Creating => CreateUndisputed(q, people)
    /\ q.op = "update" => UpdateUndisputed(q, rows, people, board, gone)
    /\ q.op = "bulk" => BulkUndisputed(q, rows, board)

Fine(q, rows, people, board, gone) ==
    /\ Shape(q)
    /\ Grounded(q, rows)
    /\ q.alone => Undisputed(q, rows, people, board, gone)

-----------------------------------------------------------------------------
(* The invariant.                                                          *)

Item == [task: TaskIds, pos: Nat, status: StatusIds \cup {None}]
Ops == {"none", "create", "subtask", "update", "remove", "bulk", "newStatus", "editStatus",
        "dropStatus"}

Slot == [op: Ops, plan: Seq(Calls), task: TaskIds \cup {None}, parent: TaskIds \cup {None},
         status: StatusIds \cup {None}, ids: Seq(Users) \cup {None, Keep}, row: Rows,
         dirty: SUBSET Fields, old: SUBSET Users, before: SUBSET Users,
         items: Seq(Item), left: Seq(Item),
         found: SUBSET StatusIds, completed: SUBSET StatusIds, alone: BOOLEAN,
         actor: Users \cup {None}]

StatusRow == [life: {"none", "live", "gone"}, completed: BOOLEAN]

Tables(rows, people, board) ==
    /\ rows \in [TaskIds -> Rows]
    /\ people \in [TaskIds -> SUBSET Users]
    /\ board \in [StatusIds -> StatusRow]
    /\ \A t \in TaskIds : rows[t].life = "none" => people[t] = {}

\* Locks belong to bulk moves that name the task.
Holds(q, t) ==
    /\ q.op = "bulk" /\ Stage(q) \in {"item", "commit"}
    /\ \E i \in 1..Len(q.items) : q.items[i].task = t

LocksFine ==
    /\ lock \in [TaskIds -> Requests \cup {None}]
    /\ \A t \in TaskIds : lock[t] # None => Holds(req[lock[t]], t)

\* Two requests do not create the same task.
CreatorsApart ==
    \A r, s \in Requests :
        req[r].op \in Creating /\ req[s].op \in Creating /\ req[r].task = req[s].task => r = s

BoardInv ==
    /\ Tables(tasks, assigned, statuses)
    /\ req \in [Requests -> Slot]
    /\ \A r \in Requests : Fine(req[r], tasks, assigned, statuses, deleted)
    /\ LocksFine
    /\ CreatorsApart
    /\ served \in 0..MaxServed
    /\ deleted \subseteq Users

-----------------------------------------------------------------------------
(* Lemmas about plans.                                                     *)

LEMMA ConsFacts ==
    ASSUME NEW call \in Calls, NEW plan \in Seq(Calls)
    PROVE  /\ Cons(call, plan) \in Seq(Calls) /\ Cons(call, plan) # <<>>
           /\ Head(Cons(call, plan)) = call /\ Tail(Cons(call, plan)) = plan
BY DEF Cons

LEMMA IfFacts ==
    ASSUME NEW needed \in BOOLEAN, NEW call \in Calls
    PROVE  /\ If(needed, call) \in Seq(Calls)
           /\ \A plan \in Seq(Calls) :
                 If(needed, call) \o plan = IF needed THEN Cons(call, plan) ELSE plan
BY DEF If, Cons

LEMMA ConcatApart ==
    ASSUME NEW s \in Seq(Calls), NEW t \in Seq(Calls), NEW u \in Seq(Calls)
    PROVE  /\ (s \o t) \o u = s \o (t \o u) /\ s \o t \in Seq(Calls)
           /\ s \o <<>> = s
OBVIOUS

\* Kept folded, so that a concatenation is rewritten only where a step says so.
Cat(s, t) == s \o t

LEMMA CatFive ==
    ASSUME NEW a \in Seq(Calls), NEW b \in Seq(Calls), NEW c \in Seq(Calls),
           NEW d \in Seq(Calls), NEW e \in Seq(Calls)
    PROVE  Cat(Cat(Cat(Cat(a, b), c), d), e) = Cat(a, Cat(b, Cat(c, Cat(d, e))))
<1>1. \A s, t \in Seq(Calls) : Cat(s, t) \in Seq(Calls)
  BY DEF Cat
<1>2. \A s, t, u \in Seq(Calls) : Cat(Cat(s, t), u) = Cat(s, Cat(t, u))
  <2> TAKE s, t, u \in Seq(Calls)
  <2>1. (s \o t) \o u = s \o (t \o u)
    OBVIOUS
  <2> QED BY <2>1 DEF Cat
<1>3. /\ Cat(a, b) \in Seq(Calls) /\ Cat(Cat(a, b), c) \in Seq(Calls)
      /\ Cat(d, e) \in Seq(Calls) /\ Cat(c, Cat(d, e)) \in Seq(Calls)
  BY <1>1
<1> QED BY <1>2, <1>3

LEMMA LastCall ==
    ASSUME NEW call \in Calls
    PROVE  /\ <<call>> = Cons(call, <<>>) /\ <<call>> \in Seq(Calls) /\ <<>> \in Seq(Calls)
           /\ If(TRUE, call) = Cons(call, <<>>) /\ If(FALSE, call) = <<>>
BY DEF Cons, If

LEMMA PlansTyped ==
    ASSUME NEW q
    PROVE  /\ AfterInsert(q) \in Seq(Calls) /\ AfterDefault(q) \in Seq(Calls)
           /\ BeforeInsert(q) \in Seq(Calls)
           /\ SaveTask \in Seq(Calls) /\ AfterClear(q) \in Seq(Calls)
           /\ AfterValidate(q) \in Seq(Calls) /\ AfterOld(q) \in Seq(Calls)
           /\ AfterStatus(q) \in Seq(Calls)
           /\ Cons("assign", <<>>) \in Seq(Calls) /\ Cons("assign", SaveTask) \in Seq(Calls)
           /\ Cons("write", <<>>) \in Seq(Calls)
<1>1. <<>> \in Seq(Calls) /\ \A call \in Calls : \A plan \in Seq(Calls) : Cons(call, plan) \in Seq(Calls)
  BY ConsFacts
<1>2. Calls = {"validate", "default", "insert", "clear", "assign", "status", "old", "select",
               "write", "delete", "statuses", "item", "commit", "putStatus", "dropStatus"}
  BY DEF Calls
<1>3. AfterInsert(q) \in Seq(Calls) /\ SaveTask \in Seq(Calls)
  BY <1>1, <1>2 DEF AfterInsert, SaveTask
<1>4. AfterDefault(q) \in Seq(Calls) /\ AfterClear(q) \in Seq(Calls)
  BY <1>1, <1>2, <1>3 DEF AfterDefault, AfterClear
<1>5. BeforeInsert(q) \in Seq(Calls) /\ AfterValidate(q) \in Seq(Calls)
  BY <1>1, <1>2, <1>4 DEF BeforeInsert, AfterValidate
<1>6. AfterOld(q) \in Seq(Calls)
  BY <1>1, <1>2, <1>5 DEF AfterOld
<1> QED BY <1>1, <1>2, <1>3, <1>4, <1>5, <1>6 DEF AfterStatus

LEMMA CreatePlans ==
    ASSUME NEW q
    PROVE  CreatePlan(q) = IF q.op = "subtask" /\ Names(q) THEN Cons("validate", BeforeInsert(q))
                           ELSE BeforeInsert(q)
<1> DEFINE val == If(q.op = "subtask" /\ Names(q), "validate")
           def == If(q.status = None, "default")
           saves == IF Names(q) THEN SaveAssigneesPlan(q) ELSE <<>>
<1>c. Calls = {"validate", "default", "insert", "clear", "assign", "status", "old", "select",
               "write", "delete", "statuses", "item", "commit", "putStatus", "dropStatus"}
  BY DEF Calls
<1>1. saves = AfterInsert(q)
  <2>1. ASSUME Names(q) PROVE SaveAssigneesPlan(q) = Cons("clear", Cons("assign", <<>>))
    <3>1. q.ids # <<>>
      BY <2>1 DEF Names
    <3>2. If(q.ids # <<>>, "assign") = Cons("assign", <<>>)
      BY <1>c, <3>1 DEF If, Cons
    <3> QED BY <3>2 DEF SaveAssigneesPlan, Cons
  <2> QED BY <2>1 DEF AfterInsert
<1>2. val \in Seq(Calls) /\ def \in Seq(Calls) /\ saves \in Seq(Calls) /\ <<"insert">> \in Seq(Calls)
  <2>1. val \in Seq(Calls) /\ def \in Seq(Calls)
    BY <1>c, IfFacts DEF Names
  <2>2. saves \in Seq(Calls)
    BY <1>1, PlansTyped
  <2>3. <<"insert">> \in Seq(Calls)
    BY <1>c, LastCall
  <2> QED BY <2>1, <2>2, <2>3
<1>3. CreatePlan(q) = ((val \o def) \o <<"insert">>) \o saves
  BY DEF CreatePlan
<1>v. \A plan \in Seq(Calls) :
        val \o plan = IF q.op = "subtask" /\ Names(q) THEN Cons("validate", plan) ELSE plan
  BY <1>c, IfFacts
<1>d. \A plan \in Seq(Calls) :
        def \o plan = IF q.status = None THEN Cons("default", plan) ELSE plan
  BY <1>c, IfFacts
<1> HIDE DEF val, def, saves
<1>4. ((val \o def) \o <<"insert">>) \o saves = val \o (def \o (<<"insert">> \o saves))
  <2>1. (val \o def) \in Seq(Calls) /\ <<"insert">> \o saves \in Seq(Calls)
    BY <1>2, ConcatApart
  <2>2. ((val \o def) \o <<"insert">>) \o saves = (val \o def) \o (<<"insert">> \o saves)
    BY <1>2, <2>1, ConcatApart
  <2>3. (val \o def) \o (<<"insert">> \o saves) = val \o (def \o (<<"insert">> \o saves))
    BY <1>2, <2>1, ConcatApart
  <2> QED BY <2>2, <2>3
<1>5. <<"insert">> \o saves = AfterDefault(q)
  BY <1>1 DEF AfterDefault, Cons
<1>6. def \o AfterDefault(q) = BeforeInsert(q)
  BY <1>d, PlansTyped DEF BeforeInsert
<1> QED BY <1>3, <1>4, <1>5, <1>6, <1>v, PlansTyped

LEMMA UpdatePlans ==
    ASSUME NEW q
    PROVE  UpdatePlan(q) = IF q.status # None THEN Cons("status", AfterStatus(q)) ELSE AfterStatus(q)
<1> DEFINE sta == If(q.status # None, "status")
           old == If(q.ids # Keep, "old")
           val == If(Names(q) /\ q.row.parent # None, "validate")
           saves == IF q.ids # Keep THEN SaveAssigneesPlan(q) ELSE <<>>
<1>c. Calls = {"validate", "default", "insert", "clear", "assign", "status", "old", "select",
               "write", "delete", "statuses", "item", "commit", "putStatus", "dropStatus"}
  BY DEF Calls
<1>0. SaveAssigneesPlan(q) = Cons("clear", If(q.ids # <<>>, "assign"))
  BY DEF SaveAssigneesPlan, Cons
<1>s. <<"select">> = SaveTask /\ SaveTask \in Seq(Calls)
  BY <1>c, LastCall, PlansTyped DEF SaveTask
<1>1. SaveAssigneesPlan(q) \in Seq(Calls) /\ SaveAssigneesPlan(q) \o SaveTask = AfterValidate(q)
  <2>1. If(q.ids # <<>>, "assign") \in Seq(Calls) /\ <<"clear">> \in Seq(Calls)
    BY <1>c, IfFacts, LastCall
  <2>2. (<<"clear">> \o If(q.ids # <<>>, "assign")) \o SaveTask
          = <<"clear">> \o (If(q.ids # <<>>, "assign") \o SaveTask)
    BY <1>s, <2>1, ConcatApart
  <2>3. If(q.ids # <<>>, "assign") \o SaveTask = AfterClear(q)
    BY <1>c, <1>s, IfFacts DEF AfterClear
  <2> QED BY <2>1, <2>2, <2>3, ConcatApart DEF SaveAssigneesPlan, AfterValidate, Cons
<1>2. /\ sta \in Seq(Calls) /\ old \in Seq(Calls) /\ val \in Seq(Calls) /\ saves \in Seq(Calls)
  BY <1>c, <1>1, IfFacts, LastCall
<1>3. UpdatePlan(q) = (((sta \o old) \o val) \o saves) \o SaveTask
  BY <1>s DEF UpdatePlan
<1>x. \A plan \in Seq(Calls) :
        /\ sta \o plan = IF q.status # None THEN Cons("status", plan) ELSE plan
        /\ old \o plan = IF q.ids # Keep THEN Cons("old", plan) ELSE plan
        /\ val \o plan = IF Names(q) /\ q.row.parent # None THEN Cons("validate", plan) ELSE plan
  BY <1>c, IfFacts
<1>4. saves \o SaveTask = IF q.ids # Keep THEN AfterValidate(q) ELSE SaveTask
  BY <1>1, <1>s
<1> HIDE DEF sta, old, val, saves
<1>5. (((sta \o old) \o val) \o saves) \o SaveTask = sta \o (old \o (val \o (saves \o SaveTask)))
  <2>1. Cat(Cat(Cat(Cat(sta, old), val), saves), SaveTask)
          = Cat(sta, Cat(old, Cat(val, Cat(saves, SaveTask))))
    BY <1>2, <1>s, CatFive
  <2> QED BY <2>1 DEF Cat
<1>6. val \o (saves \o SaveTask) = IF q.ids # Keep THEN AfterOld(q) ELSE SaveTask
  BY <1>4, <1>x, <1>s, PlansTyped DEF AfterOld, Names
<1>7. old \o (val \o (saves \o SaveTask)) = AfterStatus(q)
  BY <1>6, <1>x, PlansTyped DEF AfterStatus
<1> QED BY <1>3, <1>5, <1>7, <1>x, PlansTyped

LEMMA ItemsPlans ==
    ASSUME NEW items \in Seq(Item)
    PROVE  /\ ItemsPlan(items) \in Seq(Calls) /\ ItemsPlan(items) # <<>>
           /\ Head(ItemsPlan(items)) = IF items # <<>> THEN "item" ELSE "commit"
           /\ items # <<>> => Tail(ItemsPlan(items)) = ItemsPlan(Tail(items))
           /\ items = <<>> => Tail(ItemsPlan(items)) = <<>>
<1>1. Len(items) \in Nat /\ (items # <<>> => Len(items) > 0)
  OBVIOUS
<1>2. ItemsPlan(items) \in Seq(Calls) /\ Len(ItemsPlan(items)) = Len(items) + 1
  BY <1>1 DEF ItemsPlan, Calls
<1>3. Head(ItemsPlan(items)) = IF items # <<>> THEN "item" ELSE "commit"
  BY <1>1, <1>2 DEF ItemsPlan
<1>4. ASSUME items # <<>> PROVE Tail(ItemsPlan(items)) = ItemsPlan(Tail(items))
  <2> DEFINE s == Tail(ItemsPlan(items))
             t == ItemsPlan(Tail(items))
  <2>1. Tail(items) \in Seq(Item) /\ Len(Tail(items)) = Len(items) - 1
    BY <1>4
  <2>2. /\ s \in Seq(Calls) /\ Len(s) = Len(items)
        /\ \A i \in 1..Len(items) : s[i] = ItemsPlan(items)[i + 1]
    <3> DEFINE plan == ItemsPlan(items)
    <3>1. plan \in Seq(Calls) /\ Len(plan) = Len(items) + 1 /\ plan # <<>>
      BY <1>1, <1>2, EmptySeq
    <3> HIDE DEF plan
    <3>2. /\ Tail(plan) \in Seq(Calls) /\ Len(Tail(plan)) = Len(plan) - 1
          /\ \A i \in 1..Len(Tail(plan)) : Tail(plan)[i] = plan[i + 1]
      BY <3>1, HeadTailProperties
    <3> QED BY <1>1, <3>1, <3>2 DEF plan
  <2>3. t \in Seq(Calls) /\ Len(t) = Len(items)
    BY <1>1, <2>1 DEF ItemsPlan, Calls
  <2>4. \A i \in 1..Len(items) : s[i] = t[i]
    BY <1>1, <2>1, <2>2 DEF ItemsPlan
  <2> HIDE DEF s, t
  <2>5. s = t
    BY <2>2, <2>3, <2>4, SeqEqual
  <2> QED BY <2>5 DEF s, t
<1>5. ASSUME items = <<>> PROVE Tail(ItemsPlan(items)) = <<>>
  <2> DEFINE plan == ItemsPlan(items)
  <2>1. plan \in Seq(Calls) /\ Len(plan) = 1 /\ plan # <<>>
    BY <1>2, <1>5
  <2> HIDE DEF plan
  <2>2. Tail(plan) \in Seq(Calls) /\ Len(Tail(plan)) = 0
    BY <2>1, HeadTailProperties
  <2>3. Tail(plan) = <<>>
    BY <2>2, EmptySeq
  <2> QED BY <2>3 DEF plan
<1> QED BY <1>2, <1>3, <1>4, <1>5

LEMMA BulkPlans ==
    ASSUME NEW items \in Seq(Item)
    PROVE  BulkPlan(items) = IF \E i \in DOMAIN items : items[i].status # None
                             THEN Cons("statuses", ItemsPlan(items)) ELSE ItemsPlan(items)
<1> DEFINE asks == \E i \in DOMAIN items : items[i].status # None
           cards == [i \in DOMAIN items |-> "item"]
<1>1. cards \in Seq(Calls) /\ Len(cards) = Len(items) /\ \A i \in 1..Len(items) : cards[i] = "item"
  BY DEF Calls
<1>2. If(asks, "statuses") \in Seq(Calls) /\ <<"commit">> \in Seq(Calls)
  BY IfFacts, LastCall DEF Calls
<1>3. cards \o <<"commit">> = ItemsPlan(items)
  <2> HIDE DEF cards
  <2>1. cards \o <<"commit">> \in Seq(Calls) /\ ItemsPlan(items) \in Seq(Calls)
    BY <1>1, <1>2, ItemsPlans
  <2>2. Len(cards \o <<"commit">>) = Len(items) + 1 /\ Len(ItemsPlan(items)) = Len(items) + 1
    BY <1>1, <1>2, <2>1 DEF ItemsPlan
  <2>3. \A i \in 1..(Len(items) + 1) : (cards \o <<"commit">>)[i] = ItemsPlan(items)[i]
    BY <1>1, <1>2 DEF ItemsPlan
  <2> QED BY <2>1, <2>2, <2>3
<1>4. BulkPlan(items) = (If(asks, "statuses") \o cards) \o <<"commit">>
  BY DEF BulkPlan
<1> HIDE DEF asks, cards
<1>5. BulkPlan(items) = If(asks, "statuses") \o ItemsPlan(items)
  <2>1. (If(asks, "statuses") \o cards) \o <<"commit">>
          = If(asks, "statuses") \o (cards \o <<"commit">>)
    BY <1>1, <1>2, ConcatApart
  <2> QED BY <1>3, <1>4, <2>1
<1>6. If(asks, "statuses") \o ItemsPlan(items)
        = IF asks THEN Cons("statuses", ItemsPlan(items)) ELSE ItemsPlan(items)
  <2>1. asks \in BOOLEAN /\ "statuses" \in Calls
    BY DEF asks, Calls
  <2> QED BY <2>1, IfFacts, ItemsPlans
<1> QED BY <1>5, <1>6 DEF asks

-----------------------------------------------------------------------------
(* Lemmas about requests.                                                  *)

LEMMA StageFacts ==
    ASSUME NEW q \in Slot
    PROVE  /\ Stage(q) = "end" <=> q.plan = <<>>
           /\ Stage(q) \in Calls \cup {"end"}
           /\ \A call \in Calls : \A plan \in Seq(Calls) :
                 q.plan = Cons(call, plan) => Stage(q) = call /\ Tail(q.plan) = plan
<1>1. q.plan \in Seq(Calls) /\ "end" \notin Calls
  BY DEF Slot, Calls
<1>2. q.plan # <<>> => Head(q.plan) \in Calls
  BY <1>1
<1> QED BY <1>1, <1>2, ConsFacts DEF Stage

\* What a request is about to call tells what it was asked for.
LEMMA StageOps ==
    ASSUME NEW q \in Slot, Shape(q)
    PROVE  /\ Stage(q) \in {"default", "insert"} => q.op \in Creating
           /\ Stage(q) = "validate" => q.op \in {"subtask", "update"}
           /\ Stage(q) \in {"clear", "assign"} => q.op \in Creating \cup {"update"}
           /\ Stage(q) \in {"status", "old", "select", "write"} => q.op = "update"
           /\ Stage(q) = "delete" => q.op = "remove"
           /\ Stage(q) \in {"statuses", "item", "commit"} => q.op = "bulk"
           /\ Stage(q) = "putStatus" => q.op \in {"newStatus", "editStatus"}
           /\ Stage(q) = "dropStatus" => q.op = "dropStatus"
<1>1. /\ q.op = "none" => Stage(q) = "end"
      /\ q.op \in Creating => Stage(q) \in {"validate", "default", "insert", "clear", "assign", "end"}
      /\ q.op = "create" => Stage(q) # "validate"
  BY StageFacts DEF Shape, CreateShape, Creating
<1>2. q.op = "update" => Stage(q) \in {"status", "old", "validate", "clear", "assign", "select",
                                       "write", "end"}
  BY StageFacts DEF Shape, UpdateShape
<1>3. q.op = "bulk" => Stage(q) \in {"statuses", "item", "commit", "end"}
  BY StageFacts DEF Shape, BulkShape
<1>4. \A call \in Calls : OneCall(q, call) => Stage(q) \in {call, "end"}
  BY StageFacts, LastCall DEF OneCall
<1>5. {"delete", "putStatus", "dropStatus"} \subseteq Calls
  BY DEF Calls
<1>6. /\ q.op = "remove" => Stage(q) \in {"delete", "end"}
      /\ q.op \in {"newStatus", "editStatus"} => Stage(q) \in {"putStatus", "end"}
      /\ q.op = "dropStatus" => Stage(q) \in {"dropStatus", "end"}
  BY <1>4, <1>5 DEF Shape
<1>7. q.op \in Ops
  BY DEF Slot
<1> QED BY <1>1, <1>2, <1>3, <1>6, <1>7 DEF Ops, Creating

\* What a request keeps to its end.
Same(n, q) ==
    /\ n.op = q.op /\ n.task = q.task /\ n.parent = q.parent /\ n.ids = q.ids
    /\ n.before = q.before /\ n.items = q.items /\ n.alone = q.alone

LEMMA DoneFacts ==
    ASSUME NEW q \in Slot, q.plan # <<>>
    PROVE  /\ Done(q) \in Slot /\ Same(Done(q), q) /\ Done(q).plan = Tail(q.plan)
           /\ Done(q).status = q.status /\ Done(q).row = q.row /\ Done(q).dirty = q.dirty
           /\ Done(q).old = q.old /\ Done(q).left = q.left /\ Done(q).found = q.found
           /\ Done(q).completed = q.completed
<1>1. Tail(q.plan) \in Seq(Calls)
  BY DEF Slot
<1> QED BY <1>1 DEF Slot, Done, Same

LEMMA IdleFine ==
    ASSUME NEW rows, NEW people, NEW board, NEW gone
    PROVE  Idle \in Slot /\ Fine(Idle, rows, people, board, gone) /\ Idle.op = "none"
<1>1. NoTask \in Rows
  BY DEF NoTask, Rows
<1>2. <<>> \in Seq(Calls) /\ <<>> \in Seq(Item)
  OBVIOUS
<1>3. Idle \in Slot
  BY <1>1, <1>2 DEF Idle, Slot, Ops
<1>4. /\ Idle.op = "none" /\ Idle.plan = <<>> /\ Idle.task = None /\ Idle.items = <<>>
      /\ Idle.ids = Keep
  BY DEF Idle
<1>5. Shape(Idle)
  BY <1>4 DEF Shape, Creating
<1>6. Grounded(Idle, rows) /\ Undisputed(Idle, rows, people, board, gone)
  BY <1>4 DEF Grounded, Undisputed, Creating
<1> QED BY <1>3, <1>4, <1>5, <1>6 DEF Fine

LEMMA AtFacts ==
    ASSUME BoardInv, NEW r \in Requests, NEW call \in Calls, At(r, call)
    PROVE  /\ req[r] \in Slot /\ Fine(req[r], tasks, assigned, statuses, deleted) /\ Shape(req[r])
           /\ Stage(req[r]) = call /\ req[r].plan # <<>> /\ req[r].op # "none"
BY DEF BoardInv, Fine, At, InFlight, Stage

-----------------------------------------------------------------------------
(* What a step must do for its own request; the others are left as they    *)
(* were, or know that they are not alone.                                  *)

\* Of the slots of the others, nothing but alone may have changed.
OthersKept(r) ==
    \A q \in Requests \ {r} : /\ req'[q].op = req[q].op /\ req'[q].plan = req[q].plan
                              /\ req'[q].items = req[q].items /\ req'[q].task = req[q].task

LEMMA LocksKept ==
    ASSUME BoardInv, NEW r \in Requests, OthersKept(r),
           lock' \in [TaskIds -> Requests \cup {None}],
           \A t \in TaskIds : lock'[t] # r => lock'[t] \in {lock[t], None},
           \A t \in TaskIds : lock'[t] = r => Holds(req'[r], t)
    PROVE  LocksFine'
<1>1. ASSUME NEW t \in TaskIds, lock'[t] # None PROVE Holds(req'[lock'[t]], t)
  <2>1. CASE lock'[t] = r
    BY <2>1
  <2>2. CASE lock'[t] # r
    <3>1. lock'[t] = lock[t] /\ lock[t] \in Requests \ {r} /\ Holds(req[lock[t]], t)
      BY <1>1, <2>2 DEF BoardInv, LocksFine
    <3>2. Holds(req'[lock[t]], t)
      BY <3>1 DEF Holds, OthersKept, Stage
    <3> QED BY <3>1, <3>2
  <2> QED BY <2>1, <2>2
<1> QED BY <1>1 DEF LocksFine

\* A request has locks only at item and commit.
LEMMA NoLocks ==
    ASSUME BoardInv, NEW r \in Requests, Stage(req[r]) \notin {"item", "commit"}
    PROVE  \A t \in TaskIds : lock[t] # r
<1>1. None \notin Requests
  BY TaskConstants
<1> QED BY <1>1 DEF BoardInv, LocksFine, Holds

\* Nobody else creates the task of the slot.
Apart(r, slot) ==
    slot.op \in Creating =>
        \A q \in Requests \ {r} : req[q].op \in Creating => req[q].task # slot.task

LEMMA SameApart ==
    ASSUME BoardInv, NEW r \in Requests, NEW slot, Same(slot, req[r])
    PROVE  Apart(r, slot)
BY DEF BoardInv, CreatorsApart, Apart, Same

LEMMA ApartKept ==
    ASSUME BoardInv, NEW r \in Requests, OthersKept(r), Apart(r, req'[r])
    PROVE  CreatorsApart'
BY DEF BoardInv, CreatorsApart, Apart, OthersKept

\* A step that leaves the tables alone.
LEMMA PutKeeps ==
    ASSUME BoardInv, NEW r \in Requests, NEW slot \in Slot, Put(r, slot),
           UNCHANGED <<tasks, assigned, statuses, deleted>>,
           Fine(slot, tasks, assigned, statuses, deleted), Apart(r, slot),
           lock' \in [TaskIds -> Requests \cup {None}],
           \A t \in TaskIds : lock'[t] # r => lock'[t] \in {lock[t], None},
           \A t \in TaskIds : lock'[t] = r => Holds(slot, t),
           served' \in 0..MaxServed
    PROVE  BoardInv'
<1>1. req' \in [Requests -> Slot] /\ req'[r] = slot /\ \A q \in Requests \ {r} : req'[q] = req[q]
  BY DEF BoardInv, Put
<1>2. OthersKept(r)
  BY <1>1 DEF OthersKept
<1>3. LocksFine'
  BY <1>1, <1>2, LocksKept
<1>4. CreatorsApart'
  BY <1>1, <1>2, ApartKept
<1>5. \A q \in Requests : Fine(req'[q], tasks', assigned', statuses', deleted')
  BY <1>1 DEF BoardInv
<1> QED BY <1>1, <1>3, <1>4, <1>5 DEF BoardInv

\* Rows stay, with their parents, and only a request that creates a task inserts it.
RowsKept(r, slot) ==
    \A t \in TaskIds :
        /\ tasks[t].life # "none" => tasks'[t].life # "none" /\ tasks'[t].parent = tasks[t].parent
        /\ tasks[t].life = "none" /\ tasks'[t].life # "none" =>
              slot.op \in Creating /\ slot.task = t

LEMMA OthersGrounded ==
    ASSUME BoardInv, NEW r \in Requests, NEW slot, Apart(r, slot), RowsKept(r, slot),
           NEW q \in Requests \ {r}
    PROVE  Grounded(req[q], tasks')
<1>1. req[q] \in Slot /\ Shape(req[q]) /\ Grounded(req[q], tasks)
  BY DEF BoardInv, Fine
<1>2. req[q].op \in Creating \cup {"update", "remove"} => req[q].task \in TaskIds
  BY <1>1 DEF Shape
<1>3. ASSUME req[q].op \in Creating
      PROVE  IF Stage(req[q]) \in ToInsert THEN tasks'[req[q].task].life = "none"
             ELSE tasks'[req[q].task].life # "none" /\ tasks'[req[q].task].parent = req[q].parent
  <2>1. req[q].task \in TaskIds /\ ~(slot.op \in Creating /\ slot.task = req[q].task)
    BY <1>2, <1>3 DEF Apart
  <2> QED BY <1>1, <1>3, <2>1 DEF Grounded, RowsKept
<1>4. req[q].op = "update" \/ req[q].op = "remove" => req[q].task \in TaskIds
  BY <1>2
<1> QED BY <1>1, <1>3, <1>4 DEF Grounded, RowsKept

LEMMA DisputedFine ==
    ASSUME NEW q \in Slot, Shape(q), NEW others \in BOOLEAN,
           NEW rows, NEW people, NEW board, NEW gone, Grounded(q, rows), others \/ q.op = "none"
    PROVE  /\ [q EXCEPT !.alone = ~others] \in Slot
           /\ Fine([q EXCEPT !.alone = ~others], rows, people, board, gone)
<1> DEFINE n == [q EXCEPT !.alone = ~others]
<1>1. n \in Slot /\ n.alone = ~others
  BY DEF Slot
<1>2. /\ Same([n EXCEPT !.alone = q.alone], q) /\ n.op = q.op /\ n.plan = q.plan /\ n.task = q.task
      /\ n.parent = q.parent /\ n.status = q.status /\ n.ids = q.ids /\ n.row = q.row
      /\ n.old = q.old /\ n.before = q.before /\ n.items = q.items /\ n.left = q.left
      /\ n.found = q.found
  BY DEF Slot, Same
<1>3. Stage(n) = Stage(q) /\ Names(n) = Names(q)
  BY <1>2 DEF Stage, Names
<1> HIDE DEF n
<1>4. /\ AfterInsert(n) = AfterInsert(q) /\ AfterDefault(n) = AfterDefault(q)
      /\ BeforeInsert(n) = BeforeInsert(q) /\ AfterClear(n) = AfterClear(q)
      /\ AfterValidate(n) = AfterValidate(q) /\ AfterOld(n) = AfterOld(q)
      /\ AfterStatus(n) = AfterStatus(q) /\ Written(n) = Written(q)
  BY <1>2, <1>3 DEF AfterInsert, AfterDefault, BeforeInsert, AfterClear, AfterValidate, AfterOld,
                    AfterStatus, Written
<1>5. Shape(n)
  <2>1. CreateShape(n) = CreateShape(q)
    BY <1>2, <1>3, <1>4 DEF CreateShape
  <2>2. UpdateShape(n) = UpdateShape(q)
    BY <1>2, <1>3, <1>4 DEF UpdateShape
  <2>3. BulkShape(q) => BulkShape(n)
    BY <1>2, <1>3, <1>4 DEF BulkShape
  <2>4. \A call : OneCall(n, call) = OneCall(q, call)
    BY <1>2 DEF OneCall
  <2> QED BY <1>2, <2>1, <2>2, <2>3, <2>4 DEF Shape
<1>6. Grounded(n, rows)
  BY <1>2, <1>3 DEF Grounded
<1>7. n.alone => Undisputed(n, rows, people, board, gone)
  <2> HAVE n.alone
  <2>1. n.op = "none"
    BY <1>1, <1>2
  <2> QED BY <2>1 DEF Undisputed, Creating
<1>8. n \in Slot /\ Fine(n, rows, people, board, gone)
  BY <1>1, <1>5, <1>6, <1>7 DEF Fine
<1> QED BY <1>8 DEF n

\* A step that writes.
LEMMA WriteKeeps ==
    ASSUME BoardInv, NEW r \in Requests, NEW slot \in Slot, PutWriting(r, slot),
           Tables(tasks', assigned', statuses'), RowsKept(r, slot),
           Fine(slot, tasks', assigned', statuses', deleted'), Apart(r, slot),
           lock' \in [TaskIds -> Requests \cup {None}],
           \A t \in TaskIds : lock'[t] # r => lock'[t] \in {lock[t], None},
           \A t \in TaskIds : lock'[t] = r => Holds(slot, t),
           UNCHANGED <<served, deleted>>
    PROVE  BoardInv'
<1>1. req'[r] = slot /\ \A q \in Requests \ {r} : req'[q] = [req[q] EXCEPT !.alone = ~InFlight(q)]
  BY DEF PutWriting
<1>2. ASSUME NEW q \in Requests \ {r}
      PROVE  /\ req'[q] \in Slot /\ Fine(req'[q], tasks', assigned', statuses', deleted')
             /\ req'[q].op = req[q].op /\ req'[q].plan = req[q].plan
             /\ req'[q].items = req[q].items /\ req'[q].task = req[q].task
  <2>1. req[q] \in Slot /\ Shape(req[q]) /\ Grounded(req[q], tasks')
    BY OthersGrounded DEF BoardInv, Fine
  <2>2. InFlight(q) \in BOOLEAN /\ (InFlight(q) \/ req[q].op = "none")
    BY DEF InFlight
  <2>a. /\ [req[q] EXCEPT !.alone = ~InFlight(q)] \in Slot
        /\ Fine([req[q] EXCEPT !.alone = ~InFlight(q)], tasks', assigned', statuses', deleted')
    BY <2>1, <2>2, DisputedFine
  <2>3. req'[q] \in Slot /\ Fine(req'[q], tasks', assigned', statuses', deleted')
    BY <1>1, <2>a
  <2>4. /\ req'[q].op = req[q].op /\ req'[q].plan = req[q].plan
        /\ req'[q].items = req[q].items /\ req'[q].task = req[q].task
    BY <1>1, <2>1 DEF Slot
  <2> QED BY <2>3, <2>4
<1>3. req' \in [Requests -> Slot]
  <2>1. DOMAIN req' = Requests /\ req' = [q \in Requests |-> req'[q]]
    BY DEF PutWriting
  <2> QED BY <1>1, <1>2, <2>1
<1>4. OthersKept(r)
  BY <1>2 DEF OthersKept
<1>5. LocksFine'
  BY <1>1, <1>4, LocksKept
<1>6. CreatorsApart'
  BY <1>1, <1>4, ApartKept
<1>7. \A q \in Requests : Fine(req'[q], tasks', assigned', statuses', deleted')
  BY <1>1, <1>2
<1> QED BY <1>3, <1>5, <1>6, <1>7 DEF BoardInv

LEMMA FinishKeeps ==
    ASSUME BoardInv, NEW r \in Requests, Finish(r),
           UNCHANGED <<tasks, assigned, statuses, served, deleted>>,
           lock' = Unlocked(r) \/ (UNCHANGED lock /\ Stage(req[r]) \notin {"item", "commit"})
    PROVE  BoardInv'
<1>1. Idle \in Slot /\ Fine(Idle, tasks, assigned, statuses, deleted) /\ Apart(r, Idle)
  BY IdleFine DEF Apart, Creating
<1>2. lock \in [TaskIds -> Requests \cup {None}] /\ None \notin Requests
  BY TaskConstants DEF BoardInv, LocksFine
<1>3. /\ lock' \in [TaskIds -> Requests \cup {None}]
      /\ \A t \in TaskIds : lock'[t] # r /\ lock'[t] \in {lock[t], None}
  <2>1. CASE lock' = Unlocked(r)
    BY <1>2, <2>1 DEF Unlocked
  <2>2. CASE UNCHANGED lock /\ Stage(req[r]) \notin {"item", "commit"}
    BY <1>2, <2>2, NoLocks
  <2> QED BY <2>1, <2>2
<1>4. Put(r, Idle) /\ served' \in 0..MaxServed
  BY DEF Finish, BoardInv
<1> QED BY <1>1, <1>3, <1>4, PutKeeps

LEMMA StepsOn ==
    ASSUME BoardInv, NEW r \in Requests, NEW slot \in Slot, Put(r, slot),
           UNCHANGED <<tasks, assigned, statuses, lock, served, deleted>>,
           Fine(slot, tasks, assigned, statuses, deleted), Same(slot, req[r]),
           Stage(req[r]) \notin {"item", "commit"}
    PROVE  BoardInv'
<1>1. /\ lock' \in [TaskIds -> Requests \cup {None}]
      /\ \A t \in TaskIds : lock'[t] # r /\ lock'[t] = lock[t]
  BY NoLocks DEF BoardInv, LocksFine
<1>2. Apart(r, slot) /\ served' \in 0..MaxServed
  BY SameApart DEF BoardInv
<1> QED BY <1>1, <1>2, PutKeeps

LEMMA WritesOn ==
    ASSUME BoardInv, NEW r \in Requests, NEW slot \in Slot, PutWriting(r, slot),
           UNCHANGED <<lock, served, deleted>>,
           Tables(tasks', assigned', statuses'), RowsKept(r, slot),
           Fine(slot, tasks', assigned', statuses', deleted'), Same(slot, req[r]),
           Stage(req[r]) \notin {"item", "commit"}
    PROVE  BoardInv'
<1>1. /\ lock' \in [TaskIds -> Requests \cup {None}]
      /\ \A t \in TaskIds : lock'[t] # r /\ lock'[t] = lock[t]
  BY NoLocks DEF BoardInv, LocksFine
<1>2. Apart(r, slot) /\ UNCHANGED <<served, deleted>>
  BY SameApart
<1> QED BY <1>1, <1>2, WriteKeeps

-----------------------------------------------------------------------------
(* Creation.                                                               *)

LEMMA FindDefaultKeeps ==
    ASSUME BoardInv, NEW r \in Requests, FindDefault(r)
    PROVE  BoardInv'
<1> DEFINE q == req[r]
<1>1. /\ q \in Slot /\ Fine(q, tasks, assigned, statuses, deleted) /\ Stage(q) = "default"
      /\ q.plan # <<>> /\ Shape(q)
  BY AtFacts DEF FindDefault, Calls
<1>2. PICK s \in StatusIds \cup {None} : Put(r, [Done(q) EXCEPT !.status = s])
  BY DEF FindDefault, LiveStatus
<1> DEFINE n == [Done(q) EXCEPT !.status = s]
<1>3. n \in Slot /\ Same(n, q) /\ n.plan = Tail(q.plan) /\ n.old = q.old
  BY <1>1, DoneFacts DEF Slot, Same
<1>4. Put(r, n)
  BY <1>2
<1> HIDE DEF q, n
<1>5. q.op \in Creating
  BY <1>1, StageOps
<1>6. q.plan = Cons("default", AfterDefault(q)) /\ "default" \in Calls /\ "insert" \in Calls
  BY <1>1, <1>5 DEF Shape, CreateShape, Calls
<1>7. n.plan = AfterDefault(q) /\ AfterDefault(q) = AfterDefault(n) /\ Stage(n) = "insert"
  <2>1. n.plan = AfterDefault(q)
    BY <1>1, <1>3, <1>6, StageFacts, PlansTyped
  <2>2. AfterInsert(n) = AfterInsert(q) /\ AfterDefault(q) = AfterDefault(n)
    BY <1>3 DEF AfterDefault, AfterInsert, Names, Same
  <2>3. Stage(n) = "insert"
    BY <1>3, <1>6, <2>1, StageFacts, PlansTyped DEF AfterDefault
  <2> QED BY <2>1, <2>2, <2>3
<1>8. Shape(n)
  BY <1>1, <1>3, <1>5, <1>7 DEF Shape, CreateShape, Creating, Same
<1>9. Grounded(n, tasks)
  BY <1>1, <1>3, <1>5, <1>7 DEF Fine, Grounded, Creating, Same, ToInsert
<1>10. n.alone => Undisputed(n, tasks, assigned, statuses, deleted)
  BY <1>1, <1>3, <1>5, <1>7 DEF Fine, Undisputed, CreateUndisputed, Creating, Same, WithinParent
<1>11. Fine(n, tasks, assigned, statuses, deleted)
  BY <1>8, <1>9, <1>10 DEF Fine
<1>12. UNCHANGED <<tasks, assigned, statuses, lock, served, deleted>>
  BY DEF FindDefault
<1> QED BY <1>1, <1>3, <1>4, <1>11, <1>12, StepsOn DEF q

LEMMA InsertTaskKeeps ==
    ASSUME BoardInv, NEW r \in Requests, InsertTask(r)
    PROVE  BoardInv'
<1> DEFINE q == req[r]
           n == Done(q)
           row == [NoTask EXCEPT !.life = "live", !.parent = q.parent, !.status = q.status]
<1>1. /\ q \in Slot /\ Fine(q, tasks, assigned, statuses, deleted) /\ Stage(q) = "insert"
      /\ q.plan # <<>> /\ Shape(q)
  BY AtFacts DEF InsertTask, Calls
<1>2. n \in Slot /\ Same(n, q) /\ n.plan = Tail(q.plan) /\ n.old = q.old
  BY <1>1, DoneFacts
<1>3. PutWriting(r, n) /\ tasks' = [tasks EXCEPT ![q.task] = row]
      /\ UNCHANGED <<assigned, statuses, lock, served, deleted>>
  BY DEF InsertTask
<1>4. row \in Rows /\ row.life = "live" /\ row.parent = q.parent
  BY <1>1 DEF NoTask, Rows, Slot
<1> HIDE DEF q, n, row
<1>5. q.op \in Creating /\ q.task \in TaskIds
  BY <1>1, StageOps DEF Shape
<1>6. q.plan = Cons("insert", AfterInsert(q)) /\ "insert" \in Calls
  BY <1>1, <1>5 DEF Shape, CreateShape, AfterDefault, Calls
<1>7. /\ n.plan = AfterInsert(n) /\ Names(n) = Names(q)
      /\ Stage(n) = IF Names(n) THEN "clear" ELSE "end"
  <2>1. n.plan = AfterInsert(q)
    BY <1>1, <1>2, <1>6, StageFacts, PlansTyped
  <2>2. AfterInsert(n) = AfterInsert(q) /\ Names(n) = Names(q)
    BY <1>2 DEF AfterInsert, Names, Same
  <2>3. Stage(n) = IF Names(n) THEN "clear" ELSE "end"
    BY <1>2, <2>1, <2>2, StageFacts, PlansTyped DEF AfterInsert, Calls
  <2> QED BY <2>1, <2>2, <2>3
<1>8. Shape(n)
  BY <1>1, <1>2, <1>5, <1>7 DEF Shape, CreateShape, Creating, Same, AfterInsert
<1>a. /\ tasks' \in [TaskIds -> Rows] /\ tasks'[q.task] = row
      /\ \A t \in TaskIds \ {q.task} : tasks'[t] = tasks[t]
  BY <1>3, <1>4, <1>5 DEF BoardInv, Tables
<1>b. tasks[q.task].life = "none"
  BY <1>1, <1>5 DEF Fine, Grounded, ToInsert
<1>9. Grounded(n, tasks')
  BY <1>1, <1>2, <1>4, <1>5, <1>7, <1>a DEF Fine, Grounded, Creating, Same, ToInsert
<1>10. n.alone => Undisputed(n, tasks', assigned', statuses', deleted')
  <2>1. ~Names(n) => Named(n.ids) = {}
    BY <1>1, <1>2, <1>5 DEF Shape, Names, Same, Named
  <2> QED BY <1>1, <1>2, <1>3, <1>5, <1>7, <2>1
          DEF Fine, Undisputed, CreateUndisputed, Creating, Same, WithinParent
<1>11. Fine(n, tasks', assigned', statuses', deleted')
  BY <1>8, <1>9, <1>10 DEF Fine
<1>12. Tables(tasks', assigned', statuses')
  BY <1>3, <1>4, <1>a DEF BoardInv, Tables
<1>13. RowsKept(r, n)
  BY <1>2, <1>5, <1>a, <1>b DEF RowsKept, Same
<1> QED BY <1>1, <1>2, <1>3, <1>11, <1>12, <1>13, WritesOn DEF q

-----------------------------------------------------------------------------
(* Update.                                                                 *)

LEMMA UpdateGoesOn ==
    ASSUME NEW q \in Slot, NEW n \in Slot, Shape(q), q.op = "update", Same(n, q), UpdateShape(n)
    PROVE  Shape(n)
BY DEF Shape, Same, Creating

LEMMA FindStatusKeeps ==
    ASSUME BoardInv, NEW r \in Requests, FindStatus(r)
    PROVE  BoardInv'
<1> DEFINE q == req[r]
           s == q.status
           n == [Done(q) EXCEPT !.row.status = s, !.row.done = statuses[s].completed]
<1>1. /\ q \in Slot /\ Fine(q, tasks, assigned, statuses, deleted) /\ Stage(q) = "status"
      /\ q.plan # <<>> /\ Shape(q)
  BY AtFacts DEF FindStatus, Calls
<1>u. UNCHANGED <<tasks, assigned, statuses, lock, served, deleted>>
  BY DEF FindStatus
<1>2. CASE ~LiveStatus(s)
  BY <1>1, <1>2, <1>u, FinishKeeps DEF FindStatus
<1>3. CASE LiveStatus(s)
  <2>1. Put(r, n)
    BY <1>3 DEF FindStatus
  <2>2. s \in StatusIds /\ statuses[s].completed \in BOOLEAN
    BY <1>3 DEF LiveStatus, BoardInv, Tables, StatusRow
  <2>3. Done(q) \in Slot /\ Same(Done(q), q) /\ Done(q).plan = Tail(q.plan) /\ Done(q).row = q.row
        /\ Done(q).status = q.status
    BY <1>1, DoneFacts
  <2>4. n \in Slot /\ Same(n, q) /\ n.plan = Tail(q.plan) /\ n.status = q.status
    BY <2>2, <2>3 DEF Slot, Same, Rows
  <2>5. n.row.status = s /\ n.row.done = statuses[s].completed
        /\ n.row.parent = q.row.parent /\ n.row.life = q.row.life
    BY <2>3 DEF Slot, Rows
  <2> HIDE DEF q, n
  <2>6. q.op = "update"
    BY <1>1, StageOps
  <2>7. q.plan = Cons("status", AfterStatus(q)) /\ "status" \in Calls /\ q.status # None
    BY <1>1, <2>6 DEF Shape, UpdateShape, Calls
  <2>8. n.plan = AfterStatus(q)
    BY <1>1, <2>4, <2>7, StageFacts, PlansTyped
  <2>9. AfterStatus(n) = AfterStatus(q) /\ AfterOld(n) = AfterOld(q)
    BY <2>4, <2>5 DEF AfterStatus, AfterOld, AfterValidate, AfterClear, Names, Same
  <2>10. Stage(n) = IF n.ids # Keep THEN "old" ELSE "select"
    <3>1. {"old", "select"} \subseteq Calls /\ <<>> \in Seq(Calls)
      BY DEF Calls
    <3> QED BY <2>4, <2>8, <2>9, <3>1, StageFacts, PlansTyped DEF AfterStatus, SaveTask
  <2>11. UpdateShape(n)
    BY <2>8, <2>9, <2>10, TaskConstants DEF UpdateShape, AfterStatus
  <2>12. Grounded(n, tasks)
    BY <1>1, <2>4, <2>5, <2>6 DEF Fine, Grounded, Creating, Same
  <2>13. n.alone => Undisputed(n, tasks, assigned, statuses, deleted)
    <3> HAVE n.alone
    <3>1. Undisputed(q, tasks, assigned, statuses, deleted)
      BY <1>1, <2>4 DEF Fine, Same
    <3>2. n.ids \notin {None, Keep} => UpdateAssignees(n, assigned, deleted)
      BY <1>1, <2>4, <2>6, <2>10, <3>1
         DEF Undisputed, UpdateUndisputed, UpdateAssignees, Same
    <3> QED BY <2>2, <2>4, <2>5, <2>6, <2>10, <3>2
            DEF Undisputed, UpdateUndisputed, Creating, Same
  <2>14. Fine(n, tasks, assigned, statuses, deleted)
    BY <1>1, <2>4, <2>6, <2>11, <2>12, <2>13, UpdateGoesOn DEF Fine
  <2> QED BY <1>1, <1>u, <2>1, <2>4, <2>14, StepsOn DEF q
<1> QED BY <1>2, <1>3

LEMMA OldAssigneesKeeps ==
    ASSUME BoardInv, NEW r \in Requests, OldAssignees(r)
    PROVE  BoardInv'
<1> DEFINE q == req[r]
           n == [Done(q) EXCEPT !.old = assigned[q.task] \ deleted]
<1>1. /\ q \in Slot /\ Fine(q, tasks, assigned, statuses, deleted) /\ Stage(q) = "old"
      /\ q.plan # <<>> /\ Shape(q)
  BY AtFacts DEF OldAssignees, Calls
<1>2. UNCHANGED <<tasks, assigned, statuses, lock, served, deleted>> /\ Put(r, n)
  BY DEF OldAssignees
<1>3. q.op = "update" /\ q.task \in TaskIds
  BY <1>1, StageOps DEF Shape
<1>4. assigned[q.task] \in SUBSET Users
  BY <1>3 DEF BoardInv, Tables
<1>5. /\ n \in Slot /\ Same(n, q) /\ n.plan = Tail(q.plan) /\ n.status = q.status
      /\ n.row = q.row /\ n.old = assigned[q.task] \ deleted
  BY <1>1, <1>4, DoneFacts DEF Slot, Same
<1> HIDE DEF q, n
<1>6. q.plan = Cons("old", AfterOld(q)) /\ "old" \in Calls /\ q.ids # Keep
  BY <1>1, <1>3 DEF Shape, UpdateShape, Calls
<1>7. n.plan = AfterOld(q)
  BY <1>1, <1>5, <1>6, StageFacts, PlansTyped
<1>8. /\ AfterOld(n) = AfterOld(q) /\ AfterValidate(n) = AfterValidate(q)
      /\ Names(n) = Names(q)
  BY <1>5 DEF AfterOld, AfterValidate, AfterClear, Names, Same
<1>9. Stage(n) = IF Names(n) /\ n.row.parent # None THEN "validate" ELSE "clear"
  <2>1. {"validate", "clear"} \subseteq Calls /\ <<>> \in Seq(Calls)
    BY DEF Calls
  <2> QED BY <1>5, <1>7, <1>8, <2>1, StageFacts, PlansTyped DEF AfterOld, AfterValidate
<1>10. UpdateShape(n)
  BY <1>5, <1>6, <1>7, <1>8, <1>9 DEF UpdateShape, AfterOld, Same
<1>11. Grounded(n, tasks)
  BY <1>1, <1>3, <1>5 DEF Fine, Grounded, Creating, Same
<1>12. n.alone => Undisputed(n, tasks, assigned, statuses, deleted)
  <2> HAVE n.alone
  <2>1. Undisputed(q, tasks, assigned, statuses, deleted)
    BY <1>1, <1>5 DEF Fine, Same
  <2>2. Stage(n) = "clear" => WithinParent(n, n.row.parent, assigned)
    <3>1. ~Names(n) => Named(n.ids) = {}
      BY <1>5, <1>6 DEF Names, Named, Same
    <3> QED BY <1>9, <3>1, TaskConstants DEF WithinParent
  <2>3. n.ids \notin {None, Keep} => UpdateAssignees(n, assigned, deleted)
    <3> HAVE n.ids \notin {None, Keep}
    <3>1. UpdateAssignees(q, assigned, deleted)
      BY <1>3, <1>5, <2>1 DEF Undisputed, UpdateUndisputed, Same
    <3>2. assigned[n.task] = n.before /\ n.old \ deleted = n.before \ deleted
      BY <1>1, <1>5, <3>1 DEF UpdateAssignees, Same
    <3> QED BY <1>9, <2>2, <3>2 DEF UpdateAssignees
  <2> QED BY <1>1, <1>3, <1>5, <1>9, <2>1, <2>3
          DEF Undisputed, UpdateUndisputed, Creating, Same
<1>13. Fine(n, tasks, assigned, statuses, deleted)
  BY <1>1, <1>3, <1>5, <1>10, <1>11, <1>12, UpdateGoesOn DEF Fine
<1> QED BY <1>1, <1>2, <1>5, <1>13, StepsOn DEF q

LEMMA ValidateAssigneesKeeps ==
    ASSUME BoardInv, NEW r \in Requests, ValidateAssignees(r)
    PROVE  BoardInv'
<1> DEFINE q == req[r]
           n == Done(q)
           parent == ParentOf(q)
           ok == /\ q.ids # None
                 /\ AssigneesOf(parent) = {} \/ Named(q.ids) \subseteq AssigneesOf(parent)
<1>1. /\ q \in Slot /\ Fine(q, tasks, assigned, statuses, deleted) /\ Stage(q) = "validate"
      /\ q.plan # <<>> /\ Shape(q)
  BY AtFacts DEF ValidateAssignees, Calls
<1>u. UNCHANGED <<tasks, assigned, statuses, lock, served, deleted>>
  BY DEF ValidateAssignees
<1>2. CASE ~ok
  BY <1>1, <1>2, <1>u, FinishKeeps DEF ValidateAssignees
<1>3. CASE ok
  <2>1. Put(r, n)
    BY <1>3 DEF ValidateAssignees
  <2>2. /\ n \in Slot /\ Same(n, q) /\ n.plan = Tail(q.plan) /\ n.status = q.status
        /\ n.row = q.row /\ n.old = q.old
    BY <1>1, DoneFacts
  <2>3. WithinParent(n, parent, assigned) /\ q.ids # None
    BY <1>3, <2>2 DEF WithinParent, AssigneesOf, Same
  <2>4. \/ q.op = "subtask" /\ parent = q.parent
        \/ q.op = "update" /\ parent = q.row.parent
    BY <1>1, StageOps DEF ParentOf
  <2> HIDE DEF q, n, parent, ok
  <2>5. "validate" \in Calls /\ "default" \in Calls /\ "insert" \in Calls /\ "clear" \in Calls
    BY DEF Calls
  <2>6. CASE q.op = "subtask" /\ parent = q.parent
    <3>1. n.plan = BeforeInsert(q)
      <4>1. q.plan = Cons("validate", BeforeInsert(q))
        BY <1>1, <2>6 DEF Shape, CreateShape, Creating
      <4> QED BY <1>1, <2>2, <2>5, <4>1, StageFacts, PlansTyped
    <3>2. BeforeInsert(n) = BeforeInsert(q) /\ AfterDefault(n) = AfterDefault(q)
      BY <2>2 DEF BeforeInsert, AfterDefault, AfterInsert, Names, Same
    <3>3. Stage(n) = IF n.status = None THEN "default" ELSE "insert"
      BY <2>2, <2>5, <3>1, <3>2, StageFacts, PlansTyped DEF BeforeInsert, AfterDefault
    <3>4. Shape(n)
      BY <1>1, <2>2, <2>6, <3>1, <3>2, <3>3 DEF Shape, CreateShape, Creating, Same, BeforeInsert
    <3>5. Grounded(n, tasks)
      BY <1>1, <2>2, <2>6, <3>3 DEF Fine, Grounded, Creating, Same, ToInsert
    <3>6. n.alone => Undisputed(n, tasks, assigned, statuses, deleted)
      BY <1>1, <2>2, <2>3, <2>6, <3>3
         DEF Fine, Undisputed, CreateUndisputed, Creating, Same
    <3>7. Fine(n, tasks, assigned, statuses, deleted)
      BY <3>4, <3>5, <3>6 DEF Fine
    <3> QED BY <1>1, <1>u, <2>1, <2>2, <3>7, StepsOn DEF q
  <2>7. CASE q.op = "update" /\ parent = q.row.parent
    <3>1. n.plan = AfterValidate(q) /\ Names(q)
      <4>1. q.plan = Cons("validate", AfterValidate(q)) /\ Names(q)
        BY <1>1, <2>7 DEF Shape, UpdateShape
      <4> QED BY <1>1, <2>2, <2>5, <4>1, StageFacts, PlansTyped
    <3>2. AfterValidate(n) = AfterValidate(q) /\ n.ids # Keep
      BY <2>2, <3>1 DEF AfterValidate, AfterClear, Names, Same
    <3>3. Stage(n) = "clear"
      BY <2>2, <2>5, <3>1, StageFacts, PlansTyped DEF AfterValidate
    <3>4. UpdateShape(n)
      BY <3>1, <3>2, <3>3 DEF UpdateShape
    <3>5. Grounded(n, tasks)
      BY <1>1, <2>2, <2>7 DEF Fine, Grounded, Creating, Same
    <3>6. n.alone => Undisputed(n, tasks, assigned, statuses, deleted)
      <4> HAVE n.alone
      <4>1. Undisputed(q, tasks, assigned, statuses, deleted)
        BY <1>1, <2>2 DEF Fine, Same
      <4>2. UpdateAssignees(n, assigned, deleted)
        BY <1>1, <2>2, <2>3, <2>7, <3>2, <3>3, <4>1
           DEF Undisputed, UpdateUndisputed, UpdateAssignees, Same
      <4> QED BY <1>1, <2>2, <2>7, <3>3, <4>1, <4>2
              DEF Undisputed, UpdateUndisputed, Creating, Same
    <3>7. Fine(n, tasks, assigned, statuses, deleted)
      BY <1>1, <2>2, <2>7, <3>4, <3>5, <3>6, UpdateGoesOn DEF Fine
    <3> QED BY <1>1, <1>u, <2>1, <2>2, <3>7, StepsOn DEF q
  <2> QED BY <2>4, <2>6, <2>7
<1> QED BY <1>2, <1>3

\* Who is assigned to one task may change: a lemma on the tables.
LEMMA AssignedTables ==
    ASSUME BoardInv, NEW t \in TaskIds, NEW people \in SUBSET Users,
           people # {} => tasks[t].life # "none",
           assigned' = [assigned EXCEPT ![t] = people], UNCHANGED <<tasks, statuses>>
    PROVE  /\ Tables(tasks', assigned', statuses') /\ assigned'[t] = people
           /\ \A u \in TaskIds \ {t} : assigned'[u] = assigned[u]
           /\ \A r, slot : RowsKept(r, slot)
BY DEF BoardInv, Tables, RowsKept

LEMMA ClearAssigneesKeeps ==
    ASSUME BoardInv, NEW r \in Requests, ClearAssignees(r)
    PROVE  BoardInv'
<1> DEFINE q == req[r]
           n == Done(q)
<1>1. /\ q \in Slot /\ Fine(q, tasks, assigned, statuses, deleted) /\ Stage(q) = "clear"
      /\ q.plan # <<>> /\ Shape(q)
  BY AtFacts DEF ClearAssignees, Calls
<1>2. /\ n \in Slot /\ Same(n, q) /\ n.plan = Tail(q.plan) /\ n.status = q.status
      /\ n.row = q.row /\ n.old = q.old
  BY <1>1, DoneFacts
<1>3. /\ PutWriting(r, IF q.ids = None THEN Idle ELSE n)
      /\ assigned' = [assigned EXCEPT ![q.task] = {}]
      /\ UNCHANGED <<tasks, statuses, lock, served, deleted>>
  BY DEF ClearAssignees
<1>n. q.ids # None => PutWriting(r, n)
  BY <1>3
<1> HIDE DEF q, n
<1>4. q.op \in Creating \cup {"update"} /\ q.task \in TaskIds
  BY <1>1, StageOps DEF Shape
<1>5. /\ Tables(tasks', assigned', statuses') /\ assigned'[q.task] = {}
      /\ RowsKept(r, n) /\ RowsKept(r, Idle)
      /\ \A u \in TaskIds \ {q.task} : assigned'[u] = assigned[u]
  <2> DEFINE nobody == {}
  <2>1. nobody \in SUBSET Users /\ (nobody # {} => tasks[q.task].life # "none")
        /\ assigned' = [assigned EXCEPT ![q.task] = nobody]
    BY <1>3
  <2> HIDE DEF nobody
  <2>2. /\ Tables(tasks', assigned', statuses') /\ assigned'[q.task] = nobody
        /\ RowsKept(r, n) /\ RowsKept(r, Idle)
        /\ \A u \in TaskIds \ {q.task} : assigned'[u] = assigned[u]
    BY <1>3, <1>4, <2>1, AssignedTables
  <2> QED BY <2>2 DEF nobody
<1>6. {"clear", "assign", "select"} \subseteq Calls /\ <<>> \in Seq(Calls)
  BY DEF Calls
\* The request ends with an exception.
<1>t. CASE q.ids = None
  <2>1. PutWriting(r, Idle) /\ UNCHANGED <<served, deleted>>
    BY <1>3, <1>t
  <2>2. /\ Idle \in Slot /\ Fine(Idle, tasks', assigned', statuses', deleted')
        /\ Apart(r, Idle)
    BY IdleFine DEF Apart, Creating
  <2>3. /\ lock' \in [TaskIds -> Requests \cup {None}]
        /\ \A t \in TaskIds : lock'[t] # r /\ lock'[t] = lock[t]
    BY <1>1, <1>3, NoLocks DEF BoardInv, LocksFine, q
  <2> QED BY <1>5, <2>1, <2>2, <2>3, WriteKeeps
<1>7. CASE q.op \in Creating
  <2>1. q.plan = Cons("clear", Cons("assign", <<>>)) /\ Names(q)
    BY <1>1, <1>7 DEF Shape, CreateShape, AfterInsert
  <2>2. n.plan = Cons("assign", <<>>) /\ Names(n) /\ Stage(n) = "assign"
    <3>1. n.plan = Cons("assign", <<>>)
      BY <1>1, <1>2, <1>6, <2>1, StageFacts, PlansTyped
    <3>2. Names(n)
      BY <1>2, <2>1 DEF Names, Same
    <3>3. Stage(n) = "assign"
      BY <1>2, <1>6, <3>1, StageFacts
    <3> QED BY <3>1, <3>2, <3>3
  <2>3. Shape(n)
    BY <1>1, <1>2, <1>7, <2>2 DEF Shape, CreateShape, Creating, Same
  <2>4. Grounded(n, tasks')
    BY <1>1, <1>2, <1>3, <1>7, <2>2 DEF Fine, Grounded, Creating, Same, ToInsert
  <2>5. n.alone => Undisputed(n, tasks', assigned', statuses', deleted')
    <3> HAVE n.alone
    <3>1. CreateUndisputed(q, assigned) /\ Grounded(q, tasks)
      BY <1>1, <1>2, <1>7 DEF Fine, Same, Undisputed
    <3>2. n.op = "subtask" => WithinParent(n, n.parent, assigned')
      BY <1>1, <1>2, <1>5, <3>1 DEF CreateUndisputed, WithinParent, Same, Grounded
    <3>3. CreateUndisputed(n, assigned')
      BY <1>2, <1>5, <2>2, <3>2 DEF CreateUndisputed, Same
    <3> QED BY <1>2, <1>7, <3>3 DEF Undisputed, Creating, Same
  <2>6. Fine(n, tasks', assigned', statuses', deleted')
    BY <2>3, <2>4, <2>5 DEF Fine
  <2>7. q.ids # None
    BY <1>1, <1>7 DEF Shape
  <2> QED BY <1>1, <1>2, <1>3, <1>5, <1>n, <2>6, <2>7, WritesOn DEF q
<1>8. CASE q.op = "update" /\ q.ids # None
  <2>1. q.plan = Cons("clear", AfterClear(q)) /\ q.ids # Keep
    BY <1>1, <1>8 DEF Shape, UpdateShape, AfterValidate
  <2>2. n.plan = AfterClear(n) /\ n.ids \notin {None, Keep}
    <3>1. n.plan = AfterClear(q)
      BY <1>1, <1>2, <1>6, <2>1, StageFacts, PlansTyped
    <3> QED BY <1>2, <1>8, <2>1, <3>1 DEF AfterClear, Same
  <2>3. Stage(n) = IF n.ids # <<>> THEN "assign" ELSE "select"
    BY <1>2, <1>6, <2>2, StageFacts, PlansTyped DEF AfterClear, SaveTask
  <2>4. UpdateShape(n)
    BY <2>2, <2>3 DEF UpdateShape, AfterClear, Names
  <2>5. Grounded(n, tasks')
    BY <1>1, <1>2, <1>3, <1>8 DEF Fine, Grounded, Creating, Same
  <2>6. n.alone => Undisputed(n, tasks', assigned', statuses', deleted')
    <3> HAVE n.alone
    <3>1. Undisputed(q, tasks, assigned, statuses, deleted)
      BY <1>1, <1>2 DEF Fine, Same
    <3>2. WithinParent(n, n.row.parent, assigned')
      <4>1. WithinParent(q, q.row.parent, assigned)
        BY <1>1, <1>8, <2>1, <3>1 DEF Undisputed, UpdateUndisputed, UpdateAssignees
      <4> QED BY <1>2, <1>5, <4>1 DEF WithinParent, Same
    <3>3. n.ids = <<>> => Named(n.ids) = {}
      BY DEF Named
    <3>4. UpdateAssignees(n, assigned', deleted')
      <4>1. UpdateAssignees(q, assigned, deleted)
        BY <1>8, <2>1, <3>1 DEF Undisputed, UpdateUndisputed
      <4>2. n.old \ deleted = n.before \ deleted
        BY <1>1, <1>2, <4>1 DEF UpdateAssignees, Same
      <4> QED BY <1>2, <1>3, <1>5, <2>3, <3>2, <3>3, <4>2 DEF UpdateAssignees, Same
    <3> QED BY <1>1, <1>2, <1>3, <1>8, <2>3, <3>1, <3>4
            DEF Undisputed, UpdateUndisputed, Creating, Same
  <2>7. Fine(n, tasks', assigned', statuses', deleted')
    BY <1>1, <1>2, <1>8, <2>4, <2>5, <2>6, UpdateGoesOn DEF Fine
  <2> QED BY <1>1, <1>2, <1>3, <1>5, <1>8, <1>n, <2>7, WritesOn DEF q
<1> QED BY <1>4, <1>t, <1>7, <1>8

LEMMA InsertAssigneesKeeps ==
    ASSUME BoardInv, NEW r \in Requests, InsertAssignees(r)
    PROVE  BoardInv'
<1> DEFINE q == req[r]
           n == Done(q)
           fresh == Cardinality(Named(q.ids)) = Len(q.ids) /\ Named(q.ids) \cap assigned[q.task] = {}
<1>1. /\ q \in Slot /\ Fine(q, tasks, assigned, statuses, deleted) /\ Stage(q) = "assign"
      /\ q.plan # <<>> /\ Shape(q)
  BY AtFacts DEF InsertAssignees, Calls
<1>u. UNCHANGED <<tasks, statuses, lock, served, deleted>>
  BY DEF InsertAssignees
<1>2. CASE ~fresh
  BY <1>1, <1>2, <1>u, FinishKeeps DEF InsertAssignees
<1>3. CASE fresh
  <2>1. /\ n \in Slot /\ Same(n, q) /\ n.plan = Tail(q.plan) /\ n.status = q.status
        /\ n.row = q.row /\ n.old = q.old
    BY <1>1, DoneFacts
  <2>2. PutWriting(r, n) /\ assigned' = [assigned EXCEPT ![q.task] = @ \cup Named(q.ids)]
    BY <1>3 DEF InsertAssignees
  <2> HIDE DEF q, n, fresh
  <2>3. q.op \in Creating \cup {"update"} /\ q.task \in TaskIds
    BY <1>1, StageOps DEF Shape
  <2>4. q.ids \in Seq(Users) /\ Names(q) /\ q.ids # None
    BY <1>1, <2>3 DEF Slot, Shape, CreateShape, UpdateShape, Names
  <2>5. Named(q.ids) \in SUBSET Users /\ assigned \in [TaskIds -> SUBSET Users]
    BY <2>4 DEF Named, BoardInv, Tables
  <2>6. tasks[q.task].life # "none"
    BY <1>1, <2>3 DEF Fine, Grounded, ToInsert
  <2>7. /\ Tables(tasks', assigned', statuses') /\ RowsKept(r, n)
        /\ assigned'[q.task] = assigned[q.task] \cup Named(q.ids)
        /\ \A u \in TaskIds \ {q.task} : assigned'[u] = assigned[u]
    <3> DEFINE people == assigned[q.task] \cup Named(q.ids)
    <3>1. people \in SUBSET Users /\ assigned' = [assigned EXCEPT ![q.task] = people]
      BY <2>2, <2>3, <2>5
    <3> HIDE DEF people
    <3>2. /\ Tables(tasks', assigned', statuses') /\ RowsKept(r, n)
          /\ assigned'[q.task] = people
          /\ \A u \in TaskIds \ {q.task} : assigned'[u] = assigned[u]
      BY <1>u, <2>3, <2>6, <3>1, AssignedTables
    <3> QED BY <3>2 DEF people
  <2>8. {"assign", "select"} \subseteq Calls /\ <<>> \in Seq(Calls)
    BY DEF Calls
  <2>9. CASE q.op \in Creating
    <3>1. q.plan = Cons("assign", <<>>)
      BY <1>1, <2>9 DEF Shape, CreateShape
    <3>2. n.plan = <<>> /\ Stage(n) = "end"
      BY <1>1, <2>1, <2>8, <3>1, StageFacts
    <3>3. Shape(n)
      BY <1>1, <2>1, <2>9, <3>2 DEF Shape, CreateShape, Creating, Same
    <3>4. Grounded(n, tasks')
      BY <1>1, <1>u, <2>1, <2>9, <3>2 DEF Fine, Grounded, Creating, Same, ToInsert
    <3>5. n.alone => Undisputed(n, tasks', assigned', statuses', deleted')
      <4> HAVE n.alone
      <4>1. CreateUndisputed(q, assigned) /\ Grounded(q, tasks)
        BY <1>1, <2>1, <2>9 DEF Fine, Same, Undisputed
      <4>2. n.op = "subtask" => WithinParent(n, n.parent, assigned')
        BY <1>1, <2>1, <2>7, <4>1 DEF CreateUndisputed, WithinParent, Same, Grounded
      <4>3. CreateUndisputed(n, assigned')
        BY <1>1, <2>1, <2>7, <3>2, <4>1, <4>2 DEF CreateUndisputed, Same
      <4> QED BY <2>1, <2>9, <4>3 DEF Undisputed, Creating, Same
    <3>6. Fine(n, tasks', assigned', statuses', deleted')
      BY <3>3, <3>4, <3>5 DEF Fine
    <3> QED BY <1>1, <1>u, <2>1, <2>2, <2>7, <3>6, WritesOn DEF q
  <2>10. CASE q.op = "update"
    <3>1. q.plan = Cons("assign", SaveTask)
      BY <1>1, <2>10 DEF Shape, UpdateShape
    <3>2. n.plan = SaveTask /\ Stage(n) = "select"
      <4>1. n.plan = SaveTask
        BY <1>1, <2>1, <2>8, <3>1, StageFacts, PlansTyped
      <4> QED BY <2>1, <2>8, <4>1, StageFacts DEF SaveTask
    <3>3. UpdateShape(n)
      BY <2>1, <2>4, <3>2 DEF UpdateShape, Same
    <3>4. Grounded(n, tasks')
      BY <1>1, <1>u, <2>1, <2>10 DEF Fine, Grounded, Creating, Same
    <3>5. n.alone => Undisputed(n, tasks', assigned', statuses', deleted')
      <4> HAVE n.alone
      <4>1. Undisputed(q, tasks, assigned, statuses, deleted)
        BY <1>1, <2>1 DEF Fine, Same
      <4>2. UpdateAssignees(q, assigned, deleted)
        BY <2>4, <2>10, <4>1 DEF Undisputed, UpdateUndisputed, Names
      <4>3. WithinParent(n, n.row.parent, assigned')
        BY <1>1, <2>1, <2>7, <4>2 DEF UpdateAssignees, WithinParent, Same
      <4>4. UpdateAssignees(n, assigned', deleted')
        BY <1>1, <1>u, <2>1, <2>7, <3>2, <4>2, <4>3 DEF UpdateAssignees, Same
      <4> QED BY <1>1, <1>u, <2>1, <2>10, <3>2, <4>1, <4>4
              DEF Undisputed, UpdateUndisputed, Creating, Same
    <3>6. Fine(n, tasks', assigned', statuses', deleted')
      BY <1>1, <2>1, <2>10, <3>3, <3>4, <3>5, UpdateGoesOn DEF Fine
    <3> QED BY <1>1, <1>u, <2>1, <2>2, <2>7, <3>6, WritesOn DEF q
  <2> QED BY <2>3, <2>9, <2>10
<1> QED BY <1>2, <1>3

LEMMA SelectTaskKeeps ==
    ASSUME BoardInv, NEW r \in Requests, SelectTask(r)
    PROVE  BoardInv'
<1> DEFINE q == req[r]
           dirty == {c \in Fields : q.row[c] # tasks[q.task][c]}
           n == [q EXCEPT !.dirty = dirty, !.plan = If(dirty # {}, "write")]
<1>1. /\ q \in Slot /\ Fine(q, tasks, assigned, statuses, deleted) /\ Stage(q) = "select"
      /\ q.plan # <<>> /\ Shape(q)
  BY AtFacts DEF SelectTask, Calls
<1>2. Put(r, n) /\ UNCHANGED <<tasks, assigned, statuses, lock, served, deleted>>
  BY DEF SelectTask
<1>3. dirty \in SUBSET Fields
  OBVIOUS
<1>4. \A c \in Fields : q.row[c] # tasks[q.task][c] => c \in dirty
  OBVIOUS
<1>5. dirty = {} => \A c \in Fields : tasks[q.task][c] = q.row[c]
  OBVIOUS
<1> HIDE DEF q, dirty
<1>6. /\ If(dirty # {}, "write") \in Seq(Calls)
      /\ If(dirty # {}, "write") = IF dirty # {} THEN Cons("write", <<>>) ELSE <<>>
  <2>1. "write" \in Calls
    BY DEF Calls
  <2> QED BY <2>1, LastCall, IfFacts DEF If
<1>7. /\ n \in Slot /\ Same(n, q) /\ n.plan = If(dirty # {}, "write") /\ n.status = q.status
      /\ n.row = q.row /\ n.old = q.old /\ n.dirty = dirty
  BY <1>1, <1>3, <1>6 DEF Slot, Same
<1> HIDE DEF n
<1>8. n.plan = IF dirty # {} THEN Cons("write", <<>>) ELSE <<>>
  BY <1>6, <1>7
<1>9. Stage(n) = IF dirty # {} THEN "write" ELSE "end"
  <2>1. "write" \in Calls /\ <<>> \in Seq(Calls)
    BY DEF Calls
  <2> QED BY <1>7, <1>8, <2>1, StageFacts
<1>10. q.op = "update"
  BY <1>1, StageOps
<1>11. UpdateShape(n)
  BY <1>1, <1>7, <1>8, <1>9, <1>10 DEF Shape, UpdateShape, Same
<1>12. Grounded(n, tasks)
  BY <1>1, <1>7, <1>10 DEF Fine, Grounded, Creating, Same
<1>13. n.alone => Undisputed(n, tasks, assigned, statuses, deleted)
  <2> HAVE n.alone
  <2>1. Undisputed(q, tasks, assigned, statuses, deleted)
    BY <1>1, <1>7 DEF Fine, Same
  <2>2. n.ids \notin {None, Keep} => UpdateAssignees(n, assigned, deleted)
    BY <1>1, <1>7, <1>9, <1>10, <2>1 DEF Undisputed, UpdateUndisputed, UpdateAssignees, Same, WithinParent
  <2>3. Stage(n) = "write" =>
          \A c \in Fields : n.row[c] # tasks[n.task][c] => c \in n.dirty
    BY <1>4, <1>7 DEF Same
  <2>4. Stage(n) = "end" => \A c \in Fields : tasks[n.task][c] = n.row[c]
    BY <1>5, <1>7, <1>9 DEF Same
  <2> QED BY <1>1, <1>7, <1>10, <2>1, <2>2, <2>3, <2>4
          DEF Undisputed, UpdateUndisputed, Creating, Same
<1>14. Fine(n, tasks, assigned, statuses, deleted)
  BY <1>1, <1>7, <1>10, <1>11, <1>12, <1>13, UpdateGoesOn DEF Fine
<1> QED BY <1>1, <1>2, <1>7, <1>14, StepsOn DEF q

LEMMA RowFields ==
    ASSUME NEW row \in Rows
    PROVE  /\ row["life"] = row.life /\ row["parent"] = row.parent /\ row["status"] = row.status
           /\ row["done"] = row.done /\ row["pos"] = row.pos
OBVIOUS

LEMMA WriteTaskKeeps ==
    ASSUME BoardInv, NEW r \in Requests, WriteTask(r)
    PROVE  BoardInv'
<1> DEFINE q == req[r]
           n == Done(q)
           t == q.task
           row == [c \in DOMAIN NoTask |-> IF c \in q.dirty THEN q.row[c] ELSE tasks[t][c]]
<1>1. /\ q \in Slot /\ Fine(q, tasks, assigned, statuses, deleted) /\ Stage(q) = "write"
      /\ q.plan # <<>> /\ Shape(q)
  BY AtFacts DEF WriteTask, Calls
<1>2. /\ n \in Slot /\ Same(n, q) /\ n.plan = Tail(q.plan) /\ n.status = q.status
      /\ n.row = q.row /\ n.old = q.old /\ n.dirty = q.dirty
  BY <1>1, DoneFacts
<1>3. q.op = "update" /\ t \in TaskIds
  BY <1>1, StageOps DEF Shape
<1>4. tasks \in [TaskIds -> Rows]
  BY DEF BoardInv, Tables
<1>5. /\ PutWriting(r, n) /\ UNCHANGED <<assigned, statuses, lock, served, deleted>>
      /\ tasks' = [tasks EXCEPT ![t] = row]
  BY <1>3, <1>4 DEF WriteTask
<1>6. q.row \in Rows /\ tasks[t] \in Rows /\ q.dirty \in SUBSET Fields
  BY <1>1, <1>3, <1>4 DEF Slot
<1>7. DOMAIN NoTask = {"life", "parent", "status", "done", "pos"}
  BY DEF NoTask
<1>8. /\ \A c \in Fields : row[c] = IF c \in q.dirty THEN q.row[c] ELSE tasks[t][c]
      /\ row["parent"] = tasks[t]["parent"]
      /\ row["life"] = IF "life" \in q.dirty THEN q.row["life"] ELSE tasks[t]["life"]
      /\ row["status"] = IF "status" \in q.dirty THEN q.row["status"] ELSE tasks[t]["status"]
      /\ row["done"] = IF "done" \in q.dirty THEN q.row["done"] ELSE tasks[t]["done"]
      /\ row["pos"] = IF "pos" \in q.dirty THEN q.row["pos"] ELSE tasks[t]["pos"]
  BY <1>6, <1>7 DEF Fields
<1>9. row \in Rows
  <2>1. row = [life |-> row["life"], parent |-> row["parent"], status |-> row["status"],
               done |-> row["done"], pos |-> row["pos"]]
    BY <1>7
  <2>2. /\ row["life"] \in {"none", "live", "deleted"} /\ row["parent"] \in TaskIds \cup {None}
        /\ row["status"] \in StatusIds \cup {None} /\ row["done"] \in BOOLEAN /\ row["pos"] \in Nat
    BY <1>6, <1>8 DEF Rows
  <2> HIDE DEF row
  <2> QED BY <2>1, <2>2 DEF Rows
<1> HIDE DEF q, n, t, row
<1>10. /\ row.parent = tasks[t].parent
       /\ row.life = IF "life" \in q.dirty THEN q.row.life ELSE tasks[t].life
  BY <1>6, <1>8, <1>9, RowFields
<1>11. /\ tasks' \in [TaskIds -> Rows] /\ tasks'[t] = row
       /\ \A u \in TaskIds \ {t} : tasks'[u] = tasks[u]
  BY <1>3, <1>4, <1>5, <1>9
<1>12. /\ q.row.life = "live" /\ q.row.parent = tasks[t].parent /\ tasks[t].life # "none"
  BY <1>1, <1>3 DEF Fine, Grounded, t
<1>13. n.plan = <<>> /\ Stage(n) = "end"
  <2>1. q.plan = Cons("write", <<>>)
    BY <1>1, <1>3 DEF Shape, UpdateShape
  <2>2. "write" \in Calls /\ <<>> \in Seq(Calls)
    BY DEF Calls
  <2> QED BY <1>1, <1>2, <2>1, <2>2, StageFacts
<1>14. UpdateShape(n)
  BY <1>1, <1>2, <1>3, <1>13 DEF Shape, UpdateShape, Same
<1>15. Grounded(n, tasks')
  BY <1>1, <1>2, <1>3, <1>10, <1>11, <1>12 DEF Fine, Grounded, Creating, Same, t
<1>16. n.alone => Undisputed(n, tasks', assigned', statuses', deleted')
  <2> HAVE n.alone
  <2>1. Undisputed(q, tasks, assigned, statuses, deleted)
    BY <1>1, <1>2 DEF Fine, Same
  <2>2. n.ids \notin {None, Keep} => UpdateAssignees(n, assigned', deleted')
    BY <1>1, <1>2, <1>3, <1>5, <1>13, <2>1
       DEF Undisputed, UpdateUndisputed, UpdateAssignees, Same, WithinParent
  <2>3. \A c \in Fields : tasks'[t][c] = q.row[c]
    <3>1. \A c \in Fields : q.row[c] # tasks[t][c] => c \in q.dirty
      BY <1>1, <1>3, <2>1 DEF Undisputed, UpdateUndisputed, t
    <3> QED BY <1>8, <1>11, <3>1
  <2> QED BY <1>1, <1>2, <1>3, <1>5, <1>13, <2>1, <2>2, <2>3
          DEF Undisputed, UpdateUndisputed, Creating, Same, t
<1>17. Fine(n, tasks', assigned', statuses', deleted')
  BY <1>1, <1>2, <1>3, <1>14, <1>15, <1>16, UpdateGoesOn DEF Fine
<1>18. Tables(tasks', assigned', statuses')
  BY <1>5, <1>10, <1>11, <1>12 DEF BoardInv, Tables
<1>19. RowsKept(r, n)
  BY <1>10, <1>11, <1>12 DEF RowsKept
<1> QED BY <1>1, <1>2, <1>5, <1>17, <1>18, <1>19, WritesOn DEF q

-----------------------------------------------------------------------------
(* Requests of one call.                                                   *)

LEMMA OneCallDone ==
    ASSUME NEW q \in Slot, Shape(q), NEW rows, Grounded(q, rows), NEW people, NEW board, NEW gone,
           q.op \in {"remove", "newStatus", "editStatus", "dropStatus"}, q.plan # <<>>
    PROVE  /\ Done(q) \in Slot /\ Same(Done(q), q)
           /\ Fine(Done(q), rows, people, board, gone)
<1> DEFINE n == Done(q)
<1>1. n \in Slot /\ Same(n, q) /\ n.plan = Tail(q.plan)
  BY DoneFacts
<1> HIDE DEF n
<1>2. \A call \in Calls : q.plan = Cons(call, <<>>) => n.plan = <<>>
  BY <1>1, LastCall, StageFacts
<1>3. {"delete", "putStatus", "dropStatus"} \subseteq Calls
  BY DEF Calls
<1>4. n.plan = <<>>
  BY <1>2, <1>3 DEF Shape, OneCall
<1>5. Shape(n)
  BY <1>1, <1>4 DEF Shape, OneCall, Same, Creating
<1>6. Grounded(n, rows) /\ Undisputed(n, rows, people, board, gone)
  BY <1>1 DEF Grounded, Undisputed, Same, Creating
<1>7. Fine(n, rows, people, board, gone)
  BY <1>5, <1>6 DEF Fine
<1> QED BY <1>1, <1>7 DEF n

LEMMA SoftDeleteTaskKeeps ==
    ASSUME BoardInv, NEW r \in Requests, SoftDeleteTask(r)
    PROVE  BoardInv'
<1> DEFINE q == req[r]
           t == q.task
<1>1. /\ q \in Slot /\ Fine(q, tasks, assigned, statuses, deleted) /\ Stage(q) = "delete"
      /\ q.plan # <<>> /\ Shape(q)
  BY AtFacts DEF SoftDeleteTask, Calls
<1>2. q.op = "remove" /\ t \in TaskIds /\ tasks[t].life # "none"
  BY <1>1, StageOps DEF Shape, Fine, Grounded
<1>3. /\ PutWriting(r, Done(q)) /\ UNCHANGED <<assigned, statuses, lock, served, deleted>>
      /\ tasks' = [tasks EXCEPT ![t].life = "deleted"]
  BY DEF SoftDeleteTask
<1>4. /\ tasks' \in [TaskIds -> Rows] /\ tasks'[t].life = "deleted"
      /\ tasks'[t].parent = tasks[t].parent
      /\ \A u \in TaskIds \ {t} : tasks'[u] = tasks[u]
  <2>1. tasks \in [TaskIds -> Rows] /\ tasks[t] \in Rows
    BY <1>2 DEF BoardInv, Tables
  <2>2. [tasks[t] EXCEPT !.life = "deleted"] \in Rows
    BY <2>1 DEF Rows
  <2>3. tasks'[t] = [tasks[t] EXCEPT !.life = "deleted"]
    BY <1>2, <1>3, <2>1
  <2> QED BY <1>2, <1>3, <2>1, <2>2, <2>3 DEF Rows
<1> HIDE DEF q, t
<1>5. Grounded(q, tasks')
  BY <1>1, <1>2, <1>4 DEF Fine, Grounded, Creating, t
<1>6. /\ Done(q) \in Slot /\ Same(Done(q), q)
      /\ Fine(Done(q), tasks', assigned', statuses', deleted')
  BY <1>1, <1>2, <1>5, OneCallDone
<1>7. Tables(tasks', assigned', statuses') /\ RowsKept(r, Done(q))
  BY <1>2, <1>3, <1>4 DEF BoardInv, Tables, RowsKept
<1> QED BY <1>1, <1>3, <1>6, <1>7, WritesOn DEF q

LEMMA PutStatusKeeps ==
    ASSUME BoardInv, NEW r \in Requests, PutStatus(r)
    PROVE  BoardInv'
<1> DEFINE q == req[r]
<1>1. /\ q \in Slot /\ Fine(q, tasks, assigned, statuses, deleted) /\ Stage(q) = "putStatus"
      /\ q.plan # <<>> /\ Shape(q)
  BY AtFacts DEF PutStatus, Calls
<1>2. /\ PutWriting(r, Done(q)) /\ UNCHANGED <<tasks, assigned, lock, served, deleted>>
      /\ statuses' = [statuses EXCEPT ![q.status] =
                        [life |-> "live", completed |-> q.status \in q.completed]]
  BY DEF PutStatus
<1>3. /\ Done(q) \in Slot /\ Same(Done(q), q)
      /\ Fine(Done(q), tasks, assigned, statuses', deleted)
  <2>1. q.op \in {"newStatus", "editStatus", "dropStatus"} /\ Grounded(q, tasks)
    BY <1>1, StageOps DEF Fine
  <2> HIDE DEF q
  <2> QED BY <1>1, <2>1, OneCallDone
<1>4. [life |-> "live", completed |-> q.status \in q.completed] \in StatusRow
  BY DEF StatusRow
<1>5. Tables(tasks', assigned', statuses') /\ RowsKept(r, Done(q))
  BY <1>2, <1>4 DEF BoardInv, Tables, RowsKept
<1>6. Fine(Done(q), tasks', assigned', statuses', deleted')
  BY <1>2, <1>3
<1> QED BY <1>1, <1>2, <1>3, <1>5, <1>6, WritesOn

LEMMA DropStatusKeeps ==
    ASSUME BoardInv, NEW r \in Requests, DropStatus(r)
    PROVE  BoardInv'
<1> DEFINE q == req[r]
<1>1. /\ q \in Slot /\ Fine(q, tasks, assigned, statuses, deleted) /\ Stage(q) = "dropStatus"
      /\ q.plan # <<>> /\ Shape(q)
  BY AtFacts DEF DropStatus, Calls
<1>2. /\ PutWriting(r, Done(q)) /\ UNCHANGED <<tasks, assigned, lock, served, deleted>>
      /\ statuses' = [statuses EXCEPT ![q.status] = [NoStatus EXCEPT !.life = "gone"]]
  BY DEF DropStatus
<1>3. /\ Done(q) \in Slot /\ Same(Done(q), q)
      /\ Fine(Done(q), tasks, assigned, statuses', deleted)
  <2>1. q.op \in {"newStatus", "editStatus", "dropStatus"} /\ Grounded(q, tasks)
    BY <1>1, StageOps DEF Fine
  <2> HIDE DEF q
  <2> QED BY <1>1, <2>1, OneCallDone
<1>4. [NoStatus EXCEPT !.life = "gone"] \in StatusRow
  BY DEF StatusRow, NoStatus
<1>5. Tables(tasks', assigned', statuses') /\ RowsKept(r, Done(q))
  BY <1>2, <1>4 DEF BoardInv, Tables, RowsKept
<1>6. Fine(Done(q), tasks', assigned', statuses', deleted')
  BY <1>2, <1>3
<1> QED BY <1>1, <1>2, <1>3, <1>5, <1>6, WritesOn

-----------------------------------------------------------------------------
(* bulkUpdatePositions.                                                    *)

LEMMA ItemsStage ==
    ASSUME NEW q \in Slot, q.plan = ItemsPlan(q.left)
    PROVE  Stage(q) = IF q.left # <<>> THEN "item" ELSE "commit"
<1>1. q.left \in Seq(Item)
  BY DEF Slot
<1> QED BY <1>1, ItemsPlans DEF Stage

LEMMA BulkGoesOn ==
    ASSUME NEW q \in Slot, NEW n \in Slot, Shape(q), q.op = "bulk", Same(n, q), BulkShape(n)
    PROVE  Shape(n)
BY DEF Shape, Same, Creating

LEMMA LoadStatusesKeeps ==
    ASSUME BoardInv, NEW r \in Requests, LoadStatuses(r)
    PROVE  BoardInv'
<1> DEFINE q == req[r]
           found == {s \in StatusIds : /\ LiveStatus(s)
                                       /\ \E i \in DOMAIN q.items : q.items[i].status = s}
           completed == {s \in found : statuses[s].completed}
           n == [Done(q) EXCEPT !.found = found, !.completed = completed]
<1>1. /\ q \in Slot /\ Fine(q, tasks, assigned, statuses, deleted) /\ Stage(q) = "statuses"
      /\ q.plan # <<>> /\ Shape(q)
  BY AtFacts DEF LoadStatuses, Calls
<1>2. Put(r, n) /\ UNCHANGED <<tasks, assigned, statuses, lock, served, deleted>>
  BY DEF LoadStatuses
<1>3. found \in SUBSET StatusIds /\ completed \in SUBSET StatusIds
  OBVIOUS
<1>c. completed = {s \in found : statuses[s].completed}
  OBVIOUS
<1> HIDE DEF q, found, completed
<1>4. /\ n \in Slot /\ Same(n, q) /\ n.plan = Tail(q.plan) /\ n.left = q.left
      /\ n.found = found /\ n.completed = completed
  BY <1>1, <1>3, DoneFacts DEF Slot, Same
<1> HIDE DEF n
<1>5. q.op = "bulk"
  BY <1>1, StageOps
<1>6. /\ q.plan = Cons("statuses", ItemsPlan(q.left)) /\ q.left = q.items
      /\ \A i, k \in 1..Len(q.items) : q.items[i].task = q.items[k].task => i = k
  BY <1>1, <1>5 DEF Shape, BulkShape
<1>7. n.plan = ItemsPlan(n.left)
  <2>1. ItemsPlan(q.left) \in Seq(Calls) /\ "statuses" \in Calls
    BY <1>1, ItemsPlans DEF Slot, Calls
  <2> QED BY <1>1, <1>4, <1>6, <2>1, StageFacts
<1>8. Stage(n) = IF n.left # <<>> THEN "item" ELSE "commit"
  BY <1>4, <1>7, ItemsStage
<1>9. BulkShape(n)
  <2>1. n.items \in Seq(Item) /\ n.left = n.items /\ Len(n.items) \in Nat
    BY <1>4, <1>6 DEF Slot, Same
  <2>2. Written(n) = 0
    BY <2>1 DEF Written
  <2>3. \A i, k \in 1..Len(n.items) : n.items[i].task = n.items[k].task => i = k
    BY <1>4, <1>6 DEF Same
  <2> QED BY <1>7, <1>8, <2>1, <2>2, <2>3 DEF BulkShape
<1>10. Grounded(n, tasks)
  BY <1>4, <1>5 DEF Grounded, Creating, Same
<1>11. Undisputed(n, tasks, assigned, statuses, deleted)
  BY <1>4, <1>5, <1>8, <1>c DEF Undisputed, BulkUndisputed, Creating, Same
<1>12. Fine(n, tasks, assigned, statuses, deleted)
  BY <1>1, <1>4, <1>5, <1>9, <1>10, <1>11, BulkGoesOn DEF Fine
<1> QED BY <1>1, <1>2, <1>4, <1>12, StepsOn DEF q

LEMMA WriteItemKeeps ==
    ASSUME BoardInv, NEW r \in Requests, WriteItem(r)
    PROVE  BoardInv'
<1> DEFINE q == req[r]
           t == Head(q.left).task
           n == [Done(q) EXCEPT !.left = Tail(@)]
<1>1. /\ q \in Slot /\ Fine(q, tasks, assigned, statuses, deleted) /\ Stage(q) = "item"
      /\ q.plan # <<>> /\ Shape(q)
  BY AtFacts DEF WriteItem, Calls
<1>2. /\ Put(r, n) /\ UNCHANGED <<tasks, assigned, statuses, served, deleted>>
      /\ lock[t] \in {None, r} /\ ~Unknown(q)
      /\ lock' = [lock EXCEPT ![t] = IF tasks[t].life = "none" THEN @ ELSE r]
  BY DEF WriteItem
<1>3. q.op = "bulk"
  BY <1>1, StageOps
<1>4. /\ q.plan = ItemsPlan(q.left) /\ q.left # <<>> /\ BulkShape(q)
      /\ q.left \in Seq(Item) /\ q.items \in Seq(Item)
  BY <1>1, <1>3 DEF Shape, BulkShape, Slot
<1>5. /\ Tail(q.left) \in Seq(Item) /\ Len(Tail(q.left)) = Len(q.left) - 1
      /\ Head(q.left) = q.left[1] /\ Len(q.left) \in Nat /\ Len(q.left) > 0
      /\ Len(q.items) \in Nat
      /\ \A i \in 1..Len(Tail(q.left)) : Tail(q.left)[i] = q.left[i + 1]
  BY <1>4
<1>6. /\ n \in Slot /\ Same(n, q) /\ n.plan = Tail(q.plan) /\ n.left = Tail(q.left)
      /\ n.found = q.found /\ n.completed = q.completed
  BY <1>1, <1>5, DoneFacts DEF Slot, Same
<1>7. Head(q.left).status = None \/ Head(q.left).status \in q.found
  BY <1>2 DEF Unknown
<1> HIDE DEF q, n
<1>8. n.plan = ItemsPlan(n.left)
  BY <1>4, <1>6, ItemsPlans
<1>9. Stage(n) = IF n.left # <<>> THEN "item" ELSE "commit"
  BY <1>6, <1>8, ItemsStage
<1>10. Head(q.left) = q.items[Written(q) + 1] /\ Written(q) + 1 \in 1..Len(q.items)
       /\ Written(q) \in Nat
  <2>1. 1 \in 1..Len(q.left)
    BY <1>5
  <2>2. \A i \in 1..Len(q.left) : q.left[i] = q.items[Written(q) + i]
    BY <1>4 DEF BulkShape
  <2>3. Head(q.left) = q.items[Written(q) + 1]
    BY <1>5, <2>1, <2>2
  <2>4. Len(q.left) <= Len(q.items)
    BY <1>4 DEF BulkShape
  <2>5. Len(q.left) \in Nat /\ Len(q.left) > 0 /\ Len(q.items) \in Nat
    BY <1>5
  <2>6. Written(q) = Len(q.items) - Len(q.left)
    BY DEF Written
  <2>7. Written(q) \in Nat
    BY <2>4, <2>5, <2>6
  <2>8. Written(q) + 1 \in 1..Len(q.items)
    <3>1. \A all, rest \in Nat : rest > 0 /\ rest <= all => (all - rest) + 1 \in 1..all
      OBVIOUS
    <3>2. (Len(q.items) - Len(q.left)) + 1 \in 1..Len(q.items)
      BY <2>4, <2>5, <3>1
    <3> QED BY <2>6, <3>2
  <2> QED BY <2>3, <2>7, <2>8
<1>11. n.items = q.items /\ Len(n.left) = Len(q.left) - 1 /\ Written(n) = Written(q) + 1
  <2>1. n.items = q.items /\ Len(n.left) = Len(q.left) - 1
    BY <1>5, <1>6 DEF Same
  <2>2. Len(q.items) - (Len(q.left) - 1) = (Len(q.items) - Len(q.left)) + 1
    BY <1>5
  <2>3. Written(n) = Written(q) + 1
    BY <2>1, <2>2 DEF Written
  <2> QED BY <2>1, <2>3
<1>12. BulkShape(n)
  <2>1. Len(n.left) <= Len(n.items)
    BY <1>4, <1>5, <1>11 DEF BulkShape
  <2>2. ASSUME NEW i \in 1..Len(n.left) PROVE n.left[i] = n.items[Written(n) + i]
    <3>1. i + 1 \in 1..Len(q.left) /\ n.left[i] = q.left[i + 1]
      BY <1>5, <1>6, <1>11
    <3>2. q.left[i + 1] = q.items[Written(q) + (i + 1)]
      BY <1>4, <3>1 DEF BulkShape
    <3>3. Written(q) + (i + 1) = Written(n) + i
      BY <1>5, <1>10, <1>11
    <3> QED BY <1>11, <3>1, <3>2, <3>3
  <2>3. ASSUME NEW i \in 1..Written(n)
        PROVE  n.items[i].status = None \/ n.items[i].status \in n.found
    <3>1. i = Written(q) + 1 \/ i \in 1..Written(q)
      BY <1>10, <1>11
    <3> QED BY <1>4, <1>6, <1>7, <1>10, <1>11, <3>1 DEF BulkShape
  <2>4. \A i, k \in 1..Len(n.items) : n.items[i].task = n.items[k].task => i = k
    BY <1>4, <1>11 DEF BulkShape
  <2> QED BY <1>8, <1>9, <2>1, <2>2, <2>3, <2>4 DEF BulkShape
<1>13. Grounded(n, tasks)
  BY <1>3, <1>6 DEF Grounded, Creating, Same
<1>14. n.alone => Undisputed(n, tasks, assigned, statuses, deleted)
  BY <1>1, <1>3, <1>6, <1>9 DEF Fine, Undisputed, BulkUndisputed, Creating, Same
<1>15. Fine(n, tasks, assigned, statuses, deleted)
  BY <1>1, <1>3, <1>6, <1>12, <1>13, <1>14, BulkGoesOn DEF Fine
<1>16. lock \in [TaskIds -> Requests \cup {None}] /\ t \in TaskIds
  <2>1. Head(q.left) \in Item
    BY <1>4, <1>5
  <2>2. t \in TaskIds
    BY <2>1 DEF Item
  <2> QED BY <2>2 DEF BoardInv, LocksFine
<1>17. /\ lock' \in [TaskIds -> Requests \cup {None}]
       /\ \A u \in TaskIds : lock'[u] # r => lock'[u] = lock[u]
       /\ \A u \in TaskIds : lock'[u] = r => u = t \/ lock[u] = r
  BY <1>2, <1>16
<1>18. n.op = "bulk" /\ Stage(n) \in {"item", "commit"}
  BY <1>3, <1>6, <1>9 DEF Same
<1>19. ASSUME NEW u \in TaskIds, lock'[u] = r PROVE Holds(n, u)
  <2>1. CASE u = t
    BY <1>10, <1>11, <1>18, <2>1 DEF Holds
  <2>2. CASE lock[u] = r
    <3>1. Holds(q, u)
      BY <2>2, TaskConstants DEF BoardInv, LocksFine, q
    <3> QED BY <1>11, <1>18, <3>1 DEF Holds
  <2> QED BY <1>17, <1>19, <2>1, <2>2
<1>20. Apart(r, n) /\ served' \in 0..MaxServed
  BY <1>2, <1>6, SameApart DEF BoardInv, q
<1> QED BY <1>2, <1>6, <1>15, <1>17, <1>19, <1>20, PutKeeps

LEMMA CommitKeeps ==
    ASSUME BoardInv, NEW r \in Requests, Commit(r)
    PROVE  BoardInv'
<1> DEFINE q == req[r]
           n == Done(q)
           Card(i, t) == i \in DOMAIN q.items /\ q.items[i].task = t
<1>1. /\ q \in Slot /\ Fine(q, tasks, assigned, statuses, deleted) /\ Stage(q) = "commit"
      /\ q.plan # <<>> /\ Shape(q)
  BY AtFacts DEF Commit, Calls
<1>2. /\ PutWriting(r, n) /\ UNCHANGED <<assigned, statuses, served, deleted>> /\ lock' = Unlocked(r)
      /\ tasks' = [t \in TaskIds |->
            IF tasks[t].life # "none" /\ \E i \in DOMAIN q.items : q.items[i].task = t
            THEN Moved(tasks[t], q.items[CHOOSE i \in DOMAIN q.items : q.items[i].task = t],
                       q.completed)
            ELSE tasks[t]]
  BY DEF Commit
<1>3. q.op = "bulk"
  BY <1>1, StageOps
<1>4. /\ q.plan = ItemsPlan(q.left) /\ q.left = <<>> /\ BulkShape(q)
      /\ q.items \in Seq(Item) /\ DOMAIN q.items = 1..Len(q.items) /\ Len(q.items) \in Nat
  BY <1>1, <1>3 DEF Shape, BulkShape, Slot
<1>5. /\ n \in Slot /\ Same(n, q) /\ n.plan = Tail(q.plan) /\ n.left = q.left
      /\ n.found = q.found /\ n.completed = q.completed
  BY <1>1, DoneFacts
<1> HIDE DEF q, n
<1>6. Written(q) = Len(q.items)
  BY <1>4 DEF Written
<1>7. ASSUME NEW i \in DOMAIN q.items
      PROVE  /\ q.items[i] \in Item /\ (CHOOSE k \in DOMAIN q.items : q.items[k].task = q.items[i].task) = i
             /\ q.items[i].status = None \/ q.items[i].status \in q.found
  <2>1. \A k \in DOMAIN q.items : q.items[k].task = q.items[i].task => k = i
    BY <1>4 DEF BulkShape
  <2>2. q.items[i].status = None \/ q.items[i].status \in q.found
    BY <1>4, <1>6 DEF BulkShape
  <2>3. q.items[i] \in Item
    BY <1>4
  <2> QED BY <2>1, <2>2, <2>3
<1>8. ASSUME NEW row \in Rows, NEW item \in Item
      PROVE  /\ Moved(row, item, q.completed) \in Rows
             /\ Moved(row, item, q.completed).life = row.life
             /\ Moved(row, item, q.completed).parent = row.parent
             /\ item.status # None =>
                   /\ Moved(row, item, q.completed).status = item.status
                   /\ Moved(row, item, q.completed).done = (item.status \in q.completed)
  <2>1. item.pos \in Nat /\ item.status \in StatusIds \cup {None}
    BY DEF Item
  <2>2. CASE item.status = None
    <3>1. Moved(row, item, q.completed) = [row EXCEPT !.pos = item.pos]
      BY <2>2 DEF Moved, Rows
    <3> QED BY <2>1, <2>2, <3>1 DEF Rows
  <2>3. CASE item.status # None
    <3> DEFINE done == item.status \in q.completed
    <3>1. done \in BOOLEAN
      OBVIOUS
    <3>2. Moved(row, item, q.completed)
            = [row EXCEPT !.pos = item.pos, !.status = item.status, !.done = done]
      BY <2>3 DEF Moved
    <3> HIDE DEF done
    <3>3. /\ Moved(row, item, q.completed) \in Rows
          /\ Moved(row, item, q.completed).life = row.life
          /\ Moved(row, item, q.completed).parent = row.parent
          /\ Moved(row, item, q.completed).status = item.status
          /\ Moved(row, item, q.completed).done = done
      BY <2>1, <3>1, <3>2 DEF Rows
    <3> QED BY <3>3 DEF done
  <2> QED BY <2>2, <2>3
<1>9. tasks \in [TaskIds -> Rows]
  BY DEF BoardInv, Tables
<1>10. ASSUME NEW t \in TaskIds
       PROVE  /\ tasks'[t] \in Rows /\ tasks'[t].life = tasks[t].life
              /\ tasks'[t].parent = tasks[t].parent
  <2>1. CASE tasks[t].life # "none" /\ \E i \in DOMAIN q.items : q.items[i].task = t
    <3>1. PICK i \in DOMAIN q.items : q.items[i].task = t
      BY <2>1
    <3>2. tasks'[t] = Moved(tasks[t], q.items[i], q.completed)
      BY <1>2, <1>7, <2>1, <3>1
    <3> QED BY <1>7, <1>8, <1>9, <3>2
  <2>2. CASE ~(tasks[t].life # "none" /\ \E i \in DOMAIN q.items : q.items[i].task = t)
    BY <1>2, <1>9, <2>2
  <2> QED BY <2>1, <2>2
<1>11. tasks' \in [TaskIds -> Rows]
  <2>1. tasks' = [t \in TaskIds |-> tasks'[t]]
    BY <1>2
  <2> QED BY <1>10, <2>1
<1>12. Tables(tasks', assigned', statuses') /\ RowsKept(r, n)
  BY <1>2, <1>10, <1>11 DEF BoardInv, Tables, RowsKept
<1>13. n.plan = <<>> /\ Stage(n) = "end"
  <2>1. <<>> \in Seq(Item)
    OBVIOUS
  <2>2. Tail(ItemsPlan(<<>>)) = <<>>
    BY <2>1, ItemsPlans
  <2> QED BY <1>4, <1>5, <2>2 DEF Stage
<1>14. BulkShape(n)
  <2>1. Written(n) = Written(q) /\ n.items = q.items
    BY <1>5 DEF Written, Same
  <2> QED BY <1>4, <1>5, <1>13, <2>1 DEF BulkShape
<1>15. n.alone => Undisputed(n, tasks', assigned', statuses', deleted')
  <2> HAVE n.alone
  <2>1. q.completed = {s \in q.found : statuses[s].completed}
    BY <1>1, <1>3, <1>5 DEF Fine, Undisputed, BulkUndisputed, Same
  <2>2. ASSUME NEW i \in DOMAIN q.items, q.items[i].status # None,
               tasks'[q.items[i].task].life # "none"
        PROVE  /\ tasks'[q.items[i].task].status = q.items[i].status
               /\ tasks'[q.items[i].task].done = statuses[q.items[i].status].completed
    <3> DEFINE t == q.items[i].task
               s == q.items[i].status
    <3>1. t \in TaskIds /\ tasks[t].life # "none"
      BY <1>7, <1>10, <2>2 DEF Item
    <3>2. tasks'[t] = Moved(tasks[t], q.items[i], q.completed)
      BY <1>2, <1>7, <3>1
    <3>3. tasks'[t].status = s /\ tasks'[t].done = (s \in q.completed)
      BY <1>7, <1>8, <1>9, <2>2, <3>1, <3>2
    <3>4. s \in q.found /\ statuses[s].completed \in BOOLEAN
      <4>1. s \in q.found /\ q.found \in SUBSET StatusIds
        BY <1>1, <1>7, <2>2 DEF Slot
      <4> QED BY <4>1 DEF BoardInv, Tables, StatusRow
    <3>5. (s \in q.completed) = statuses[s].completed
      BY <2>1, <3>4
    <3> QED BY <3>3, <3>5
  <2>3. /\ n.completed = {s \in n.found : statuses'[s].completed}
        /\ n.items = q.items /\ n.op = "bulk"
    BY <1>2, <1>3, <1>5, <2>1 DEF Same
  <2>4. BulkUndisputed(n, tasks', statuses')
    <3>1. \A i \in 1..Len(q.items) :
            q.items[i].status # None /\ tasks'[q.items[i].task].life # "none" =>
                /\ tasks'[q.items[i].task].status = q.items[i].status
                /\ tasks'[q.items[i].task].done = statuses'[q.items[i].status].completed
      BY <1>2, <1>4, <2>2
    <3> QED BY <2>3, <3>1 DEF BulkUndisputed
  <2> QED BY <2>3, <2>4 DEF Undisputed, Creating
<1>16. Grounded(n, tasks')
  BY <1>3, <1>5 DEF Grounded, Creating, Same
<1>17. Fine(n, tasks', assigned', statuses', deleted')
  BY <1>1, <1>3, <1>5, <1>14, <1>15, <1>16, BulkGoesOn DEF Fine
<1>18. /\ lock' \in [TaskIds -> Requests \cup {None}]
       /\ \A t \in TaskIds : lock'[t] # r /\ lock'[t] \in {lock[t], None}
  BY <1>2, TaskConstants DEF BoardInv, LocksFine, Unlocked
<1>19. Apart(r, n) /\ UNCHANGED <<served, deleted>>
  BY <1>2, <1>5, SameApart DEF q
<1> QED BY <1>2, <1>5, <1>12, <1>17, <1>18, <1>19, WriteKeeps

LEMMA SeedStatusesKeeps ==
    ASSUME BoardInv, SeedStatuses
    PROVE  BoardInv'
<1>1. /\ \A q \in Requests : req'[q] = [req[q] EXCEPT !.alone = ~InFlight(q)]
      /\ DOMAIN req' = Requests /\ req' = [q \in Requests |-> req'[q]]
      /\ UNCHANGED <<tasks, assigned, lock, served, deleted>>
      /\ statuses' = [s \in StatusIds |-> IF s \in Seeds
                          THEN [life |-> "live", completed |-> s \in Completed]
                          ELSE statuses[s]]
  BY DEF SeedStatuses
<1>2. Tables(tasks', assigned', statuses')
  <2>1. \A s \in StatusIds : statuses'[s] \in StatusRow
    BY <1>1 DEF BoardInv, Tables, StatusRow
  <2>2. statuses' = [s \in StatusIds |-> statuses'[s]]
    BY <1>1
  <2> QED BY <1>1, <2>1, <2>2 DEF BoardInv, Tables
<1>3. ASSUME NEW q \in Requests
      PROVE  /\ req'[q] \in Slot /\ Fine(req'[q], tasks', assigned', statuses', deleted')
             /\ req'[q].op = req[q].op /\ req'[q].plan = req[q].plan
             /\ req'[q].items = req[q].items /\ req'[q].task = req[q].task
  <2>1. req[q] \in Slot /\ Shape(req[q]) /\ Grounded(req[q], tasks')
    BY <1>1 DEF BoardInv, Fine
  <2>2. InFlight(q) \in BOOLEAN /\ (InFlight(q) \/ req[q].op = "none")
    BY DEF InFlight
  <2>3. /\ [req[q] EXCEPT !.alone = ~InFlight(q)] \in Slot
        /\ Fine([req[q] EXCEPT !.alone = ~InFlight(q)], tasks', assigned', statuses', deleted')
    BY <2>1, <2>2, DisputedFine
  <2>4. req'[q] \in Slot /\ Fine(req'[q], tasks', assigned', statuses', deleted')
    BY <1>1, <2>3
  <2>5. /\ req'[q].op = req[q].op /\ req'[q].plan = req[q].plan
        /\ req'[q].items = req[q].items /\ req'[q].task = req[q].task
    BY <1>1, <2>1 DEF Slot
  <2> QED BY <2>4, <2>5
<1>4. req' \in [Requests -> Slot]
  BY <1>1, <1>3
<1>5. LocksFine'
  <2>1. lock' \in [TaskIds -> Requests \cup {None}]
    BY <1>1 DEF BoardInv, LocksFine
  <2>2. ASSUME NEW t \in TaskIds, lock'[t] # None PROVE Holds(req'[lock'[t]], t)
    <3>1. lock'[t] \in Requests /\ Holds(req[lock'[t]], t)
      BY <1>1, <2>2 DEF BoardInv, LocksFine
    <3> QED BY <1>3, <3>1 DEF Holds, Stage
  <2> QED BY <2>1, <2>2 DEF LocksFine
<1>6. CreatorsApart'
  BY <1>3 DEF BoardInv, CreatorsApart
<1>7. served' \in 0..MaxServed /\ deleted' \subseteq Users
  BY <1>1 DEF BoardInv
<1>8. \A q \in Requests : Fine(req'[q], tasks', assigned', statuses', deleted')
  BY <1>3
<1> QED BY <1>2, <1>4, <1>5, <1>6, <1>7, <1>8 DEF BoardInv

\* A user who is deleted is left out of either side of what a request compares.
LEMMA RemoveUserKeeps ==
    ASSUME BoardInv, NEW u \in Leavers, RemoveUser(u)
    PROVE  BoardInv'
<1>1. /\ UNCHANGED <<tasks, assigned, statuses, lock, req, served>>
      /\ deleted' = deleted \cup {u}
  BY DEF RemoveUser
<1>2. deleted' \subseteq Users
  BY <1>1, TaskConstants DEF BoardInv
<1>3. ASSUME NEW r \in Requests PROVE Fine(req[r], tasks, assigned, statuses, deleted')
  <2>1. Fine(req[r], tasks, assigned, statuses, deleted)
    BY DEF BoardInv
  <2>2. UpdateAssignees(req[r], assigned, deleted) => UpdateAssignees(req[r], assigned, deleted')
    BY <1>1 DEF UpdateAssignees
  <2> QED BY <2>1, <2>2 DEF Fine, Undisputed, UpdateUndisputed
<1>4. LocksFine' /\ CreatorsApart'
  BY <1>1 DEF BoardInv, LocksFine, CreatorsApart
<1> QED BY <1>1, <1>2, <1>3, <1>4 DEF BoardInv

-----------------------------------------------------------------------------
(* Requests begin.                                                         *)

LEMMA BeginKeeps ==
    ASSUME BoardInv, NEW r \in Requests, NEW slot \in Slot, Begin(r, slot),
           Fine(slot, tasks, assigned, statuses, deleted), Apart(r, slot)
    PROVE  BoardInv'
<1>1. req[r].op = "none" /\ Shape(req[r])
  BY DEF Begin, InFlight, BoardInv, Fine
<1>2. Stage(req[r]) = "end"
  BY <1>1 DEF Shape, Stage
<1>3. /\ lock' \in [TaskIds -> Requests \cup {None}]
      /\ \A t \in TaskIds : lock'[t] # r /\ lock'[t] = lock[t]
  BY <1>2, NoLocks DEF BoardInv, LocksFine, Begin
<1>4. served' \in 0..MaxServed
  BY TaskConstants DEF BoardInv, Begin
<1>5. Put(r, slot) /\ UNCHANGED <<tasks, assigned, statuses, deleted>>
  BY DEF Begin
<1> QED BY <1>3, <1>4, <1>5, PutKeeps

LEMMA CreatesKeeps ==
    ASSUME BoardInv, NEW r \in Requests, NEW t \in TaskIds, NEW parent \in TaskIds \cup {None},
           NEW s \in StatusIds \cup {None}, NEW ids \in Seq(Users), NEW actor \in Users,
           NEW op \in Creating,
           FreshTask(t), op = "subtask" => Live(parent), NEW slot,
           slot = [Idle EXCEPT !.op = op, !.task = t, !.parent = parent, !.status = s, !.ids = ids,
                                 !.actor = actor],
           Begin(r, [slot EXCEPT !.plan = CreatePlan(slot)])
    PROVE  BoardInv'
<1> DEFINE n == [slot EXCEPT !.plan = CreatePlan(slot)]
<1>1. /\ slot \in Slot /\ slot.op = op /\ slot.task = t /\ slot.parent = parent
      /\ slot.status = s /\ slot.ids = ids /\ slot.old = {} /\ slot.before = {}
      /\ slot.items = <<>> /\ slot.alone = TRUE
  <2>1. Idle \in Slot /\ op \in Ops
    BY IdleFine DEF Creating, Ops
  <2>2. /\ slot \in Slot /\ slot.op = op /\ slot.task = t /\ slot.parent = parent
        /\ slot.status = s /\ slot.ids = ids
    BY <2>1 DEF Slot
  <2>3. /\ slot.old = {} /\ slot.before = {} /\ slot.items = <<>> /\ slot.alone = TRUE
    BY DEF Idle
  <2> QED BY <2>2, <2>3
<1>2. CreatePlan(slot) = IF op = "subtask" /\ Names(slot) THEN Cons("validate", BeforeInsert(slot))
                         ELSE BeforeInsert(slot)
  BY <1>1, CreatePlans
<1>c. {"validate", "default", "insert"} \subseteq Calls
  BY DEF Calls
<1>3. CreatePlan(slot) \in Seq(Calls)
  BY <1>2, <1>c, PlansTyped, ConsFacts
<1>4. n \in Slot /\ Same(n, slot) /\ n.plan = CreatePlan(slot) /\ n.status = s /\ n.old = {}
  BY <1>1, <1>3 DEF Slot, Same
<1> HIDE DEF n
<1>5. /\ BeforeInsert(n) = BeforeInsert(slot) /\ AfterDefault(n) = AfterDefault(slot)
      /\ Names(n) = Names(slot)
  BY <1>1, <1>4 DEF BeforeInsert, AfterDefault, AfterInsert, Names, Same
<1>6. n.op = op /\ n.task = t /\ n.parent = parent /\ n.ids = ids /\ ids \notin {None, Keep}
      /\ n.before = {} /\ n.items = <<>>
  BY <1>1, <1>4, TaskConstants DEF Same
<1>7. Stage(n) = IF op = "subtask" /\ Names(n) THEN "validate"
                 ELSE IF n.status = None THEN "default" ELSE "insert"
  <2>1. CASE op = "subtask" /\ Names(n)
    BY <1>2, <1>4, <1>5, <1>c, <2>1, StageFacts, PlansTyped
  <2>2. CASE ~(op = "subtask" /\ Names(n))
    <3>1. n.plan = BeforeInsert(n)
      BY <1>2, <1>4, <1>5, <2>2
    <3>2. AfterDefault(n) \in Seq(Calls) /\ AfterInsert(n) \in Seq(Calls)
      BY PlansTyped
    <3>3. n.status = None => Stage(n) = "default"
      BY <1>4, <1>c, <3>1, <3>2, StageFacts DEF BeforeInsert
    <3>4. n.status # None => Stage(n) = "insert"
      BY <1>4, <1>c, <3>1, <3>2, StageFacts DEF BeforeInsert, AfterDefault
    <3> QED BY <2>2, <3>3, <3>4
  <2> QED BY <2>1, <2>2
<1>8. CreateShape(n)
  BY <1>2, <1>4, <1>5, <1>6, <1>7 DEF CreateShape, BeforeInsert
<1>9. Shape(n)
  BY <1>4, <1>6, <1>8 DEF Shape, Creating
<1>10. tasks[t].life = "none" /\ assigned[t] = {}
  BY DEF FreshTask, BoardInv, Tables
<1>11. op = "subtask" => parent \in TaskIds \ {t}
  BY <1>10 DEF Live
<1>12. Grounded(n, tasks)
  BY <1>6, <1>7, <1>10, <1>11 DEF Grounded, Creating, ToInsert
<1>13. CreateUndisputed(n, assigned)
  <2>1. ~Names(n) => Named(n.ids) = {}
    BY <1>6 DEF Names, Named
  <2>2. n.op = "subtask" /\ Stage(n) # "validate" => WithinParent(n, n.parent, assigned)
    BY <1>6, <1>7, <2>1 DEF WithinParent
  <2> QED BY <1>6, <1>7, <1>10, <2>2 DEF CreateUndisputed
<1>14. Fine(n, tasks, assigned, statuses, deleted)
  BY <1>6, <1>9, <1>12, <1>13 DEF Fine, Undisputed, Creating
<1>15. Apart(r, n)
  BY <1>6 DEF FreshTask, Apart
<1>16. Begin(r, n)
  BY DEF n
<1> QED BY <1>4, <1>14, <1>15, <1>16, BeginKeeps

LEMMA UpdateTaskKeeps ==
    ASSUME BoardInv, NEW r \in Requests, NEW t \in TaskIds, NEW s \in Columns \cup {Keep},
           NEW ids \in Lists \cup {None, Keep}, NEW actor \in Users,
           UpdateTask(r, t, s, ids, actor)
    PROVE  BoardInv'
<1> DEFINE status == IF s \in {Keep, tasks[t].status} THEN None ELSE s
           row == IF s = None THEN [tasks[t] EXCEPT !.status = None] ELSE tasks[t]
           slot == [Idle EXCEPT !.op = "update", !.task = t, !.ids = ids, !.actor = actor,
                      !.status = status, !.row = row, !.before = assigned[t]]
           n == [slot EXCEPT !.plan = UpdatePlan(slot)]
<1>1. tasks[t].life = "live" /\ Begin(r, n)
  BY DEF UpdateTask, Live
<1>2. /\ status \in StatusIds \cup {None} /\ ids \in Seq(Users) \cup {None, Keep}
      /\ tasks[t] \in Rows /\ assigned[t] \in SUBSET Users
  BY TaskConstants DEF BoardInv, Tables
<1>r. row \in Rows /\ row.life = tasks[t].life /\ row.parent = tasks[t].parent
  BY <1>2 DEF Rows
<1> HIDE DEF status, row
<1>3. /\ slot \in Slot /\ slot.op = "update" /\ slot.task = t /\ slot.ids = ids
      /\ slot.status = status /\ slot.row = row /\ slot.before = assigned[t]
      /\ slot.items = <<>> /\ slot.alone = TRUE
  <2>1. Idle \in Slot
    BY IdleFine
  <2>2. /\ slot \in Slot /\ slot.op = "update" /\ slot.task = t /\ slot.ids = ids
        /\ slot.status = status /\ slot.row = row /\ slot.before = assigned[t]
    BY <1>2, <1>r, <2>1 DEF Slot, Ops
  <2>3. slot.items = <<>> /\ slot.alone = TRUE
    BY DEF Idle
  <2> QED BY <2>2, <2>3
<1> HIDE DEF slot
<1>4. UpdatePlan(slot) = IF status # None THEN Cons("status", AfterStatus(slot)) ELSE AfterStatus(slot)
  BY <1>3, UpdatePlans
<1>c. {"status", "old", "select"} \subseteq Calls /\ <<>> \in Seq(Calls)
  BY DEF Calls
<1>5. UpdatePlan(slot) \in Seq(Calls)
  BY <1>4, <1>c, PlansTyped, ConsFacts
<1>6. /\ n \in Slot /\ n.plan = UpdatePlan(slot) /\ n.op = "update" /\ n.task = t /\ n.ids = ids
      /\ n.status = status /\ n.row = row /\ n.before = assigned[t]
      /\ n.items = <<>>
  BY <1>3, <1>5 DEF Slot
<1> HIDE DEF n
<1>7. AfterStatus(n) = AfterStatus(slot) /\ AfterOld(n) = AfterOld(slot)
  BY <1>3, <1>6 DEF AfterStatus, AfterOld, AfterValidate, AfterClear, Names
<1>8. Stage(n) = IF n.status # None THEN "status" ELSE IF n.ids # Keep THEN "old" ELSE "select"
  <2>1. CASE n.status # None
    BY <1>4, <1>6, <1>c, <2>1, StageFacts, PlansTyped
  <2>2. CASE n.status = None
    BY <1>4, <1>6, <1>7, <1>c, <2>2, StageFacts, PlansTyped DEF AfterStatus, SaveTask
  <2> QED BY <2>1, <2>2
<1>9. UpdateShape(n)
  BY <1>4, <1>6, <1>7, <1>8, TaskConstants DEF UpdateShape, AfterStatus
<1>10. Shape(n)
  BY <1>6, <1>9 DEF Shape, Creating
<1>11. Grounded(n, tasks)
  BY <1>1, <1>6, <1>r DEF Grounded, Creating
<1>12. Undisputed(n, tasks, assigned, statuses, deleted)
  <2>1. n.ids \notin {None, Keep} => UpdateAssignees(n, assigned, deleted)
    BY <1>6, <1>8 DEF UpdateAssignees
  <2> QED BY <1>6, <1>8, <2>1 DEF Undisputed, UpdateUndisputed, Creating
<1>13. Fine(n, tasks, assigned, statuses, deleted)
  BY <1>10, <1>11, <1>12 DEF Fine
<1>14. Apart(r, n)
  BY <1>6 DEF Apart, Creating
<1>15. Begin(r, n)
  BY <1>1
<1> QED BY <1>6, <1>13, <1>14, <1>15, BeginKeeps

LEMMA BulkUpdatePositionsKeeps ==
    ASSUME BoardInv, NEW r \in Requests, NEW items \in Bulks, BulkUpdatePositions(r, items)
    PROVE  BoardInv'
<1> DEFINE n == [Idle EXCEPT !.op = "bulk", !.items = items, !.left = items,
                             !.plan = BulkPlan(items)]
<1>1. /\ items \in Seq(Item) /\ DOMAIN items = 1..Len(items) /\ Len(items) \in Nat
      /\ \A i, k \in 1..Len(items) : items[i].task = items[k].task => i = k
  <2>1. items \in Seq(Item)
    BY TaskConstants DEF Item
  <2>2. DOMAIN items = 1..Len(items) /\ Len(items) \in Nat
    BY <2>1
  <2> QED BY <2>1, <2>2, TaskConstants
<1>2. ItemsPlan(items) \in Seq(Calls) /\ "statuses" \in Calls
  BY <1>1, ItemsPlans DEF Calls
<1>3. /\ BulkPlan(items) \in Seq(Calls)
      /\ BulkPlan(items) \in {Cons("statuses", ItemsPlan(items)), ItemsPlan(items)}
  <2>1. BulkPlan(items) \in {Cons("statuses", ItemsPlan(items)), ItemsPlan(items)}
    BY <1>1, BulkPlans
  <2>2. Cons("statuses", ItemsPlan(items)) \in Seq(Calls)
    BY <1>2, ConsFacts
  <2> QED BY <1>2, <2>1, <2>2
<1>4. /\ n \in Slot /\ n.op = "bulk" /\ n.items = items /\ n.left = items
      /\ n.plan = BulkPlan(items) /\ n.ids = Keep /\ n.found = {} /\ n.completed = {}
  <2>1. Idle \in Slot
    BY IdleFine
  <2>2. /\ n \in Slot /\ n.op = "bulk" /\ n.items = items /\ n.left = items
        /\ n.plan = BulkPlan(items)
    BY <1>1, <1>3, <2>1 DEF Slot, Ops
  <2>3. n.ids = Keep /\ n.found = {} /\ n.completed = {}
    BY DEF Idle
  <2> QED BY <2>2, <2>3
<1> HIDE DEF n
<1>5. \/ n.plan = Cons("statuses", ItemsPlan(n.left)) /\ Stage(n) = "statuses"
      \/ n.plan = ItemsPlan(n.left) /\ Stage(n) = IF n.left # <<>> THEN "item" ELSE "commit"
  BY <1>2, <1>3, <1>4, StageFacts, ItemsStage
<1>6. BulkShape(n)
  <2>1. Written(n) = 0
    BY <1>1, <1>4 DEF Written
  <2> QED BY <1>1, <1>4, <1>5, <2>1 DEF BulkShape
<1>7. Shape(n)
  BY <1>4, <1>6 DEF Shape, Creating
<1>8. Stage(n) # "end"
  BY <1>5
<1>9. Undisputed(n, tasks, assigned, statuses, deleted)
  BY <1>4, <1>8 DEF Undisputed, BulkUndisputed, Creating
<1>10. Grounded(n, tasks)
  BY <1>4 DEF Grounded, Creating
<1>11. Fine(n, tasks, assigned, statuses, deleted) /\ Apart(r, n)
  BY <1>4, <1>7, <1>9, <1>10 DEF Fine, Apart, Creating
<1>12. Begin(r, n)
  BY DEF BulkUpdatePositions, n
<1> QED BY <1>4, <1>11, <1>12, BeginKeeps

\* The requests of one call.
LEMMA SmallCallKeeps ==
    ASSUME BoardInv, NEW r \in Requests, NEW op \in Ops, NEW call \in Calls,
           \/ op = "remove" /\ call = "delete"
           \/ op \in {"newStatus", "editStatus"} /\ call = "putStatus"
           \/ op = "dropStatus" /\ call = "dropStatus",
           NEW n \in Slot, n.op = op, n.plan = <<call>>, n.items = <<>>, n.ids = Keep,
           op = "remove" => n.task \in TaskIds /\ tasks[n.task].life # "none",
           Begin(r, n)
    PROVE  BoardInv'
<1>1. n.plan = Cons(call, <<>>)
  BY LastCall
<1>2. Shape(n)
  BY <1>1 DEF Shape, Creating, OneCall
<1>3. Grounded(n, tasks) /\ Undisputed(n, tasks, assigned, statuses, deleted)
  BY DEF Grounded, Undisputed, Creating
<1>4. Fine(n, tasks, assigned, statuses, deleted) /\ Apart(r, n)
  BY <1>2, <1>3 DEF Fine, Apart, Creating
<1> QED BY <1>4, BeginKeeps

-----------------------------------------------------------------------------
(* The invariant holds.                                                    *)

LEMMA InitBoard == Init => BoardInv
<1> SUFFICES ASSUME Init PROVE BoardInv
  OBVIOUS
<1>1. NoTask \in Rows /\ NoStatus \in StatusRow
  BY DEF NoTask, Rows, NoStatus, StatusRow
<1>2. Tables(tasks, assigned, statuses)
  <2>1. [NoTask EXCEPT !.life = "live", !.done = TRUE] \in Rows
    BY <1>1 DEF Rows
  <2>2. [NoTask EXCEPT !.life = "live", !.parent = First] \in Rows
    BY <1>1, TaskConstants DEF Rows
  <2>3. tasks \in [TaskIds -> Rows]
    BY <1>1, <2>1, <2>2 DEF Init
  <2> QED BY <1>1, <2>3 DEF Init, Tables
<1>3. \A r \in Requests : /\ req[r] \in Slot /\ Fine(req[r], tasks, assigned, statuses, deleted)
                          /\ req[r].op = "none"
  BY IdleFine DEF Init
<1>4. req \in [Requests -> Slot]
  BY <1>3 DEF Init
<1>5. LocksFine
  BY DEF Init, LocksFine
<1>6. CreatorsApart
  BY <1>3 DEF CreatorsApart, Creating
<1>7. served \in 0..MaxServed
  BY TaskConstants DEF Init
<1>8. deleted \subseteq Users
  BY DEF Init
<1> QED BY <1>2, <1>3, <1>4, <1>5, <1>6, <1>7, <1>8 DEF BoardInv

LEMMA CallKeeps ==
    ASSUME BoardInv, NEW r \in Requests, Call(r)
    PROVE  BoardInv'
<1>c. /\ Parents \subseteq TaskIds \cup {None} /\ Columns \subseteq StatusIds \cup {None}
      /\ Lists \subseteq Seq(Users) /\ Actors \subseteq Users
  BY TaskConstants
<1>i. Idle \in Slot
  BY IdleFine
<1>1. ASSUME NEW t \in TaskIds, NEW parent \in Parents, NEW s \in Columns, NEW ids \in Lists,
             NEW actor \in Actors, CreateTask(r, t, parent, s, ids, actor)
      PROVE  BoardInv'
  <2> DEFINE n == [Idle EXCEPT !.op = "create", !.task = t, !.parent = parent, !.status = s,
                               !.ids = ids, !.actor = actor]
  <2>1. FreshTask(t) /\ Begin(r, [n EXCEPT !.plan = CreatePlan(n)])
    BY <1>1 DEF CreateTask
  <2>2. "create" \in Creating /\ parent \in TaskIds \cup {None} /\ ids \in Seq(Users)
        /\ s \in StatusIds \cup {None} /\ actor \in Users
    BY <1>c DEF Creating
  <2> QED BY <2>1, <2>2, CreatesKeeps
<1>2. ASSUME NEW t \in TaskIds, NEW parent \in Parents, NEW s \in Columns, NEW ids \in Lists,
             NEW actor \in Actors, CreateSubtask(r, t, parent, s, ids, actor)
      PROVE  BoardInv'
  <2> DEFINE n == [Idle EXCEPT !.op = "subtask", !.task = t, !.parent = parent, !.status = s,
                               !.ids = ids, !.actor = actor]
  <2>1. FreshTask(t) /\ Begin(r, [n EXCEPT !.plan = CreatePlan(n)])
        /\ Live(parent)
    BY <1>2 DEF CreateSubtask
  <2>2. "subtask" \in Creating /\ parent \in TaskIds \cup {None} /\ ids \in Seq(Users)
        /\ s \in StatusIds \cup {None} /\ actor \in Users
    BY <1>c DEF Creating
  <2> QED BY <2>1, <2>2, CreatesKeeps
<1>3. ASSUME NEW t \in TaskIds, NEW s \in Columns \cup {Keep},
             NEW ids \in Lists \cup {None, Keep}, NEW actor \in Actors,
             UpdateTask(r, t, s, ids, actor)
      PROVE  BoardInv'
  BY <1>3, <1>c, UpdateTaskKeeps
<1>4. ASSUME NEW t \in TaskIds, RemoveTask(r, t)
      PROVE  BoardInv'
  <2> DEFINE n == [Idle EXCEPT !.op = "remove", !.task = t, !.plan = <<"delete">>]
  <2>1. "delete" \in Calls /\ <<"delete">> \in Seq(Calls) /\ "remove" \in Ops
    BY DEF Calls, Ops
  <2>2. n \in Slot /\ n.op = "remove" /\ n.task = t /\ n.plan = <<"delete">>
    BY <1>i, <2>1 DEF Slot
  <2>3. n.items = <<>> /\ n.ids = Keep
    BY DEF Idle
  <2>4. Begin(r, n) /\ tasks[t].life # "none"
    BY <1>4 DEF RemoveTask, Live
  <2> HIDE DEF n
  <2> QED BY <2>1, <2>2, <2>3, <2>4, SmallCallKeeps
<1>5. ASSUME NEW items \in Bulks, BulkUpdatePositions(r, items)
      PROVE  BoardInv'
  BY <1>5, BulkUpdatePositionsKeeps
<1>6. ASSUME NEW s \in StatusIds, NEW completed \in BOOLEAN, NEW op \in {"newStatus", "editStatus"},
             Begin(r, [Idle EXCEPT !.op = op, !.status = s,
                         !.completed = IF completed THEN {s} ELSE {}, !.plan = <<"putStatus">>])
      PROVE  BoardInv'
  <2> DEFINE n == [Idle EXCEPT !.op = op, !.status = s,
                     !.completed = IF completed THEN {s} ELSE {}, !.plan = <<"putStatus">>]
  <2>1. "putStatus" \in Calls /\ <<"putStatus">> \in Seq(Calls) /\ op \in Ops
    BY DEF Calls, Ops
  <2>2. n \in Slot /\ n.op = op /\ n.plan = <<"putStatus">>
    BY <1>i, <2>1 DEF Slot
  <2>3. n.items = <<>> /\ n.ids = Keep
    BY DEF Idle
  <2>4. Begin(r, n)
    BY <1>6
  <2> HIDE DEF n
  <2> QED BY <2>1, <2>2, <2>3, <2>4, SmallCallKeeps
<1>7. ASSUME NEW s \in StatusIds, NEW completed \in BOOLEAN,
             CreateStatus(r, s, completed) \/ UpdateStatus(r, s, completed)
      PROVE  BoardInv'
  BY <1>6, <1>7 DEF CreateStatus, UpdateStatus
<1>8. ASSUME NEW s \in StatusIds, RemoveStatus(r, s)
      PROVE  BoardInv'
  <2> DEFINE n == [Idle EXCEPT !.op = "dropStatus", !.status = s, !.plan = <<"dropStatus">>]
  <2>1. "dropStatus" \in Calls /\ <<"dropStatus">> \in Seq(Calls) /\ "dropStatus" \in Ops
    BY DEF Calls, Ops
  <2>2. n \in Slot /\ n.op = "dropStatus" /\ n.plan = <<"dropStatus">>
    BY <1>i, <2>1 DEF Slot
  <2>3. n.items = <<>> /\ n.ids = Keep
    BY DEF Idle
  <2>4. Begin(r, n)
    BY <1>8 DEF RemoveStatus
  <2> HIDE DEF n
  <2> QED BY <2>1, <2>2, <2>3, <2>4, SmallCallKeeps
<1> QED BY <1>1, <1>2, <1>3, <1>4, <1>5, <1>7, <1>8 DEF Call

LEMMA GoOnKeeps ==
    ASSUME BoardInv, NEW r \in Requests, GoOn(r)
    PROVE  BoardInv'
<1>1. ASSUME Rollback(r) PROVE BoardInv'
  BY <1>1, FinishKeeps DEF Rollback
<1>2. ASSUME Answer(r) PROVE BoardInv'
  <2>1. Stage(req[r]) = "end"
    BY <1>2 DEF Answer, Answered, Stage
  <2> QED BY <1>2, <2>1, FinishKeeps DEF Answer
<1> QED BY <1>1, <1>2, FindDefaultKeeps, InsertTaskKeeps, FindStatusKeeps, OldAssigneesKeeps,
           ValidateAssigneesKeeps, ClearAssigneesKeeps, InsertAssigneesKeeps, SelectTaskKeeps,
           WriteTaskKeeps, SoftDeleteTaskKeeps, LoadStatusesKeeps, WriteItemKeeps, CommitKeeps,
           PutStatusKeeps, DropStatusKeeps DEF GoOn

LEMMA NextBoard == BoardInv /\ [Next]_vars => BoardInv'
<1> SUFFICES ASSUME BoardInv, [Next]_vars PROVE BoardInv'
  OBVIOUS
<1>1. ASSUME NEW r \in Requests, BreakDeadlock(r) PROVE BoardInv'
  BY <1>1, FinishKeeps DEF BreakDeadlock
<1>2. CASE Next
  BY <1>1, <1>2, CallKeeps, GoOnKeeps, SeedStatusesKeeps, RemoveUserKeeps DEF Next
<1>3. CASE UNCHANGED vars
  BY <1>3 DEF vars, BoardInv, LocksFine, CreatorsApart
<1> QED BY <1>2, <1>3

THEOREM BoardHolds == Spec => []BoardInv
BY InitBoard, NextBoard, PTL DEF Spec

-----------------------------------------------------------------------------
(* Theorems.                                                               *)

LEMMA AnsweredStage ==
    ASSUME BoardInv, NEW r \in Requests, Answered(r)
    PROVE  /\ req[r] \in Slot /\ Shape(req[r]) /\ Grounded(req[r], tasks)
           /\ Stage(req[r]) = "end"
           /\ req[r].alone => Undisputed(req[r], tasks, assigned, statuses, deleted)
BY DEF BoardInv, Fine, Answered, Stage

\* The tables and the requests have their types, and a row is locked only by a bulk
\* move that names it and has neither committed nor been rolled back.
THEOREM BoardTyped == Spec => []TypeOK
<1>1. BoardInv => TypeOK
  <2> SUFFICES ASSUME BoardInv PROVE TypeOK
    OBVIOUS
  <2>1. /\ tasks \in [TaskIds -> Rows] /\ assigned \in [TaskIds -> SUBSET Users]
        /\ statuses \in [StatusIds -> [life: {"none", "live", "gone"}, completed: BOOLEAN]]
        /\ lock \in [TaskIds -> Requests \cup {None}]
        /\ served \in 0..MaxServed /\ deleted \subseteq Users
    BY DEF BoardInv, Tables, StatusRow, LocksFine
  <2>2. req \in [Requests -> Slot]
    BY DEF BoardInv
  <2>3. ASSUME NEW t \in TaskIds, lock[t] # None
        PROVE  /\ At(lock[t], "item") \/ At(lock[t], "commit")
               /\ \E i \in DOMAIN req[lock[t]].items : req[lock[t]].items[i].task = t
    <3>1. lock[t] \in Requests /\ Holds(req[lock[t]], t) /\ req[lock[t]] \in Slot
      BY <2>3 DEF BoardInv, LocksFine
    <3>2. At(lock[t], "item") \/ At(lock[t], "commit")
      BY <3>1 DEF Holds, Stage, At, InFlight
    <3>3. DOMAIN req[lock[t]].items = 1..Len(req[lock[t]].items)
      BY <3>1 DEF Slot
    <3> QED BY <3>1, <3>2, <3>3 DEF Holds
  <2> QED BY <2>1, <2>2, <2>3 DEF TypeOK, Slot, Item, Ops
<1> QED BY <1>1, BoardHolds, PTL

\* Completion dates follow the statuses, whichever statuses and tasks there are.
THEOREM DatesFollow == Spec => []DateFollowsStatus
<1>1. BoardInv => DateFollowsStatus
  <2> SUFFICES ASSUME BoardInv, NEW r \in Requests, Undisturbed(r), NEW t \in MovedBy(r),
                      tasks[t].life # "none"
               PROVE  tasks[t].done <=> statuses[tasks[t].status].completed
    BY DEF DateFollowsStatus
  <2>1. /\ req[r] \in Slot /\ Shape(req[r]) /\ Stage(req[r]) = "end"
        /\ Undisputed(req[r], tasks, assigned, statuses, deleted)
    BY AnsweredStage DEF Undisturbed
  <2>2. CASE req[r].op = "update" /\ req[r].status # None
    <3>1. t = req[r].task /\ t \in TaskIds
      BY <2>1, <2>2 DEF MovedBy, Shape
    <3>2. /\ req[r].row.status = req[r].status
          /\ req[r].row.done = statuses[req[r].status].completed
          /\ \A c \in Fields : tasks[t][c] = req[r].row[c]
      BY <2>1, <2>2, <3>1 DEF Undisputed, UpdateUndisputed
    <3>3. tasks[t] \in Rows /\ req[r].row \in Rows
      BY <2>1, <3>1 DEF BoardInv, Tables, Slot
    <3>4. tasks[t].status = req[r].status /\ tasks[t].done = statuses[req[r].status].completed
      BY <3>2, <3>3, RowFields DEF Fields
    <3> QED BY <3>4
  <2>3. CASE ~(req[r].op = "update" /\ req[r].status # None)
    <3>1. PICK i \in DOMAIN req[r].items : req[r].items[i].status # None /\ req[r].items[i].task = t
      BY <2>3 DEF MovedBy
    <3>2. DOMAIN req[r].items = 1..Len(req[r].items)
      BY <2>1 DEF Slot
    <3>3. req[r].op = "bulk"
      BY <2>1, <3>1 DEF Shape
    <3>4. tasks[t].status = req[r].items[i].status
          /\ tasks[t].done = statuses[req[r].items[i].status].completed
      BY <2>1, <3>1, <3>2, <3>3 DEF Undisputed, BulkUndisputed
    <3> QED BY <3>4
  <2> QED BY <2>2, <2>3
<1> QED BY <1>1, BoardHolds, PTL

\* Of the people who have not been deleted, those who get task.assigned or
\* task.unassigned have been assigned or unassigned by somebody else, and they all
\* get it, for every list of people and whoever is deleted meanwhile.
THEOREM EventsTell == Spec => []TellsDifference
<1>1. BoardInv => TellsDifference
  <2> DEFINE Others(r) == Users \ (deleted \cup {req[r].actor})
  <2> SUFFICES ASSUME BoardInv, NEW r \in Requests, Undisturbed(r), req[r].ids # Keep
               PROVE  /\ ToldAssigned(req[r]) \ deleted
                           = (assigned[req[r].task] \ req[r].before) \cap Others(r)
                      /\ ToldUnassigned(req[r]) \ deleted
                           = (req[r].before \ assigned[req[r].task]) \cap Others(r)
    BY DEF TellsDifference
  <2>1. /\ req[r] \in Slot /\ Shape(req[r]) /\ Stage(req[r]) = "end"
        /\ Undisputed(req[r], tasks, assigned, statuses, deleted)
    BY AnsweredStage DEF Undisturbed
  <2>2. /\ req[r].op \in Creating \cup {"update"}
        /\ req[r].ids # None
    BY <2>1 DEF Shape, UpdateShape
  <2>3. /\ assigned[req[r].task] = Named(req[r].ids)
        /\ req[r].old \ deleted = req[r].before \ deleted
    BY <2>1, <2>2 DEF Shape, Undisputed, CreateUndisputed, UpdateUndisputed, UpdateAssignees
  <2>4. req[r].task \in TaskIds
    BY <2>1, <2>2 DEF Shape
  <2>5. assigned[req[r].task] \subseteq Users /\ req[r].before \subseteq Users
    BY <2>1, <2>4 DEF BoardInv, Tables, Slot
  <2> QED BY <2>3, <2>5 DEF ToldAssigned, ToldUnassigned
<1> QED BY <1>1, BoardHolds, PTL

\* The people assigned to a subtask are assigned to its parent, if anybody is, for
\* every tree of tasks.
THEOREM SubtasksWithin == Spec => []SubtaskWithinParent
<1>1. BoardInv => SubtaskWithinParent
  <2> SUFFICES ASSUME BoardInv, NEW r \in Requests, Undisturbed(r),
                      req[r].op \in {"subtask", "update"}, req[r].ids # Keep
               PROVE  LET allowed == AssigneesOf(tasks[req[r].task].parent)
                      IN  allowed = {} \/ assigned[req[r].task] \subseteq allowed
    BY DEF SubtaskWithinParent
  <2>1. /\ Shape(req[r]) /\ Stage(req[r]) = "end" /\ Grounded(req[r], tasks)
        /\ Undisputed(req[r], tasks, assigned, statuses, deleted)
    BY AnsweredStage DEF Undisturbed
  <2>i. req[r].ids # None
    BY <2>1 DEF Shape, UpdateShape, Creating
  <2>2. assigned[req[r].task] = Named(req[r].ids) /\ req[r].task \in TaskIds
    BY <2>1, <2>i DEF Shape, Undisputed, CreateUndisputed, UpdateUndisputed, UpdateAssignees,
                Creating
  <2>3. WithinParent(req[r], tasks[req[r].task].parent, assigned)
    BY <2>1, <2>i DEF Grounded, Undisputed, CreateUndisputed, UpdateUndisputed, UpdateAssignees,
                Creating, ToInsert
  <2> QED BY <2>2, <2>3 DEF WithinParent, AssigneesOf
<1> QED BY <1>1, BoardHolds, PTL

\* Bulk moves are all or nothing, for every list of cards.
THEOREM BulkWhole == Spec => BulkAllOrNothing
<1> DEFINE Whole(r) ==
      req[r].op = "bulk" /\ req'[r].plan # req[r].plan /\ tasks' # tasks =>
          \A i \in DOMAIN req[r].items :
              LET item == req[r].items[i]
              IN  tasks[item.task].life = "none" \/ tasks'[item.task].pos = item.pos
<1>1. ASSUME BoardInv, [Next]_vars, NEW r \in Requests PROVE Whole(r)
  <2> SUFFICES ASSUME req[r].op = "bulk", req'[r].plan # req[r].plan, tasks' # tasks,
                      NEW i \in DOMAIN req[r].items,
                      tasks[req[r].items[i].task].life # "none"
               PROVE  tasks'[req[r].items[i].task].pos = req[r].items[i].pos
    OBVIOUS
  <2>1. PICK s \in Requests : InsertTask(s) \/ WriteTask(s) \/ SoftDeleteTask(s) \/ Commit(s)
    <3>1. ASSUME NEW s \in Requests, Call(s) PROVE FALSE
      <4>1. \A slot : Begin(s, slot) => UNCHANGED tasks
        BY DEF Begin
      <4>2. \A t, parent, status, ids, actor :
               CreateTask(s, t, parent, status, ids, actor)
                 \/ CreateSubtask(s, t, parent, status, ids, actor) => UNCHANGED tasks
        BY <4>1 DEF CreateTask, CreateSubtask
      <4>3. \A t, status, ids, actor : UpdateTask(s, t, status, ids, actor) => UNCHANGED tasks
        BY <4>1 DEF UpdateTask
      <4>4. /\ \A t : RemoveTask(s, t) => UNCHANGED tasks
            /\ \A items : BulkUpdatePositions(s, items) => UNCHANGED tasks
        BY <4>1 DEF RemoveTask, BulkUpdatePositions
      <4>5. \A status, completed :
               CreateStatus(s, status, completed) \/ UpdateStatus(s, status, completed)
                 \/ RemoveStatus(s, status) => UNCHANGED tasks
        BY <4>1 DEF CreateStatus, UpdateStatus, RemoveStatus
      <4> QED BY <1>1, <3>1, <4>2, <4>3, <4>4, <4>5 DEF Call
    <3>2. ASSUME NEW s \in Requests, GoOn(s)
          PROVE  InsertTask(s) \/ WriteTask(s) \/ SoftDeleteTask(s) \/ Commit(s)
      BY <1>1, <3>2 DEF GoOn, FindDefault, FindStatus, OldAssignees, ValidateAssignees,
                  ClearAssignees, InsertAssignees, SelectTask, LoadStatuses, WriteItem, Rollback,
                  PutStatus, DropStatus, Answer
    <3>3. ~UNCHANGED vars
      BY DEF vars
    <3> QED BY <1>1, <3>1, <3>2, <3>3 DEF Next, BreakDeadlock, SeedStatuses, RemoveUser
  <2>2. s = r
    <3>1. ASSUME s # r PROVE FALSE
      <4>1. req'[r] = [req[r] EXCEPT !.alone = ~InFlight(r)]
        BY <2>1, <3>1 DEF InsertTask, WriteTask, SoftDeleteTask, Commit, PutWriting
      <4>2. req[r] \in Slot
        BY <1>1 DEF BoardInv
      <4> QED BY <4>1, <4>2 DEF Slot
    <3> QED BY <3>1
  <2>3. Commit(r)
    <3>1. {"insert", "write", "delete"} \subseteq Calls
      BY DEF Calls
    <3>2. ~InsertTask(r) /\ ~WriteTask(r) /\ ~SoftDeleteTask(r)
      BY <1>1, <3>1, AtFacts, StageOps DEF InsertTask, WriteTask, SoftDeleteTask, Creating
    <3> QED BY <2>1, <2>2, <3>2
  <2>4. /\ req[r] \in Slot /\ Shape(req[r])
    BY <1>1 DEF BoardInv, Fine
  <2>5. /\ DOMAIN req[r].items = 1..Len(req[r].items) /\ req[r].items[i] \in Item
        /\ \A k \in DOMAIN req[r].items : req[r].items[k].task = req[r].items[i].task => k = i
    <3>1. req[r].items \in Seq(Item)
      BY <2>4 DEF Slot
    <3>2. DOMAIN req[r].items = 1..Len(req[r].items) /\ req[r].items[i] \in Item
      BY <3>1
    <3> QED BY <2>4, <3>2 DEF Shape, BulkShape
  <2>6. (CHOOSE k \in DOMAIN req[r].items : req[r].items[k].task = req[r].items[i].task) = i
    BY <2>5
  <2>7. req[r].items[i].task \in TaskIds
    BY <2>5 DEF Item
  <2>8. tasks'[req[r].items[i].task]
          = Moved(tasks[req[r].items[i].task], req[r].items[i], req[r].completed)
    BY <2>3, <2>6, <2>7 DEF Commit
  <2>9. tasks[req[r].items[i].task] \in Rows
    BY <1>1, <2>7 DEF BoardInv, Tables
  <2> QED BY <2>8, <2>9 DEF Moved, Rows
<1>2. BoardInv /\ [Next]_vars => [\A r \in Requests : Whole(r)]_vars
  BY <1>1
<1>3. [][\A r \in Requests : Whole(r)]_vars <=> BulkAllOrNothing
  BY DEF BulkAllOrNothing
<1> QED BY <1>2, <1>3, BoardHolds, PTL DEF Spec
=============================================================================

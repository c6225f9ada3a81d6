----------------------------- MODULE ProjectTree -----------------------------
(***************************************************************************)
(* The tree that parentId makes of the projects: ProjectsService.create,   *)
(* update and remove again, this time for the rows' parents.  Members and  *)
(* who may do what are in module Projects; the checks of access are reads  *)
(* of other tables and do not show here.                                   *)
(*                                                                         *)
(* A project's id is the place of its row in `tree', in the order of the   *)
(* insertions; 0 is the parent of a project without one.                   *)
(***************************************************************************)
EXTENDS Handlers

CONSTANT MaxTree    \* bound: rows of the table

VARIABLE tree       \* tree[p] : the row of project p

LiveProject(p) == p \in DOMAIN tree /\ tree[p].live
IsRoot(p) == LiveProject(p) /\ tree[p].parent = 0
SubProjects(p) == {c \in DOMAIN tree : tree[c].parent = p}

TreeInit == tree = <<>>

\* create: a parent must be there and have no parent itself.
CreateInTree(r, parent) ==
    /\ Len(tree) + Pending({"tree.insert"}) < MaxTree
    /\ parent = 0 \/ IsRoot(parent)
    /\ Receive(r, "tree.insert", [parent |-> parent])
    /\ UNCHANGED tree

InsertInTree(r) ==
    /\ Awaits(r, "tree.insert")
    /\ tree' = Append(tree, [parent |-> My(r).parent, live |-> TRUE])
    /\ Answer(r)

\* update without a parentId saves the row that it read.
EditInTree(r, p) ==
    /\ LiveProject(p)
    /\ Receive(r, "tree.save", [id |-> p, parent |-> tree[p].parent])
    /\ UNCHANGED tree

\* update with a parentId, null (0) or another project.
MoveInTree(r, p, parent) ==
    /\ LiveProject(p)
    /\ parent # p
    /\ Receive(r, IF parent = 0 THEN "tree.save" ELSE "tree.parent",
               [id |-> p, parent |-> parent])
    /\ UNCHANGED tree

FindNewParent(r) ==
    /\ Awaits(r, "tree.parent")
    /\ Demand(r, IsRoot(My(r).parent), "tree.count")
    /\ UNCHANGED tree

\* Mutant: the project's own children are not counted.
CountSubProjects_Skipped(r) ==
    /\ Awaits(r, "tree.count")
    /\ AwaitNext(r, "tree.save")
    /\ UNCHANGED tree

CountSubProjects(r) ==
    /\ Awaits(r, "tree.count")
    /\ Demand(r, ~\E c \in SubProjects(My(r).id) : tree[c].live, "tree.save")
    /\ UNCHANGED tree

\* The entity was live when it was read, so the save undoes a deletion.
SaveInTree(r) ==
    /\ Awaits(r, "tree.save")
    /\ tree' = [tree EXCEPT ![My(r).id] = [parent |-> My(r).parent, live |-> TRUE]]
    /\ Answer(r)

RemoveFromTree(r, p) ==
    /\ LiveProject(p)
    /\ Receive(r, "tree.remove", [id |-> p])
    /\ UNCHANGED tree

\* One transaction makes roots of the children and deletes the project.
OrphanAndDelete(r) ==
    /\ Awaits(r, "tree.remove")
    /\ tree' = [c \in DOMAIN tree |->
                   IF c = My(r).id THEN [tree[c] EXCEPT !.live = FALSE]
                   ELSE IF c \in SubProjects(My(r).id) THEN [tree[c] EXCEPT !.parent = 0]
                   ELSE tree[c]]
    /\ Answer(r)

TreeCalls(r) ==
    \/ InsertInTree(r)
    \/ FindNewParent(r) \/ CountSubProjects(r) \/ SaveInTree(r)
    \/ OrphanAndDelete(r)

TreeNext(r) ==
    \/ \E parent \in 0..Len(tree) : CreateInTree(r, parent)
    \/ \E p \in DOMAIN tree, parent \in 0..Len(tree) : MoveInTree(r, p, parent)
    \/ \E p \in DOMAIN tree : EditInTree(r, p)
    \/ \E p \in DOMAIN tree : RemoveFromTree(r, p)
    \/ TreeCalls(r)

\* The tree on its own.
TreeSpec == HandlersInit /\ TreeInit /\ [][\E r \in Slots : TreeNext(r)]_<<calls, tree>>

-----------------------------------------------------------------------------
TwoLevels == \A p \in DOMAIN tree :
    tree[p].live /\ tree[p].parent # 0 => IsRoot(tree[p].parent)

\* "Max depth: 2 niveles" and "avoid dangling parentId references": a request
\* that overlaps with no other one keeps every live sub-project under a live
\* project without a parent, whatever races have left of the rest of the table.
TreeKeepsTwoLevels == [][TwoLevels /\ ~TwoLevels' => Raced]_<<calls, tree>>
=============================================================================

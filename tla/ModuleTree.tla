----------------------------- MODULE ModuleTree -----------------------------
(***************************************************************************)
(* The modules of projects: ProjectModulesService.                         *)
(*                                                                         *)
(* A module's id is the place of its row in `modules'; 0 is the parent of  *)
(* a root.  The handlers that follow the tree make one query per module.   *)
(* Names and positions are left out: reorder's route is hidden by the one  *)
(* of update, declared before it, and nothing else reads a position.       *)
(***************************************************************************)
EXTENDS Handlers

CONSTANTS
    Sites,      \* projects
    Levels,     \* the levels of modules that create allows: 3
    MaxModules  \* bound: rows of the table

\* A module may have a parent.
ASSUME LevelsAssumption == Levels \in Nat /\ Levels >= 2

VARIABLE modules    \* modules[m] : the row of module m

ModVars == <<calls, modules>>

LiveModule(m) == m \in DOMAIN modules /\ modules[m].live
Submodules(m) == {c \in DOMAIN modules : modules[c].live /\ modules[c].parent = m}

ModInit == modules = <<>>

\* create with a parent reads it; getModuleDepth goes on above it.
CreateModule(r, site, parent) ==
    /\ Len(modules) + Pending({"mod.depth", "mod.insert"}) < MaxModules
    /\ parent # 0 => LiveModule(parent) /\ modules[parent].site = site
    /\ LET above == IF parent = 0 THEN 0 ELSE modules[parent].parent
       IN  Receive(r, IF above = 0 THEN "mod.insert" ELSE "mod.depth",
                   [site |-> site, parent |-> parent, above |-> above, depth |-> 0])
    /\ UNCHANGED modules

\* Mutant: one level too many.
DepthAllowed_Off(depth) == depth + 1 <= Levels

DepthAllowed(depth) == depth + 1 < Levels

\* One round of the loop of getModuleDepth, which ends at a module without a
\* parent or at one that is gone.  Above Levels the depth's value does not matter.
WalkUp(r) ==
    LET my == My(r)
        above == IF LiveModule(my.above) THEN modules[my.above].parent ELSE 0
        depth == IF my.depth = Levels THEN Levels ELSE my.depth + 1
    IN  /\ Awaits(r, "mod.depth")
        /\ IF above # 0
           THEN Await(r, "mod.depth", [my EXCEPT !.above = above, !.depth = depth])
           ELSE IF DepthAllowed(depth) THEN AwaitNext(r, "mod.insert") ELSE Answer(r)
        /\ UNCHANGED modules

\* The parent's row is there, deleted or not: the foreign key is content.
InsertModule(r) ==
    /\ Awaits(r, "mod.insert")
    /\ modules' = Append(modules, [site |-> My(r).site, parent |-> My(r).parent, live |-> TRUE])
    /\ Answer(r)

\* update assigns whatever parent the request names to the module that it read.
UpdateModule(r, m, parent) ==
    /\ LiveModule(m)
    /\ Receive(r, "mod.save", [id |-> m, row |-> [modules[m] EXCEPT !.parent = parent]])
    /\ UNCHANGED modules

SaveModule(r) ==
    /\ Awaits(r, "mod.save")
    /\ modules' = [modules EXCEPT ![My(r).id] = My(r).row]
    /\ Answer(r)

\* remove: `found' are the ids it will delete, `todo' those of them whose
\* children getDescendantIds has yet to read.
RemoveModule(r, m) ==
    /\ LiveModule(m)
    /\ Receive(r, "mod.children", [found |-> {m}, todo |-> {m}])
    /\ UNCHANGED modules

\* Mutant: children only, without the recursion.
ReadChildren_Flat(r) ==
    /\ Awaits(r, "mod.children")
    /\ \E m \in My(r).todo :
          Await(r, "mod.delete", [found |-> My(r).found \cup Submodules(m), todo |-> {}])
    /\ UNCHANGED modules

\* Mutant: the recursion starts from the module again, not from its child.
ReadChildren_Again(r) ==
    /\ Awaits(r, "mod.children")
    /\ \E m \in My(r).todo :
          LET todo == IF Submodules(m) = {} THEN {} ELSE {m}
          IN  Await(r, IF todo = {} THEN "mod.delete" ELSE "mod.children",
                    [found |-> My(r).found \cup Submodules(m), todo |-> todo])
    /\ UNCHANGED modules

ReadChildren(r) ==
    /\ Awaits(r, "mod.children")
    /\ \E m \in My(r).todo :
          LET todo == (My(r).todo \ {m}) \cup Submodules(m)
          IN  Await(r, IF todo = {} THEN "mod.delete" ELSE "mod.children",
                    [found |-> My(r).found \cup Submodules(m), todo |-> todo])
    /\ UNCHANGED modules

DeleteModules(r) ==
    /\ Awaits(r, "mod.delete")
    /\ modules' = [m \in DOMAIN modules |->
                      IF m \in My(r).found THEN [modules[m] EXCEPT !.live = FALSE]
                                           ELSE modules[m]]
    /\ Answer(r)

ModCalls(r) ==
    \/ WalkUp(r) \/ InsertModule(r)
    \/ SaveModule(r)
    \/ ReadChildren(r) \/ DeleteModules(r)

ModNext(r) ==
    \/ \E site \in Sites, parent \in 0..Len(modules) : CreateModule(r, site, parent)
    \/ \E m \in DOMAIN modules, parent \in 0..Len(modules) : UpdateModule(r, m, parent)
    \/ \E m \in DOMAIN modules : RemoveModule(r, m)
    \/ ModCalls(r)

\* The modules on their own.
ModSpec == HandlersInit /\ ModInit /\ [][\E r \in Slots : ModNext(r)]_ModVars

-----------------------------------------------------------------------------
Above(m) == {a \in DOMAIN modules : modules[m].parent = a}

\* Some modules are above each other, or one is above itself.
Circle == \E ring \in SUBSET (DOMAIN modules) \ {{}} :
              \A m \in ring : LiveModule(m) /\ Above(m) \cap ring # {}

Up(m) == IF LiveModule(m) THEN modules[m].parent ELSE 0

\* Module m, once it is in the table, has fewer than Levels modules above it.
WithinLevels(m) ==
    LET up[k \in 1..Levels] == IF k = 1 THEN modules'[m].parent ELSE Up(up[k - 1])
    IN  up[Levels] = 0

\* What a handler leaves of the modules when its last call is the one given.
Leaves(r, call, Holds(_)) ==
    Awaits(r, call) /\ ~Awaits(r, call)' /\ modules' # modules /\ calls[r].alone
        => \A m \in DOMAIN modules' : modules'[m].live => Holds(m)

\* "Eliminar modulo (y sus submodulos)" and "3 niveles": where no other handler
\* got in between, a deletion leaves no module under one that it deleted, and
\* a creation puts none on a level below the last.
ModulesInOrder ==
    [][\A r \in Slots :
          /\ Leaves(r, "mod.delete", LAMBDA m : modules'[m].parent \notin My(r).found)
          /\ Leaves(r, "mod.insert", LAMBDA m : m \in DOMAIN modules \/ WithinLevels(m))
      ]_ModVars
=============================================================================

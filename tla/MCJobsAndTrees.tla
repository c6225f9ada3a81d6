---------------------------- MODULE MCJobsAndTrees ----------------------------
(***************************************************************************)
(* Broadcasts, the tree of projects, the modules of a project and the      *)
(* feature flags, in one run: one of them, the desk, moves from the        *)
(* initial state on.                                                       *)
(***************************************************************************)
EXTENDS MCBroadcasts, ProjectTree, ModuleTree, FeatureFlags

\* Flags that need the next one, each other, or nothing; "f3" is never there.
Chains ==
    {[key |-> "f1", on |-> TRUE, needs |-> "f2"],
     [key |-> "f2", on |-> TRUE, needs |-> "f1"],
     [key |-> "f2", on |-> TRUE, needs |-> "f3"],
     [key |-> "f2", on |-> TRUE, needs |-> NoKey],
     [key |-> "f2", on |-> FALSE, needs |-> NoKey]}

VARIABLE desk

deskVars == <<desk, vars, calls, tree, modules, flags>>

DesksInit ==
    /\ desk \in {"broadcasts", "projects", "modules", "flags"}
    /\ Init /\ HandlersInit /\ TreeInit /\ ModInit /\ FlagsInit

DesksNext ==
    \/ /\ desk = "broadcasts" /\ Next
       /\ UNCHANGED <<desk, calls, tree, modules, flags>>
    \/ \E r \in Slots :
          \/ desk = "projects" /\ TreeNext(r) /\ UNCHANGED <<desk, vars, modules, flags>>
          \/ desk = "modules" /\ ModNext(r) /\ UNCHANGED <<desk, vars, tree, flags>>
          \/ desk = "flags" /\ FlagsNext(r) /\ UNCHANGED <<desk, vars, tree, modules>>

HandlerCalls(r) ==
    \/ TreeCalls(r) /\ UNCHANGED <<desk, vars, modules, flags>>
    \/ ModCalls(r) /\ UNCHANGED <<desk, vars, tree, flags>>
    \/ FlagCalls(r) /\ UNCHANGED <<desk, vars, tree, modules>>

\* The database answers every handler in the end.
DesksSpec ==
    /\ DesksInit /\ [][DesksNext]_deskVars
    /\ Fairness
    /\ \A r \in Slots : WF_deskVars(HandlerCalls(r))

-----------------------------------------------------------------------------
\* A handler goes on for ever only if the modules or the flags that it follows
\* form a circle, which their updates do not prevent, or if somebody keeps
\* changing them.
WalksEnd ==
    \A r \in Slots :
        \/ []<>(~InFlight(r))
        \/ []<>(Circle \/ FlagCircle)
        \/ []<><<\E s \in Slots : SaveModule(s) \/ InsertFlag(s) \/ SaveFlag(s)>>_<<calls, modules, flags>>
=============================================================================

------------------------------ MODULE Membership ------------------------------
(***************************************************************************)
(* What organizations and projects promise about their members: an         *)
(* abstract specification, without requests, look-ups, deletions of groups *)
(* or primary keys.  A group is founded once, by the person who owns it    *)
(* from then on; one person at a time is admitted with a role, keeps that  *)
(* role, and may be dismissed, unless the role is that of an owner.        *)
(***************************************************************************)
CONSTANTS
    Groups,     \* organizations, or projects
    People,
    Roles,      \* the roles that a member may have
    None        \* the owner of a group that was not founded

VARIABLES
    owner,      \* owner[g] : who founded g
    role        \* role[g][p] : the role of p in g, "none" outside it

membership == <<owner, role>>

Init ==
    /\ owner = [g \in Groups |-> None]
    /\ role = [g \in Groups |-> [p \in People |-> "none"]]

Found(g, p) ==
    /\ owner[g] = None
    /\ owner' = [owner EXCEPT ![g] = p]
    /\ role' = [role EXCEPT ![g][p] = "owner"]

Admit(g, p, as) ==
    /\ owner[g] # None
    /\ role[g][p] = "none"
    /\ role' = [role EXCEPT ![g][p] = as]
    /\ UNCHANGED owner

Dismiss(g, p) ==
    /\ role[g][p] \notin {"none", "owner"}
    /\ role' = [role EXCEPT ![g][p] = "none"]
    /\ UNCHANGED owner

Next ==
    \E g \in Groups, p \in People :
        \/ Found(g, p)
        \/ \E as \in Roles : Admit(g, p, as)
        \/ Dismiss(g, p)

Spec == Init /\ [][Next]_membership
=============================================================================

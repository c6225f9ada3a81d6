---------------------------- MODULE MCInvitations ----------------------------
(***************************************************************************)
(* Runs side by side: an initial state chooses a desk, which bounds what   *)
(* is asked for.  At the desk of invitations people are invited, let in    *)
(* and removed while time passes; at the others an organization, or a      *)
(* project, is updated and deleted, and people are added, removed and made *)
(* owners directly, where the two services read nothing of each other.     *)
(***************************************************************************)
EXTENDS Invitations, TLC

CONSTANT Desks
VARIABLE desk

deskVars == <<vars, desk>>

\* The first calls of handlers that do not belong to the desk of invitations;
\* org.add.admin is one when no invitation waits for the end of addMember.
Direct(q) ==
    \/ q.pc \in {"org.update.admin", "org.delete", "proj.update.admin", "proj.add.admin",
                "proj.rm.admin"}
    \/ q.pc = "org.add.admin" /\ q.ret = <<>>
    \/ q.role = "owner"

DesksInit == Init /\ desk \in Desks

DesksNext ==
    /\ Next
    /\ \/ desk = "invitations" /\ \A r \in Requests : ~Direct(req'[r])
       \/ desk = "organizations" /\ UNCHANGED <<ProjVars, InvVars>>
                                 /\ \A r \in Requests : req'[r].pc \in {"idle"} \cup OrgPcs
       \/ desk = "projects" /\ UNCHANGED <<orgs, orgMember, InvVars>>
                            /\ \A r \in Requests : req'[r].pc \in {"idle"} \cup ProjectPcs
    /\ UNCHANGED desk

DesksSpec == DesksInit /\ [][DesksNext]_deskVars

\* No super administrator is told from other people here.
Symm == Permutations(Requests) \cup Permutations(Users)
=============================================================================

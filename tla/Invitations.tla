----------------------------- MODULE Invitations -----------------------------
(***************************************************************************)
(* Invitations to organizations and projects: InvitationsService, on top   *)
(* of OrganizationsService and ProjectsService.  accept and                *)
(* createProjectInvitation call addMember and addMemberByUserId of those   *)
(* services, which use connections of their own: nothing of what they      *)
(* insert is undone when a later step of the handler throws.               *)
(*                                                                         *)
(* An e-mail address is the person it belongs to.  Sending e-mail changes  *)
(* no table and is left out.                                               *)
(***************************************************************************)
EXTENDS Projects, FiniteSets

CONSTANTS
    Invites,        \* invitations, by id (and by token: both are unique)
    SuperAdmins,    \* accounts with the role super_admin
    MaxNow          \* bound: times at which what was issued before lapses

ASSUME InvitationConstants ==
    /\ MaxNow \in Nat
    /\ SuperAdmins \subseteq Users
    /\ None \notin Invites

VARIABLES
    invs,   \* invs[i] : the row of invitation i
    now     \* time in units that outlast the seven days of an invitation

Statuses == {"pending", "accepted", "expired", "cancelled"}

NoInvite == [status |-> "none", email |-> None, org |-> None, role |-> None,
             by |-> None, proj |-> None, projRole |-> None, expires |-> 0]

InvVars == <<invs, now>>
vars == <<req, OrgVars, ProjVars, InvVars>>

Lapsed(row) == now > row.expires

\* What is left to do when addMember returns: mark the invitation, enter the
\* project, or both.
Mark == <<"inv.save">>
Enter == <<"proj.byId.existing">>
EnterAndMark == <<"proj.byId.existing", "inv.save">>

Pending(i) == invs[i].status = "pending"

\* An id that no row has and no request in flight is about to insert.
FreshId(i) == invs[i] = NoInvite /\ \A r \in Requests : req[r].inv # i

-----------------------------------------------------------------------------
(* create: an invitation to an organization.                               *)

CreateInvitation(r, by, o, email, role, i) ==
    /\ At(r, "idle")
    /\ orgs[o].live
    /\ FreshId(i)
    /\ Begin(r, [Idle EXCEPT
            !.pc = IF by \in SuperAdmins THEN "inv.pending" ELSE "inv.admin",
            !.by = by, !.org = o, !.user = email, !.role = role, !.inv = i])
    /\ UNCHANGED InvVars

\* The inviter is an owner or administrator of the organization.
CheckOrgInviter(r) ==
    /\ At(r, "inv.admin")
    /\ Check(r, IsOrgAdmin(req[r].org, req[r].by), "inv.pending")
    /\ UNCHANGED InvVars

(* createProjectInvitation.                                                *)

\* Mutant: the role in the organization is left out.
InviteToProject_NoOrgRole(r, by, p, email, role, i) ==
    /\ At(r, "idle")
    /\ projects[p].live /\ projects[p].org # None
    /\ FreshId(i)
    /\ Begin(r, [Idle EXCEPT !.pc = "pinv.org", !.by = by, !.org = projects[p].org,
                    !.proj = p, !.projRole = role, !.user = email, !.inv = i])
    /\ UNCHANGED InvVars

InviteToProject(r, by, p, email, role, i) ==
    /\ At(r, "idle")
    /\ projects[p].live /\ projects[p].org # None
    /\ FreshId(i)
    /\ Begin(r, [Idle EXCEPT !.pc = "pinv.org", !.by = by, !.org = projects[p].org,
                    !.role = "member", !.proj = p, !.projRole = role,
                    !.user = email, !.inv = i])
    /\ UNCHANGED InvVars

FindOrgOfProject(r) ==
    /\ At(r, "pinv.org")
    /\ Check(r, orgs[req[r].org].live,
             IF req[r].by \in SuperAdmins THEN "pinv.user" ELSE "pinv.admin")
    /\ UNCHANGED InvVars

CheckProjectInviter(r) ==
    /\ At(r, "pinv.admin")
    /\ Check(r, IsProjectAdmin(req[r].proj, req[r].by), "pinv.user")
    /\ UNCHANGED InvVars

\* Mutant: addMember is forgotten.
LookUpInvitee_ProjectOnly(r) ==
    /\ At(r, "pinv.user")
    /\ IF req[r].user \in accounts
       THEN req' = [req EXCEPT ![r].pc = "proj.byId.existing", ![r].inv = None]
       ELSE Goto(r, "inv.pending")
    /\ UNCHANGED InvVars

\* A person with an account is added at once, to the organization (where being
\* a member already is no error) and then to the project; the others get an
\* invitation.
LookUpInvitee(r) ==
    /\ At(r, "pinv.user")
    /\ IF req[r].user \in accounts
       THEN req' = [req EXCEPT ![r].pc = "org.add.find", ![r].inv = None,
                               ![r].ret = Enter]
       ELSE Goto(r, "inv.pending")
    /\ UNCHANGED InvVars

(* The end of both: look for a pending invitation, insert.                 *)

\* An invitation to an organization collides with any pending one for the same
\* address there (TypeORM drops the condition `projectId: null'), one to a
\* project with those to the same project.
Collides(row, o, p, email) ==
    /\ row.status = "pending" /\ row.org = o /\ row.email = email
    /\ p = None \/ row.proj = p

FindPending(r) ==
    LET q == req[r]
    IN  /\ At(r, "inv.pending")
        /\ Check(r, ~\E i \in Invites : Collides(invs[i], q.org, q.proj, q.user),
                 "inv.insert")
        /\ UNCHANGED InvVars

InsertInvitation(r) ==
    LET q == req[r]
    IN  /\ At(r, "inv.insert")
        /\ invs' = [invs EXCEPT ![q.inv] =
              [status |-> "pending", email |-> q.user, org |-> q.org,
               role |-> q.role, by |-> q.by, proj |-> q.proj,
               projRole |-> q.projRole, expires |-> now]]
        /\ Finish(r)
        /\ UNCHANGED now

-----------------------------------------------------------------------------
(* accept.                                                                 *)

\* Mutant: an invitation to a project admits to its organization alone.
AcceptPlan_OrgOnly(row) == Mark

\* The calls that accept makes before it marks the invitation.
AcceptPlan(row) == IF row.proj # None THEN EnterAndMark ELSE Mark

\* A lapsed invitation is marked EXPIRED, whoever presents it; otherwise the
\* invitee is added with the inviter as the requester.
AcceptInvitation(r, u, i) ==
    LET row == invs[i]
    IN  /\ At(r, "idle")
        /\ Pending(i)
        /\ \/ /\ Lapsed(row)
              /\ Begin(r, [Idle EXCEPT !.pc = "inv.save", !.inv = i,
                                       !.copy = [row EXCEPT !.status = "expired"]])
           \/ /\ ~Lapsed(row)
              /\ row.email = u
              /\ Begin(r, [Idle EXCEPT !.pc = "org.add.find", !.by = row.by, !.user = u,
                    !.org = row.org, !.role = row.role, !.proj = row.proj,
                    !.projRole = row.projRole, !.inv = i, !.ret = AcceptPlan(row),
                    !.copy = [row EXCEPT !.status = "accepted"]])
        /\ UNCHANGED InvVars

(* resend and cancel: read the row, check the caller's authority, save.    *)

\* Mutant: a settled invitation is sent again as a pending one.
ResendInvitation_Reopens(r, by, i) ==
    /\ At(r, "idle")
    /\ invs[i] # NoInvite
    /\ Begin(r, [Idle EXCEPT !.pc = "resend.org", !.by = by, !.inv = i,
                             !.copy = [invs[i] EXCEPT !.status = "pending"]])
    /\ UNCHANGED InvVars

ResendInvitation(r, by, i) ==
    /\ At(r, "idle")
    /\ Pending(i)
    /\ Begin(r, [Idle EXCEPT !.pc = "resend.org", !.by = by, !.inv = i, !.copy = invs[i]])
    /\ UNCHANGED InvVars

CancelInvitation(r, by, i) ==
    /\ At(r, "idle")
    /\ invs[i] # NoInvite
    /\ Begin(r, [Idle EXCEPT !.pc = "cancel.org", !.by = by, !.inv = i, !.copy = invs[i]])
    /\ UNCHANGED InvVars

\* What resend and cancel write: a new expiry, a final status.
Renewed(row) == [row EXCEPT !.expires = now]
Cancelled(row) == [row EXCEPT !.status = "cancelled"]

\* verifyInvitationAuthority: an owner or administrator of the organization or,
\* failing that, of the project.
VerifyAuthority(r, step, byProject, written) ==
    LET q == req[r]
    IN  \/ /\ At(r, step)
           /\ IF IsOrgAdmin(q.copy.org, q.by)
              THEN req' = [req EXCEPT ![r].pc = "inv.save", ![r].copy = written]
              ELSE Check(r, q.copy.proj # None, byProject)
        \/ /\ At(r, byProject)
           /\ IF IsProjectAdmin(q.copy.proj, q.by)
              THEN req' = [req EXCEPT ![r].pc = "inv.save", ![r].copy = written]
              ELSE Finish(r)

VerifyResend(r) ==
    /\ VerifyAuthority(r, "resend.org", "resend.proj", Renewed(req[r].copy))
    /\ UNCHANGED InvVars

VerifyCancel(r) ==
    /\ VerifyAuthority(r, "cancel.org", "cancel.proj", Cancelled(req[r].copy))
    /\ UNCHANGED InvVars

\* save writes every column in which the entity differs from the row: the row
\* becomes what the handler read, with its own change, whatever has happened
\* to it since.
SaveInvitation(r) ==
    /\ At(r, "inv.save")
    /\ invs' = [invs EXCEPT ![req[r].inv] = req[r].copy]
    /\ Finish(r)
    /\ UNCHANGED now

-----------------------------------------------------------------------------
InvRequest(r) ==
    \E u \in accounts, i \in Invites :
        \/ \E o \in Orgs, email \in Users, role \in OrgGrants :
              "invite" \in Endpoints /\ CreateInvitation(r, u, o, email, role, i)
        \/ \E p \in Projects, email \in Users, role \in ProjectGrants :
              "inviteToProject" \in Endpoints /\ InviteToProject(r, u, p, email, role, i)
        \/ "accept" \in Endpoints /\ AcceptInvitation(r, u, i)
        \/ "resend" \in Endpoints /\ ResendInvitation(r, u, i)
        \/ "cancel" \in Endpoints /\ CancelInvitation(r, u, i)

InvStep(r) ==
    \/ CheckOrgInviter(r)
    \/ FindOrgOfProject(r)
    \/ CheckProjectInviter(r)
    \/ LookUpInvitee(r)
    \/ FindPending(r)
    \/ InsertInvitation(r)
    \/ VerifyResend(r)
    \/ VerifyCancel(r)
    \/ SaveInvitation(r)

Tick ==
    /\ now < MaxNow
    /\ now' = now + 1
    /\ UNCHANGED <<req, invs>>
Init ==
    /\ req = [r \in Requests |-> Idle]
    /\ OrgInit
    /\ ProjInit
    /\ invs = [i \in Invites |-> NoInvite]
    /\ now = 0

Next ==
    \/ /\ \/ \E u \in Users : Register(u)
          \/ \E r \in Requests : OrgRequest(r) \/ OrgStep(r)
       /\ UNCHANGED <<ProjVars, InvVars>>
    \/ /\ \/ \E u \in accounts, p \in Projects, o \in Orgs \cup {None} :
                "createProject" \in Endpoints /\ CreateProject(u, p, o)
          \/ \E r \in Requests : ProjectRequest(r) \/ ProjectStep(r)
       /\ UNCHANGED <<OrgVars, InvVars>>
    \/ /\ \/ \E r \in Requests : InvRequest(r) \/ InvStep(r)
          \/ Tick
       /\ UNCHANGED <<OrgVars, ProjVars>>

Spec == Init /\ [][Next]_vars

-----------------------------------------------------------------------------
(* Types.                                                                  *)

OrgPcs == {"org.create", "org.update.admin", "org.update.save", "org.delete",
           "org.add.find", "org.add.admin", "org.add.existing", "org.add.insert",
           "org.rm.admin", "org.rm.row", "org.rm.delete"}
OrgAddPcs == {"org.add.find", "org.add.admin", "org.add.existing", "org.add.insert"}
OrgRmPcs == {"org.rm.admin", "org.rm.row", "org.rm.delete"}

ProjectPcs == {"proj.update.admin", "proj.update.save", "proj.delete",
               "proj.add.admin", "proj.add.existing", "proj.add.insert",
               "proj.byId.existing", "proj.byId.insert", "proj.byId.find",
               "proj.rm.admin", "proj.rm.row", "proj.rm.delete"}
ProjectAddPcs == {"proj.add.admin", "proj.add.existing", "proj.add.insert",
                  "proj.byId.existing", "proj.byId.insert", "proj.byId.find"}
ProjectRmPcs == {"proj.rm.admin", "proj.rm.row", "proj.rm.delete"}

InvitePcs == {"inv.admin", "pinv.org", "pinv.admin", "pinv.user", "inv.pending",
              "inv.insert"}
AuthorityPcs == {"resend.org", "resend.proj", "cancel.org", "cancel.proj"}

Pcs == {"idle", "inv.save"} \cup OrgPcs \cup ProjectPcs \cup InvitePcs \cup AuthorityPcs

Plans == {<<>>, Mark, Enter, EnterAndMark}

InviteColumns == [status: Statuses, email: Users, org: Orgs, role: OrgRoles, by: Users,
                  proj: Projects \cup {None}, projRole: ProjectRoles \cup {None},
                  expires: Nat]

\* NULL is no row.
ASSUME NoneIsNoRow == None \notin InviteColumns

\* An invitation to a project has a role in it.
InviteRow == {row \in InviteColumns : row.proj # None => row.projRole # None}

Request == [pc: Pcs, by: Users \cup {None}, user: Users \cup {None},
            org: Orgs \cup {None}, proj: Projects \cup {None},
            role: OrgRoles \cup {None}, projRole: ProjectRoles \cup {None},
            row: Nat, inv: Invites \cup {None}, copy: InviteRow \cup {None},
            ret: Plans]

Row(roles) == [id: Nat, role: roles \cup {"none"}]

\* The variables of a request are set by the time its handler uses them.
Prepared(q) ==
    /\ q.pc \in OrgPcs \cup InvitePcs => q.by \in Users /\ q.org \in Orgs
    /\ q.pc \in OrgAddPcs \cup OrgRmPcs \cup InvitePcs => q.user \in Users
    /\ q.pc \in OrgAddPcs \cup InvitePcs => q.role \in OrgRoles
    /\ q.pc \in ProjectPcs => q.by \in Users /\ q.proj \in Projects
    /\ q.pc \in ProjectAddPcs \cup ProjectRmPcs => q.user \in Users
    /\ q.pc \in ProjectAddPcs => q.projRole \in ProjectRoles
    /\ q.pc \in {"pinv.org", "pinv.admin", "pinv.user"} => q.proj \in Projects
    /\ q.pc \in InvitePcs /\ q.proj # None => q.projRole # None
    /\ q.pc \in AuthorityPcs => q.by \in Users
    /\ q.pc \in {"resend.proj", "cancel.proj"} => q.copy.proj \in Projects
    /\ q.pc \in AuthorityPcs \cup {"inv.save"} => q.inv \in Invites /\ q.copy \in InviteRow
    /\ q.pc \in InvitePcs => q.inv \in Invites
    /\ q.ret # <<>> => q.pc \in OrgAddPcs \cup ProjectAddPcs
    /\ q.ret \in {Enter, EnterAndMark} =>
          q.proj \in Projects /\ q.projRole \in ProjectRoles
    /\ q.ret \in {Mark, EnterAndMark} =>
          q.inv \in Invites /\ q.copy \in InviteRow

RequestsTyped ==
    /\ req \in [Requests -> Request]
    /\ \A r \in Requests : Prepared(req[r])

OrgsTyped ==
    /\ accounts \subseteq Users
    /\ orgs \in [Orgs -> [owner: Users \cup {None}, live: BOOLEAN]]
    /\ orgMember \in [Orgs -> [Users -> Row(OrgRoles)]]

ProjectsTyped ==
    /\ projects \in [Projects -> [owner: Users \cup {None}, org: Orgs \cup {None},
                                   live: BOOLEAN]]
    /\ projMember \in [Projects -> [Users -> Row(ProjectRoles)]]

InvitesTyped ==
    /\ invs \in [Invites -> InviteRow \cup {NoInvite}]
    /\ now \in Nat

\* The types of the tables and of the requests in flight, with the local
\* variables that each stage of a handler relies on.
TypeOK == RequestsTyped /\ OrgsTyped /\ ProjectsTyped /\ InvitesTyped

-----------------------------------------------------------------------------
(* Properties.                                                             *)

\* Every organization and every project that was ever created, deleted ones
\* included, keeps its creator as a member with the role OWNER, however
\* additions and removals interleave: nobody can lock the owner out.
OwnersKeepTheirSeat ==
    /\ \A o \in Orgs : orgs[o] # NoGroup => orgMember[o][orgs[o].owner].role = "owner"
    /\ \A p \in Projects :
          projects[p] # NoProject => projMember[p][projects[p].owner].role = "owner"

\* A membership row with the role OWNER, the creator's or one granted later, is
\* never removed or changed: a removal deletes the very row whose role it
\* checked, not one that has taken its place since.
OwnerRowsAreFinal ==
    [][ /\ \A o \in Orgs, u \in Users :
             orgMember[o][u].role = "owner" => orgMember'[o][u] = orgMember[o][u]
        /\ \A p \in Projects, u \in Users :
             projMember[p][u].role = "owner" => projMember'[p][u] = projMember[p][u] ]_vars

\* Some time, u was a member.
EverMember(member, g, u) == member[g][u].id > 0

\* ACCEPTED is never recorded for somebody who was not let in: each failure on
\* the way, except that of being a member already, leaves the invitation as it was.
AcceptedMeansJoined ==
    \A i \in Invites : invs[i].status = "accepted" =>
        /\ EverMember(orgMember, invs[i].org, invs[i].email)
        /\ invs[i].proj # None => EverMember(projMember, invs[i].proj, invs[i].email)

\* An accept is not refused for want of authority when a super administrator
\* sent the invitation, who may invite to any organization.
SuperAdminInvitationsWork ==
    [][ \A r \in Requests :
          /\ At(r, "org.add.admin") /\ req[r].copy # None
          /\ req[r].by \in SuperAdmins
          /\ req'[r] # req[r]
          => req'[r].pc = "org.add.existing" ]_vars

\* Nobody enters a project by invitation without having entered its
\* organization first: accept and createProjectInvitation reach
\* addMemberByUserId only behind an addMember that did not fail.
OrgBeforeProject ==
    \A r \in Requests :
        req[r].pc \in {"proj.byId.existing", "proj.byId.insert", "proj.byId.find"} =>
            EverMember(orgMember, req[r].org, req[r].user)

InFlight(i) == \E r \in Requests : req[r].inv = i

\* What has been decided stays decided: an invitation that is accepted, expired
\* or cancelled, and that no request in flight has read before, does not become
\* pending again (nor, therefore, lets anybody in).
SettledStaysSettled ==
    [][ \A i \in Invites :
          invs[i].status \in Statuses \ {"pending"} /\ ~InFlight(i) =>
              /\ invs'[i].status \in Statuses \ {"pending"}
              /\ \A r \in Requests :
                    req'[r].inv = i => req'[r].copy.status # "pending" ]_vars
\* Organizations implement Membership: seen through their owners and the roles
\* of their members, whatever requests race, only whole foundations, admissions
\* and dismissals happen, and a dismissal never reaches an owner.
OrgMembership == INSTANCE Membership WITH
    Groups <- Orgs, People <- Users, Roles <- OrgRoles,
    owner <- [o \in Orgs |-> orgs[o].owner],
    role <- [o \in Orgs |-> [u \in Users |-> orgMember[o][u].role]]

OrgsKeepMembership == OrgMembership!Spec

\* The same of projects, entered directly or by invitation.
ProjectMembership == INSTANCE Membership WITH
    Groups <- Projects, People <- Users, Roles <- ProjectRoles,
    owner <- [p \in Projects |-> projects[p].owner],
    role <- [p \in Projects |-> [u \in Users |-> projMember[p][u].role]]

ProjectsKeepMembership == ProjectMembership!Spec
=============================================================================

-------------------------- MODULE InvitationsProofs --------------------------
(***************************************************************************)
(* Invitations, organizations and projects: types, owners, the refinement  *)
(* of Membership, and what it takes to accept an invitation; for every set *)
(* of people, groups, invitations and requests in flight.                  *)
(*                                                                         *)
(* TypeOK is inductive by itself: what the later steps of a handler need   *)
(* from its local variables is in Prepared. The proof is about slots: a    *)
(* handler's step puts into its slot a request whose variables are set     *)
(* (PutTyped), most often by moving to a stage that needs no more than the *)
(* one it leaves (Moves).                                                  *)
(*                                                                         *)
(* OwnersKeepTheirSeat is not inductive: a removal deletes by the key of a *)
(* row that it read some steps ago, an update writes back a group that it  *)
(* read some steps ago, an accept adds a member to a project that was      *)
(* there when the invitation was made. SeatInv adds what those handlers    *)
(* know. The argument has two halves: every step of the system changes the *)
(* tables as TablesStep says (the lemmas named ...Seat), and what is known *)
(* survives such a change (GroupsSurvive, SoundSurvives).                  *)
(*                                                                         *)
(* Organizations and projects implement Membership: each step of a handler *)
(* is, seen through the owners and the roles, a foundation, an admission,  *)
(* a dismissal or nothing. SeatInv says what a step needs to know: that    *)
(* the group of an insertion was founded, and that the row of a deletion   *)
(* is not an owner's.                                                      *)
(*                                                                         *)
(* AcceptedMeansJoined and OrgBeforeProject are not inductive either:      *)
(* accept marks the invitation at the end of a way on which it waits for   *)
(* the database up to eight times, and says nothing of the tables when it  *)
(* does. JoinInv adds what a request has behind it at each stage. That     *)
(* survives the steps of the others because the keys of membership rows    *)
(* only grow (TablesStep): who was a member once, was one for ever.        *)
(***************************************************************************)
EXTENDS Invitations, TLAPS

-----------------------------------------------------------------------------
(* Types and owners.                                                       *)


(* How a handler's step changes its slot.                                  *)

\* The plans are four, and each is made of the stages its name says.
LEMMA PlanLengths == Len(Mark) = 1 /\ Len(Enter) = 1 /\ Len(EnterAndMark) = 2
BY DEF Mark, Enter, EnterAndMark

\* No two plans are the same.
LEMMA PlansDiffer ==
    /\ Mark # <<>> /\ Enter # <<>> /\ EnterAndMark # <<>>
    /\ Mark # Enter /\ Mark # EnterAndMark /\ Enter # EnterAndMark
<1>1. Len(<<>>) = 0
  OBVIOUS
<1>2. Mark[1] # Enter[1]
  BY DEF Mark, Enter
<1> HIDE DEF Mark, Enter, EnterAndMark
<1>3. Mark # <<>> /\ Enter # <<>> /\ EnterAndMark # <<>>
  BY <1>1, PlanLengths
<1>4. Mark # Enter
  BY <1>2
<1>5. Mark # EnterAndMark /\ Enter # EnterAndMark
  BY PlanLengths
<1> QED BY <1>3, <1>4, <1>5

\* What each plan does first, and what it leaves to do.
LEMMA PlanSteps ==
    /\ Head(Mark) = "inv.save" /\ Tail(Mark) = <<>>
    /\ Head(Enter) = "proj.byId.existing" /\ Tail(Enter) = <<>>
    /\ Head(EnterAndMark) = "proj.byId.existing" /\ Tail(EnterAndMark) = Mark
<1>1. Head(Mark) = "inv.save" /\ Tail(Mark) = <<>>
  BY DEF Mark
<1>2. Head(Enter) = "proj.byId.existing" /\ Tail(Enter) = <<>>
  BY DEF Enter
<1>3. Head(EnterAndMark) = "proj.byId.existing"
  BY DEF EnterAndMark
<1>4. Tail(EnterAndMark) = Mark
  BY DEF EnterAndMark, Mark
<1> QED BY <1>1, <1>2, <1>3, <1>4

\* A slot may take any request of the right type whose variables are set.
LEMMA PutTyped ==
    ASSUME RequestsTyped, NEW r \in Requests, NEW q \in Request, Prepared(q),
           req' = [req EXCEPT ![r] = q]
    PROVE  RequestsTyped'
BY DEF RequestsTyped

\* A free slot needs nothing.
LEMMA IdleTyped == Idle \in Request /\ Prepared(Idle)
BY PlansDiffer DEF Idle, Request, Prepared, Pcs, Plans, OrgPcs, InvitePcs, OrgAddPcs, OrgRmPcs,
       ProjectPcs, ProjectAddPcs, ProjectRmPcs, AuthorityPcs

\* A handler may answer at any stage.
LEMMA FinishTyped ==
    ASSUME RequestsTyped, NEW r \in Requests, Finish(r)
    PROVE  RequestsTyped'
BY IdleTyped, PutTyped DEF Finish

\* A handler may go on to a stage for which its variables are set.
LEMMA GotoTyped ==
    ASSUME RequestsTyped, NEW r \in Requests, NEW pc \in Pcs, Goto(r, pc),
           Prepared([req[r] EXCEPT !.pc = pc])
    PROVE  RequestsTyped'
<1>1. [req[r] EXCEPT !.pc = pc] \in Request
  BY DEF RequestsTyped, Request
<1>2. req' = [req EXCEPT ![r] = [req[r] EXCEPT !.pc = pc]]
  BY DEF Goto
<1> QED BY <1>1, <1>2, PutTyped

\* What follows a check: the next stage or the answer.
LEMMA CheckTyped ==
    ASSUME RequestsTyped, NEW r \in Requests, NEW pc \in Pcs, NEW ok, Check(r, ok, pc),
           ok => Prepared([req[r] EXCEPT !.pc = pc])
    PROVE  RequestsTyped'
BY GotoTyped, FinishTyped DEF Check

\* The methods that addMember and addMemberByUserId return to find the
\* variables that their handlers left for them.
LEMMA ReturnTyped ==
    ASSUME RequestsTyped, NEW r \in Requests, Return(r),
           req[r].by \in Users, req[r].user \in Users
    PROVE  RequestsTyped'
<1> DEFINE q == [req[r] EXCEPT !.pc = Head(req[r].ret), !.ret = Tail(req[r].ret)]
<1>0. req[r] \in Request /\ Prepared(req[r])
  BY DEF RequestsTyped
<1>1. CASE req[r].ret = <<>>
  BY <1>1, FinishTyped DEF Return
<1>2. CASE req[r].ret # <<>>
  <2>1. req' = [req EXCEPT ![r] = q]
    BY <1>2 DEF Return
  <2>2. req[r].ret \in {Mark, Enter, EnterAndMark}
    BY <1>0, <1>2 DEF Request, Plans
  <2>3. ASSUME NEW pc \in {"inv.save", "proj.byId.existing"}, NEW plan \in {<<>>, Mark},
               Head(req[r].ret) = pc, Tail(req[r].ret) = plan,
               pc = "inv.save" => plan = <<>> /\ req[r].ret \in {Mark, EnterAndMark},
               pc # "inv.save" => req[r].ret \in {Enter, EnterAndMark},
               plan = Mark => req[r].ret = EnterAndMark
        PROVE  RequestsTyped'
    <3>1. q = [req[r] EXCEPT !.pc = pc, !.ret = plan]
      BY <2>3
    <3>2. pc \in Pcs /\ plan \in Plans
      BY DEF Pcs, ProjectPcs, Plans
    <3>3. q \in Request
      BY <1>0, <3>1, <3>2 DEF Request
    <3>4. /\ q.pc = pc /\ q.ret = plan /\ q.by = req[r].by /\ q.user = req[r].user
          /\ q.inv = req[r].inv /\ q.copy = req[r].copy /\ q.proj = req[r].proj
          /\ q.projRole = req[r].projRole
      BY <1>0, <3>1 DEF Request
    <3> HIDE DEF q
    <3>5. /\ pc = "inv.save" => req[r].inv \in Invites /\ req[r].copy \in InviteRow
          /\ pc # "inv.save" => req[r].proj \in Projects /\ req[r].projRole \in ProjectRoles
          /\ plan = Mark => req[r].inv \in Invites /\ req[r].copy \in InviteRow
      BY <1>0, <2>3 DEF Prepared
    <3>6. Prepared(q)
      BY <2>3, <3>4, <3>5, PlansDiffer DEF Prepared, OrgPcs, InvitePcs, OrgAddPcs,
         OrgRmPcs, ProjectPcs, ProjectAddPcs, ProjectRmPcs, AuthorityPcs
    <3> QED BY <2>1, <3>3, <3>6, PutTyped
  <2>4. CASE req[r].ret = Mark
    BY <2>3, <2>4, PlanSteps, PlansDiffer
  <2>5. CASE req[r].ret = Enter
    BY <2>3, <2>5, PlanSteps, PlansDiffer
  <2>6. CASE req[r].ret = EnterAndMark
    BY <2>3, <2>6, PlanSteps, PlansDiffer
  <2> QED BY <2>2, <2>4, <2>5, <2>6
<1> QED BY <1>1, <1>2

\* A free slot may take a request of the right type whose variables are set.
LEMMA BeginTyped ==
    ASSUME RequestsTyped, NEW r \in Requests, NEW q \in Request, Prepared(q), Begin(r, q)
    PROVE  RequestsTyped'
BY PutTyped DEF Begin

\* The stages that a handler passes through without a change of its variables.
Moves(from, to) ==
    \/ from = "org.update.admin" /\ to = "org.update.save"
    \/ from = "org.add.find" /\ to = "org.add.admin"
    \/ from = "org.add.admin" /\ to = "org.add.existing"
    \/ from = "org.add.existing" /\ to = "org.add.insert"
    \/ from = "org.rm.admin" /\ to = "org.rm.row"
    \/ from = "proj.update.admin" /\ to = "proj.update.save"
    \/ from = "proj.add.admin" /\ to = "proj.add.existing"
    \/ from = "proj.add.existing" /\ to = "proj.add.insert"
    \/ from = "proj.byId.existing" /\ to = "proj.byId.insert"
    \/ from = "proj.byId.insert" /\ to = "proj.byId.find"
    \/ from = "proj.rm.admin" /\ to = "proj.rm.row"
    \/ from = "inv.admin" /\ to = "inv.pending"
    \/ from = "pinv.org" /\ to \in {"pinv.user", "pinv.admin"}
    \/ from = "pinv.admin" /\ to = "pinv.user"
    \/ from = "pinv.user" /\ to = "inv.pending"
    \/ from = "inv.pending" /\ to = "inv.insert"

\* What is set at one of those stages is all that the next one needs.
LEMMA MovesPrepared ==
    ASSUME NEW q \in Request, Prepared(q), NEW to, Moves(q.pc, to)
    PROVE  to \in Pcs /\ Prepared([q EXCEPT !.pc = to])
<1>1. to \in Pcs
  BY DEF Moves, Pcs, OrgPcs, ProjectPcs, InvitePcs
<1> DEFINE n == [q EXCEPT !.pc = to]
<1>2. /\ n.pc = to /\ n.ret = q.ret /\ n.by = q.by /\ n.user = q.user /\ n.org = q.org
      /\ n.role = q.role /\ n.inv = q.inv /\ n.copy = q.copy /\ n.proj = q.proj
      /\ n.projRole = q.projRole
  BY DEF Request
<1> HIDE DEF n
<1>3. Prepared(n)
  BY <1>2, PlansDiffer DEF Moves, Prepared, OrgPcs, InvitePcs, OrgAddPcs,
     OrgRmPcs, ProjectPcs, ProjectAddPcs, ProjectRmPcs, AuthorityPcs
<1> QED BY <1>1, <1>3 DEF n

\* A handler may move on...
LEMMA MoveTyped ==
    ASSUME RequestsTyped, NEW r \in Requests, NEW to, Moves(req[r].pc, to), Goto(r, to)
    PROVE  RequestsTyped'
BY MovesPrepared, GotoTyped DEF RequestsTyped

\* ...or do so only if a check lets it.
LEMMA CheckedMoveTyped ==
    ASSUME RequestsTyped, NEW r \in Requests, NEW to, Moves(req[r].pc, to),
           NEW ok, Check(r, ok, to)
    PROVE  RequestsTyped'
BY MoveTyped, FinishTyped DEF Check
-----------------------------------------------------------------------------
(* Membership rows.                                                        *)

\* Membership[G, roles] : a table of membership rows.
Membership(G, roles) == [G -> [Users -> Row(roles)]]

\* The row of a new member is a row.
LEMMA NewRowTyped ==
    ASSUME NEW roles, NEW row \in Row(roles), NEW role \in roles
    PROVE  NewRow(row, role) \in Row(roles)
BY DEF NewRow, Row

\* So is what a removal leaves of one.
LEMMA DropRowTyped ==
    ASSUME NEW roles, NEW row \in Row(roles), NEW id
    PROVE  DropRow(row, id) \in Row(roles)
BY DEF DropRow, Row

\* An insertion keeps a table a table,...
LEMMA InsertionTyped ==
    ASSUME NEW G, NEW roles, NEW m \in Membership(G, roles), NEW g \in G, NEW u \in Users,
           NEW role \in roles
    PROVE  [m EXCEPT ![g][u] = NewRow(@, role)] \in Membership(G, roles)
<1>1. NewRow(m[g][u], role) \in Row(roles)
  BY NewRowTyped DEF Membership
<1> QED BY <1>1 DEF Membership

\* ...and so does a removal.
LEMMA RemovalTyped ==
    ASSUME NEW G, NEW roles, NEW m \in Membership(G, roles), NEW g \in G, NEW u \in Users,
           NEW id
    PROVE  [m EXCEPT ![g][u] = DropRow(@, id)] \in Membership(G, roles)
<1>1. DropRow(m[g][u], id) \in Row(roles)
  BY DropRowTyped DEF Membership
<1> QED BY <1>1 DEF Membership

-----------------------------------------------------------------------------
(* Each operation keeps the types.                                         *)

\* The first step of an endpoint of organizations.
LEMMA OrgRequestTyped ==
    ASSUME RequestsTyped, OrgsTyped, NEW r \in Requests, OrgRequest(r)
    PROVE  RequestsTyped' /\ OrgsTyped'
<1> USE PlansDiffer, BeginTyped
    DEF Request, Prepared, Pcs, Plans, OrgPcs, OrgAddPcs, OrgRmPcs, ProjectPcs,
        ProjectAddPcs, ProjectRmPcs, InvitePcs, AuthorityPcs, Idle, OrgVars, OrgsTyped
<1>1. ASSUME NEW by \in accounts, NEW o \in Orgs, CreateOrg(r, by, o)
      PROVE  RequestsTyped' /\ OrgsTyped'
  BY <1>1 DEF CreateOrg
<1>2. ASSUME NEW by \in accounts, NEW o \in Orgs, UpdateOrg(r, by, o)
      PROVE  RequestsTyped' /\ OrgsTyped'
  BY <1>2 DEF UpdateOrg, FindOrgThen
<1>3. ASSUME NEW by \in accounts, NEW o \in Orgs, RemoveOrg(r, by, o)
      PROVE  RequestsTyped' /\ OrgsTyped'
  BY <1>3 DEF RemoveOrg, FindOrgThen
<1>4. ASSUME NEW by \in accounts, NEW o \in Orgs, NEW u \in accounts, NEW role \in OrgGrants,
             AddOrgMember(r, by, o, u, role)
      PROVE  RequestsTyped' /\ OrgsTyped'
  BY <1>4, OrgConstants DEF AddOrgMember, FindOrgThen
<1>5. ASSUME NEW by \in accounts, NEW o \in Orgs, NEW u \in accounts,
             RemoveOrgMember(r, by, o, u)
      PROVE  RequestsTyped' /\ OrgsTyped'
  BY <1>5 DEF RemoveOrgMember, FindOrgThen
<1> QED BY <1>1, <1>2, <1>3, <1>4, <1>5 DEF OrgRequest

\* The later steps of OrganizationsService.
LEMMA OrgStepTyped ==
    ASSUME RequestsTyped, OrgsTyped, NEW r \in Requests, OrgStep(r)
    PROVE  RequestsTyped' /\ OrgsTyped'
<1>0. req[r] \in Request /\ Prepared(req[r])
  BY DEF RequestsTyped
<1>m. orgMember \in Membership(Orgs, OrgRoles) /\ "owner" \in OrgRoles
  BY DEF OrgsTyped, Membership, OrgRoles
<1>1. CASE InsertOrg(r)
  <2>1. req[r].by \in Users /\ req[r].org \in Orgs
    BY <1>0, <1>1 DEF InsertOrg, At, Prepared, OrgPcs
  <2>2. [orgMember EXCEPT ![req[r].org][req[r].by] = NewRow(@, "owner")]
            \in Membership(Orgs, OrgRoles)
    BY <2>1, <1>m, InsertionTyped
  <2>3. RequestsTyped' /\ accounts' \subseteq Users
    BY <1>1, FinishTyped DEF InsertOrg, OrgsTyped
  <2>4. orgs' \in [Orgs -> [owner: Users \cup {None}, live: BOOLEAN]]
    <3>1. \/ orgs' = orgs
          \/ orgs' = [orgs EXCEPT ![req[r].org] = [owner |-> req[r].by, live |-> TRUE]]
      BY <1>1 DEF InsertOrg
    <3>2. [owner |-> req[r].by, live |-> TRUE] \in [owner: Users \cup {None}, live: BOOLEAN]
      BY <2>1
    <3> QED BY <3>1, <3>2 DEF OrgsTyped
  <2>5. orgMember' \in Membership(Orgs, OrgRoles)
    BY <1>1, <1>m, <2>2 DEF InsertOrg
  <2> QED BY <2>3, <2>4, <2>5 DEF OrgsTyped, Membership
<1>2. CASE FindOrg(r)
  BY <1>2, CheckedMoveTyped DEF FindOrg, At, Moves, OrgVars, OrgsTyped
<1>3. CASE VerifyOrgAdmin(r)
  <2>1. PICK step \in AfterOrgAdmin :
            At(r, step[1]) /\ Check(r, IsOrgAdmin(req[r].org, req[r].by), step[2])
    BY <1>3 DEF VerifyOrgAdmin
  <2>2. Moves(req[r].pc, step[2])
    BY <2>1 DEF AfterOrgAdmin, At, Moves
  <2> QED BY <1>3, <2>1, <2>2, CheckedMoveTyped DEF VerifyOrgAdmin, OrgVars, OrgsTyped
<1>4. CASE SaveOrg(r)
  BY <1>4, FinishTyped DEF SaveOrg, OrgsTyped
<1>5. CASE SoftDeleteOrg(r)
  BY <1>5, FinishTyped DEF SoftDeleteOrg, OrgsTyped
<1>6. CASE FindOrgMember(r)
  <2>1. req[r].by \in Users /\ req[r].user \in Users
    BY <1>0, <1>6 DEF FindOrgMember, At, Prepared, OrgPcs, OrgAddPcs
  <2>2. Moves(req[r].pc, "org.add.insert")
    BY <1>6 DEF FindOrgMember, At, Moves
  <2> QED BY <1>6, <2>1, <2>2, ReturnTyped, MoveTyped DEF FindOrgMember, OrgVars, OrgsTyped
<1>7. CASE InsertOrgMember(r)
  <2>1. /\ req[r].by \in Users /\ req[r].user \in Users
        /\ req[r].org \in Orgs /\ req[r].role \in OrgRoles
    BY <1>0, <1>7 DEF InsertOrgMember, At, Prepared, OrgPcs, OrgAddPcs
  <2>2. RequestsTyped'
    BY <1>7, <2>1, ReturnTyped, FinishTyped DEF InsertOrgMember
  <2>3. [orgMember EXCEPT ![req[r].org][req[r].user] = NewRow(@, req[r].role)]
            \in Membership(Orgs, OrgRoles)
    BY <2>1, <1>m, InsertionTyped
  <2> QED BY <1>7, <2>2, <2>3 DEF InsertOrgMember, OrgsTyped, Membership
<1>8. CASE ReadOrgMember(r)
  <2> DEFINE id == orgMember[req[r].org][req[r].user].id
             q == [req[r] EXCEPT !.pc = "org.rm.delete", !.row = id]
  <2>1. CASE Finish(r)
    BY <1>8, <2>1, FinishTyped DEF ReadOrgMember, OrgVars, OrgsTyped
  <2>2. CASE ~Finish(r)
    <3>1. /\ req' = [req EXCEPT ![r] = q]
          /\ req[r].by \in Users /\ req[r].org \in Orgs /\ req[r].user \in Users
      BY <1>0, <1>8, <2>2 DEF ReadOrgMember, At, Prepared, OrgPcs, OrgRmPcs
    <3>2. id \in Nat /\ "org.rm.delete" \in Pcs
      BY <3>1 DEF OrgsTyped, Row, Pcs, OrgPcs
    <3> HIDE DEF id
    <3>3. q \in Request
      BY <1>0, <3>2 DEF Request
    <3>4. Prepared(q)
      <4>1. req[r].ret = <<>>
        BY <1>0, <1>8 DEF ReadOrgMember, At, Prepared, OrgAddPcs, ProjectAddPcs
      <4>2. /\ q.pc = "org.rm.delete" /\ q.by = req[r].by /\ q.user = req[r].user
            /\ q.org = req[r].org /\ q.ret = <<>>
        BY <1>0, <4>1 DEF Request
      <4> QED BY <3>1, <4>2, PlansDiffer
              DEF Prepared, OrgPcs, InvitePcs, OrgAddPcs, OrgRmPcs, ProjectPcs,
                  ProjectAddPcs, ProjectRmPcs, AuthorityPcs
    <3> QED BY <1>8, <3>1, <3>3, <3>4, PutTyped DEF ReadOrgMember, OrgVars, OrgsTyped
  <2> QED BY <2>1, <2>2
<1>9. CASE DeleteOrgMember(r)
  <2>1. req[r].org \in Orgs /\ req[r].user \in Users
    BY <1>0, <1>9 DEF DeleteOrgMember, At, Prepared, OrgPcs, OrgRmPcs
  <2>2. [orgMember EXCEPT ![req[r].org][req[r].user] = DropRow(@, req[r].row)]
            \in Membership(Orgs, OrgRoles)
    BY <2>1, <1>m, RemovalTyped
  <2> QED BY <1>9, <2>2, FinishTyped DEF DeleteOrgMember, OrgsTyped, Membership
<1> QED BY <1>1, <1>2, <1>3, <1>4, <1>5, <1>6, <1>7, <1>8, <1>9 DEF OrgStep

\* create of projects, in one step.
LEMMA CreateProjectTyped ==
    ASSUME RequestsTyped, ProjectsTyped, NEW u \in Users, NEW p \in Projects,
           NEW o \in Orgs \cup {None}, CreateProject(u, p, o)
    PROVE  RequestsTyped' /\ ProjectsTyped'
<1>1. projMember \in Membership(Projects, ProjectRoles) /\ "owner" \in ProjectRoles
  BY DEF ProjectsTyped, Membership, ProjectRoles, OrgRoles
<1>2. projMember' \in Membership(Projects, ProjectRoles)
  BY <1>1, InsertionTyped DEF CreateProject
<1>3. [owner |-> u, org |-> o, live |-> TRUE]
          \in [owner: Users \cup {None}, org: Orgs \cup {None}, live: BOOLEAN]
  OBVIOUS
<1>4. projects' = [projects EXCEPT ![p] = [owner |-> u, org |-> o, live |-> TRUE]]
  BY DEF CreateProject
<1> QED BY <1>2, <1>3, <1>4 DEF CreateProject, RequestsTyped, ProjectsTyped, Membership

\* The first step of an endpoint of projects.
LEMMA ProjectRequestTyped ==
    ASSUME RequestsTyped, accounts \subseteq Users, ProjectsTyped, NEW r \in Requests,
           ProjectRequest(r)
    PROVE  RequestsTyped' /\ ProjectsTyped'
<1> USE PlansDiffer, BeginTyped
    DEF Request, Prepared, Pcs, Plans, OrgPcs, OrgAddPcs, OrgRmPcs, ProjectPcs,
        ProjectAddPcs, ProjectRmPcs, InvitePcs, AuthorityPcs, Idle, ProjVars, ProjectsTyped
<1>1. ASSUME NEW by \in accounts, NEW p \in Projects, NEW o \in Orgs \cup {None},
             UpdateProject(r, by, p, o)
      PROVE  RequestsTyped' /\ ProjectsTyped'
  BY <1>1 DEF UpdateProject, FindProjectThen
<1>2. ASSUME NEW by \in accounts, NEW p \in Projects, RemoveProject(r, by, p)
      PROVE  RequestsTyped' /\ ProjectsTyped'
  BY <1>2 DEF RemoveProject, FindProjectThen
<1>3. ASSUME NEW by \in accounts, NEW p \in Projects, NEW u \in accounts,
             NEW role \in ProjectGrants, AddProjectMember(r, by, p, u, role)
      PROVE  RequestsTyped' /\ ProjectsTyped'
  BY <1>3, ProjectConstants DEF AddProjectMember, FindProjectThen
<1>4. ASSUME NEW by \in accounts, NEW p \in Projects, NEW u \in accounts,
             RemoveProjectMember(r, by, p, u)
      PROVE  RequestsTyped' /\ ProjectsTyped'
  BY <1>4 DEF RemoveProjectMember, FindProjectThen
<1> QED BY <1>1, <1>2, <1>3, <1>4 DEF ProjectRequest

\* The later steps of ProjectsService.
LEMMA ProjectStepTyped ==
    ASSUME RequestsTyped, ProjectsTyped, NEW r \in Requests, ProjectStep(r)
    PROVE  RequestsTyped' /\ ProjectsTyped'
<1>0. req[r] \in Request /\ Prepared(req[r])
  BY DEF RequestsTyped
<1>m. projMember \in Membership(Projects, ProjectRoles)
  BY DEF ProjectsTyped, Membership
<1>1. CASE VerifyProjectAdmin(r)
  <2>1. PICK step \in AfterProjectAdmin :
            At(r, step[1]) /\ Check(r, IsProjectAdmin(req[r].proj, req[r].by), step[2])
    BY <1>1 DEF VerifyProjectAdmin
  <2>2. Moves(req[r].pc, step[2])
    BY <2>1 DEF AfterProjectAdmin, At, Moves
  <2> QED BY <1>1, <2>1, <2>2, CheckedMoveTyped DEF VerifyProjectAdmin, ProjVars, ProjectsTyped
<1>2. CASE SaveProject(r)
  <2>1. req[r].org \in Orgs \cup {None}
    BY <1>0 DEF Request
  <2> QED BY <1>2, <2>1, FinishTyped DEF SaveProject, ProjectsTyped
<1>3. CASE SoftDeleteProject(r)
  BY <1>3, FinishTyped DEF SoftDeleteProject, ProjectsTyped
<1>4. CASE FindProjectMember(r)
  <2>1. At(r, "proj.add.existing") => Moves(req[r].pc, "proj.add.insert")
    BY DEF At, Moves
  <2>2. At(r, "proj.byId.existing") =>
           /\ Moves(req[r].pc, "proj.byId.insert")
           /\ req[r].by \in Users /\ req[r].user \in Users
    BY <1>0 DEF At, Moves, Prepared, ProjectPcs, ProjectAddPcs
  <2>3. RequestsTyped'
    BY <1>4, <2>1, <2>2, MoveTyped, CheckedMoveTyped, ReturnTyped DEF FindProjectMember
  <2> QED BY <1>4, <2>3 DEF FindProjectMember, ProjVars, ProjectsTyped
<1>5. CASE InsertProjectMember(r)
  <2>1. /\ req[r].proj \in Projects /\ req[r].user \in Users
        /\ req[r].projRole \in ProjectRoles
    BY <1>0, <1>5 DEF InsertProjectMember, At, Prepared, ProjectPcs, ProjectAddPcs
  <2>2. [projMember EXCEPT ![req[r].proj][req[r].user] = NewRow(@, req[r].projRole)]
            \in Membership(Projects, ProjectRoles)
    BY <2>1, <1>m, InsertionTyped
  <2>3. projMember' \in Membership(Projects, ProjectRoles)
    BY <1>5, <1>m, <2>2 DEF InsertProjectMember
  <2>4. At(r, "proj.byId.insert") => Moves(req[r].pc, "proj.byId.find")
    BY DEF At, Moves
  <2>5. RequestsTyped'
    BY <1>5, <2>4, FinishTyped, MoveTyped DEF InsertProjectMember, Check
  <2> QED BY <1>5, <2>3, <2>5 DEF InsertProjectMember, ProjectsTyped, Membership
<1>6. CASE FindProjectOfMember(r)
  BY <1>0, <1>6, ReturnTyped, FinishTyped
     DEF FindProjectOfMember, At, Prepared, ProjectPcs, ProjectAddPcs, ProjVars,
         ProjectsTyped
<1>7. CASE ReadProjectMember(r)
  <2> DEFINE id == projMember[req[r].proj][req[r].user].id
             q == [req[r] EXCEPT !.pc = "proj.rm.delete", !.row = id]
  <2>1. CASE Finish(r)
    BY <1>7, <2>1, FinishTyped DEF ReadProjectMember, ProjVars, ProjectsTyped
  <2>2. CASE ~Finish(r)
    <3>1. /\ req' = [req EXCEPT ![r] = q]
          /\ req[r].by \in Users /\ req[r].proj \in Projects /\ req[r].user \in Users
      BY <1>0, <1>7, <2>2 DEF ReadProjectMember, At, Prepared, ProjectPcs, ProjectRmPcs
    <3>2. id \in Nat /\ "proj.rm.delete" \in Pcs
      BY <3>1 DEF ProjectsTyped, Row, Pcs, ProjectPcs
    <3> HIDE DEF id
    <3>3. q \in Request
      BY <1>0, <3>2 DEF Request
    <3>4. Prepared(q)
      <4>1. req[r].ret = <<>>
        BY <1>0, <1>7 DEF ReadProjectMember, At, Prepared, OrgAddPcs, ProjectAddPcs
      <4>2. /\ q.pc = "proj.rm.delete" /\ q.by = req[r].by /\ q.user = req[r].user
            /\ q.proj = req[r].proj /\ q.ret = <<>>
        BY <1>0, <4>1 DEF Request
      <4> QED BY <3>1, <4>2, PlansDiffer
              DEF Prepared, OrgPcs, InvitePcs, OrgAddPcs, OrgRmPcs, ProjectPcs,
                  ProjectAddPcs, ProjectRmPcs, AuthorityPcs
    <3> QED BY <1>7, <3>1, <3>3, <3>4, PutTyped DEF ReadProjectMember, ProjVars, ProjectsTyped
  <2> QED BY <2>1, <2>2
<1>8. CASE DeleteProjectMember(r)
  <2>1. req[r].proj \in Projects /\ req[r].user \in Users
    BY <1>0, <1>8 DEF DeleteProjectMember, At, Prepared, ProjectPcs, ProjectRmPcs
  <2>2. [projMember EXCEPT ![req[r].proj][req[r].user] = DropRow(@, req[r].row)]
            \in Membership(Projects, ProjectRoles)
    BY <2>1, <1>m, RemovalTyped
  <2> QED BY <1>8, <2>2, FinishTyped DEF DeleteProjectMember, ProjectsTyped, Membership
<1> QED BY <1>1, <1>2, <1>3, <1>4, <1>5, <1>6, <1>7, <1>8 DEF ProjectStep

\* A row that has a status is a whole one.
LEMMA RowOfInvitation ==
    ASSUME InvitesTyped, NEW i \in Invites
    PROVE  /\ invs[i] # NoInvite => invs[i] \in InviteRow
           /\ Pending(i) => invs[i] \in InviteRow
BY DEF InvitesTyped, Pending, NoInvite

\* The first step of an endpoint of invitations.
LEMMA InvRequestTyped ==
    ASSUME RequestsTyped, accounts \subseteq Users, ProjectsTyped, InvitesTyped,
           NEW r \in Requests, InvRequest(r)
    PROVE  RequestsTyped' /\ InvitesTyped'
<1>0. ASSUME UNCHANGED InvVars PROVE InvitesTyped'
  BY <1>0 DEF InvVars, InvitesTyped
<1> DEFINE Typed(q) == q \in Request /\ Prepared(q)
<1> USE PlansDiffer
    DEF Request, Prepared, Pcs, Plans, OrgPcs, OrgAddPcs, OrgRmPcs, ProjectPcs,
        ProjectAddPcs, ProjectRmPcs, InvitePcs, AuthorityPcs, Idle
<1>1. ASSUME NEW u \in accounts, NEW i \in Invites, NEW o \in Orgs, NEW email \in Users,
             NEW role \in OrgGrants, CreateInvitation(r, u, o, email, role, i)
      PROVE  RequestsTyped' /\ InvitesTyped'
  <2>1. ASSUME NEW pc \in {"inv.pending", "inv.admin"}
        PROVE  Typed([Idle EXCEPT !.pc = pc, !.by = u, !.org = o, !.user = email,
                                  !.role = role, !.inv = i])
    BY OrgConstants
  <2> HIDE DEF Request, Prepared, Idle
  <2> QED BY <1>0, <1>1, <2>1, BeginTyped DEF CreateInvitation
<1>2. ASSUME NEW u \in accounts, NEW i \in Invites, NEW p \in Projects, NEW email \in Users,
             NEW role \in ProjectGrants, InviteToProject(r, u, p, email, role, i)
      PROVE  RequestsTyped' /\ InvitesTyped'
  <2>1. projects[p].org \in Orgs
    BY <1>2 DEF InviteToProject, ProjectsTyped
  <2>0. OrgRoles # {} /\ "member" \in OrgRoles
    BY DEF OrgRoles
  <2>2. Typed([Idle EXCEPT !.pc = "pinv.org", !.by = u, !.org = projects[p].org,
                  !.role = "member", !.proj = p, !.projRole = role,
                  !.user = email, !.inv = i])
    <3>1. role \in ProjectRoles /\ role # None
      BY ProjectConstants
    <3> QED BY <2>0, <2>1, <3>1
  <2> HIDE DEF Request, Prepared, Idle
  <2> QED BY <1>0, <1>2, <2>2, BeginTyped DEF InviteToProject
<1>3. ASSUME NEW u \in accounts, NEW i \in Invites, AcceptInvitation(r, u, i)
      PROVE  RequestsTyped' /\ InvitesTyped'
  <2>1. invs[i] \in InviteRow
    BY <1>3, RowOfInvitation DEF AcceptInvitation
  <2>2. /\ [invs[i] EXCEPT !.status = "expired"] \in InviteRow
        /\ [invs[i] EXCEPT !.status = "accepted"] \in InviteRow
    BY <2>1 DEF InviteRow, InviteColumns, Statuses
  <2>3. /\ invs[i].by \in Users /\ invs[i].org \in Orgs /\ invs[i].role \in OrgRoles
        /\ invs[i].proj \in Projects \cup {None}
        /\ invs[i].projRole \in ProjectRoles \cup {None}
        /\ invs[i].proj # None => invs[i].projRole # None
    BY <2>1 DEF InviteRow, InviteColumns
  <2>4. ASSUME NEW copy \in InviteRow
        PROVE  Typed([Idle EXCEPT !.pc = "inv.save", !.inv = i, !.copy = copy])
    OBVIOUS
  <2>5. ASSUME NEW copy \in InviteRow
        PROVE  Typed([Idle EXCEPT !.pc = "org.add.find", !.by = invs[i].by, !.user = u,
                    !.org = invs[i].org, !.role = invs[i].role, !.proj = invs[i].proj,
                    !.projRole = invs[i].projRole, !.inv = i, !.ret = AcceptPlan(invs[i]),
                    !.copy = copy])
    BY <2>3 DEF AcceptPlan
  <2> HIDE DEF Request, Prepared, Idle
  <2> QED BY <1>0, <1>3, <2>2, <2>4, <2>5, BeginTyped DEF AcceptInvitation
<1>4. ASSUME NEW u \in accounts, NEW i \in Invites, ResendInvitation(r, u, i)
      PROVE  RequestsTyped' /\ InvitesTyped'
  <2>1. ASSUME NEW copy \in InviteRow
        PROVE  Typed([Idle EXCEPT !.pc = "resend.org", !.by = u, !.inv = i, !.copy = copy])
    OBVIOUS
  <2> HIDE DEF Request, Prepared, Idle
  <2> QED BY <1>0, <1>4, <2>1, RowOfInvitation, BeginTyped DEF ResendInvitation
<1>5. ASSUME NEW u \in accounts, NEW i \in Invites, CancelInvitation(r, u, i)
      PROVE  RequestsTyped' /\ InvitesTyped'
  <2>1. ASSUME NEW copy \in InviteRow
        PROVE  Typed([Idle EXCEPT !.pc = "cancel.org", !.by = u, !.inv = i, !.copy = copy])
    OBVIOUS
  <2> HIDE DEF Request, Prepared, Idle
  <2> QED BY <1>0, <1>5, <2>1, RowOfInvitation, BeginTyped DEF CancelInvitation
<1> QED BY <1>1, <1>2, <1>3, <1>4, <1>5 DEF InvRequest

\* resend and cancel, with a row to write that is a whole one.
LEMMA VerifyAuthorityTyped ==
    ASSUME RequestsTyped, NEW r \in Requests, NEW step, NEW byProject, NEW written,
           VerifyAuthority(r, step, byProject, written),
           \/ step = "resend.org" /\ byProject = "resend.proj"
           \/ step = "cancel.org" /\ byProject = "cancel.proj",
           req[r].copy \in InviteRow => written \in InviteRow
    PROVE  RequestsTyped'
<1>0. req[r] \in Request /\ Prepared(req[r])
  BY DEF RequestsTyped
<1>1. req[r].pc \in AuthorityPcs
  BY DEF VerifyAuthority, At, AuthorityPcs
<1>2. /\ req[r].by \in Users /\ req[r].inv \in Invites
      /\ req[r].copy \in InviteRow /\ written \in InviteRow /\ req[r].ret = <<>>
  BY <1>0, <1>1 DEF Prepared, AuthorityPcs, OrgAddPcs, ProjectAddPcs
<1>3. CASE Finish(r)
  BY <1>3, FinishTyped
<1>4. CASE req' = [req EXCEPT ![r].pc = "inv.save", ![r].copy = written]
  <2> DEFINE q == [req[r] EXCEPT !.pc = "inv.save", !.copy = written]
  <2>1. q \in Request
    BY <1>0, <1>2 DEF Request, Pcs
  <2>2. /\ q.pc = "inv.save" /\ q.copy = written /\ q.inv = req[r].inv /\ q.ret = <<>>
    BY <1>0, <1>2 DEF Request
  <2>3. Prepared(q)
    BY <1>2, <2>2, PlansDiffer
       DEF Prepared, OrgPcs, InvitePcs, OrgAddPcs, OrgRmPcs, ProjectPcs,
           ProjectAddPcs, ProjectRmPcs, AuthorityPcs
  <2> QED BY <1>4, <2>1, <2>3, PutTyped
<1>5. CASE At(r, step) /\ Goto(r, byProject) /\ req[r].copy.proj # None
  <2> DEFINE q == [req[r] EXCEPT !.pc = byProject]
  <2>1. byProject \in Pcs
    BY DEF Pcs, AuthorityPcs
  <2>2. /\ q.pc = byProject /\ q.copy = req[r].copy /\ q.inv = req[r].inv
        /\ q.by = req[r].by /\ q.ret = <<>>
    BY <1>0, <1>2 DEF Request
  <2>3. req[r].copy.proj \in Projects
    BY <1>2, <1>5 DEF InviteRow, InviteColumns
  <2> HIDE DEF q
  <2>4. Prepared(q)
    BY <1>2, <2>2, <2>3, PlansDiffer
       DEF Prepared, OrgPcs, InvitePcs, OrgAddPcs, OrgRmPcs, ProjectPcs,
           ProjectAddPcs, ProjectRmPcs, AuthorityPcs
  <2> QED BY <1>5, <2>1, <2>4, GotoTyped DEF q
<1> QED BY <1>3, <1>4, <1>5 DEF VerifyAuthority, Check

\* The later steps of InvitationsService.
LEMMA InvStepTyped ==
    ASSUME RequestsTyped, InvitesTyped, NEW r \in Requests, InvStep(r)
    PROVE  RequestsTyped' /\ InvitesTyped'
<1>0. req[r] \in Request /\ Prepared(req[r])
  BY DEF RequestsTyped
<1>u. ASSUME UNCHANGED InvVars PROVE InvitesTyped'
  BY <1>u DEF InvVars, InvitesTyped
<1>1. CASE CheckOrgInviter(r)
  BY <1>1, <1>u, CheckedMoveTyped DEF CheckOrgInviter, At, Moves
<1>2. CASE FindOrgOfProject(r)
  <2>1. /\ Moves(req[r].pc, "pinv.user")
        /\ Moves(req[r].pc, "pinv.admin")
    BY <1>2 DEF FindOrgOfProject, At, Moves
  <2> QED BY <1>2, <1>u, <2>1, CheckedMoveTyped DEF FindOrgOfProject
<1>3. CASE CheckProjectInviter(r)
  BY <1>3, <1>u, CheckedMoveTyped DEF CheckProjectInviter, At, Moves
<1>4. CASE LookUpInvitee(r)
  <2> DEFINE q == [req[r] EXCEPT !.pc = "org.add.find", !.inv = None, !.ret = Enter]
  <2>1. CASE Goto(r, "inv.pending")
    BY <1>4, <1>u, <2>1, MoveTyped DEF LookUpInvitee, At, Moves
  <2>2. CASE req' = [req EXCEPT ![r] = q]
    <3>1. /\ req[r].by \in Users /\ req[r].org \in Orgs /\ req[r].user \in Users
          /\ req[r].role \in OrgRoles /\ req[r].proj \in Projects /\ req[r].projRole # None
      BY <1>0, <1>4, ProjectConstants DEF LookUpInvitee, At, Prepared, InvitePcs
    <3>2. "org.add.find" \in Pcs /\ Enter \in Plans
      BY DEF Pcs, OrgPcs, Plans
    <3>3. req[r].projRole \in ProjectRoles
      BY <1>0, <3>1 DEF Request
    <3>4. q \in Request
      BY <1>0, <3>2 DEF Request
    <3>5. /\ q.pc = "org.add.find" /\ q.ret = Enter /\ q.by = req[r].by
          /\ q.org = req[r].org /\ q.user = req[r].user /\ q.role = req[r].role
          /\ q.proj = req[r].proj /\ q.projRole = req[r].projRole
      BY <1>0 DEF Request
    <3> HIDE DEF q
    <3>6. Prepared(q)
      BY <3>1, <3>3, <3>5, PlansDiffer
         DEF Prepared, OrgPcs, InvitePcs, OrgAddPcs, OrgRmPcs, ProjectPcs,
             ProjectAddPcs, ProjectRmPcs, AuthorityPcs
    <3> QED BY <1>4, <1>u, <2>2, <3>4, <3>6, PutTyped DEF LookUpInvitee
  <2> QED BY <1>4, <2>1, <2>2 DEF LookUpInvitee
<1>5. CASE FindPending(r)
  BY <1>5, <1>u, CheckedMoveTyped DEF FindPending, At, Moves
<1>6. CASE InsertInvitation(r)
  <2> DEFINE row == [status |-> "pending", email |-> req[r].user, org |-> req[r].org,
               role |-> req[r].role, by |-> req[r].by, proj |-> req[r].proj,
               projRole |-> req[r].projRole, expires |-> now]
  <2>1. /\ req[r].by \in Users /\ req[r].org \in Orgs /\ req[r].user \in Users
        /\ req[r].role \in OrgRoles /\ req[r].inv \in Invites
        /\ req[r].proj # None => req[r].projRole # None
        /\ req[r].proj \in Projects \cup {None}
        /\ req[r].projRole \in ProjectRoles \cup {None}
    BY <1>0, <1>6 DEF InsertInvitation, At, Prepared, InvitePcs, Request
  <2>2. row \in InviteRow
    BY <2>1 DEF InviteRow, InviteColumns, Statuses, InvitesTyped
  <2>3. invs' = [invs EXCEPT ![req[r].inv] = row] /\ now' = now /\ Finish(r)
    BY <1>6 DEF InsertInvitation
  <2> HIDE DEF row
  <2> QED BY <2>1, <2>2, <2>3, FinishTyped DEF InvitesTyped
<1>7. CASE VerifyResend(r)
  <2>1. req[r].copy \in InviteRow => Renewed(req[r].copy) \in InviteRow
    BY DEF InviteRow, InviteColumns, Renewed, InvitesTyped
  <2> QED BY <1>7, <1>u, <2>1, VerifyAuthorityTyped DEF VerifyResend
<1>8. CASE VerifyCancel(r)
  <2>1. req[r].copy \in InviteRow => Cancelled(req[r].copy) \in InviteRow
    BY DEF InviteRow, InviteColumns, Cancelled, Statuses
  <2> QED BY <1>8, <1>u, <2>1, VerifyAuthorityTyped DEF VerifyCancel
<1>9. CASE SaveInvitation(r)
  <2>1. req[r].inv \in Invites /\ req[r].copy \in InviteRow
    BY <1>0, <1>9 DEF SaveInvitation, At, Prepared
  <2> QED BY <1>9, <2>1, FinishTyped DEF SaveInvitation, InvitesTyped
<1> QED BY <1>1, <1>2, <1>3, <1>4, <1>5, <1>6, <1>7, <1>8, <1>9 DEF InvStep

-----------------------------------------------------------------------------
(* The types.                                                              *)

\* The empty tables have their types.
LEMMA InitTyped == Init => TypeOK
<1> SUFFICES ASSUME Init PROVE TypeOK
  OBVIOUS
<1>1. RequestsTyped
  BY IdleTyped DEF Init, RequestsTyped
<1>2. OrgsTyped
  BY DEF Init, OrgInit, OrgsTyped, NoGroup, NoRow, Row
<1>3. ProjectsTyped
  BY DEF Init, ProjInit, ProjectsTyped, NoProject, NoRow, Row
<1>4. InvitesTyped
  BY DEF Init, InvitesTyped
<1> QED BY <1>1, <1>2, <1>3, <1>4 DEF TypeOK

\* Every step of the system keeps the types.
LEMMA StepTyped == TypeOK /\ [Next]_vars => TypeOK'
<1> SUFFICES ASSUME TypeOK, [Next]_vars PROVE TypeOK'
  OBVIOUS
<1>0. RequestsTyped /\ OrgsTyped /\ ProjectsTyped /\ InvitesTyped /\ accounts \subseteq Users
  BY DEF TypeOK, OrgsTyped
<1>o. ASSUME UNCHANGED OrgVars PROVE OrgsTyped'
  BY <1>0, <1>o DEF OrgVars, OrgsTyped
<1>p. ASSUME UNCHANGED ProjVars PROVE ProjectsTyped'
  BY <1>0, <1>p DEF ProjVars, ProjectsTyped
<1>i. ASSUME UNCHANGED InvVars PROVE InvitesTyped'
  BY <1>0, <1>i DEF InvVars, InvitesTyped
<1>1. ASSUME NEW u \in Users, Register(u), UNCHANGED <<ProjVars, InvVars>>
      PROVE  TypeOK'
  <2>1. RequestsTyped' /\ OrgsTyped'
    BY <1>0, <1>1 DEF Register, RequestsTyped, OrgsTyped
  <2> QED BY <1>1, <1>p, <1>i, <2>1 DEF TypeOK
<1>2. ASSUME NEW r \in Requests, OrgRequest(r) \/ OrgStep(r), UNCHANGED <<ProjVars, InvVars>>
      PROVE  TypeOK'
  BY <1>0, <1>2, <1>p, <1>i, OrgRequestTyped, OrgStepTyped DEF TypeOK
<1>3. ASSUME NEW u \in accounts, NEW p \in Projects, NEW o \in Orgs \cup {None},
             CreateProject(u, p, o), UNCHANGED <<OrgVars, InvVars>>
      PROVE  TypeOK'
  BY <1>0, <1>3, <1>o, <1>i, CreateProjectTyped DEF TypeOK
<1>4. ASSUME NEW r \in Requests, ProjectRequest(r) \/ ProjectStep(r),
             UNCHANGED <<OrgVars, InvVars>>
      PROVE  TypeOK'
  BY <1>0, <1>4, <1>o, <1>i, ProjectRequestTyped, ProjectStepTyped DEF TypeOK
<1>5. ASSUME NEW r \in Requests, InvRequest(r) \/ InvStep(r), UNCHANGED <<OrgVars, ProjVars>>
      PROVE  TypeOK'
  BY <1>0, <1>5, <1>o, <1>p, InvRequestTyped, InvStepTyped DEF TypeOK
<1>6. ASSUME Tick, UNCHANGED <<OrgVars, ProjVars>>
      PROVE  TypeOK'
  <2>1. RequestsTyped' /\ InvitesTyped'
    BY <1>0, <1>6 DEF Tick, RequestsTyped, InvitesTyped
  <2> QED BY <1>6, <1>o, <1>p, <2>1 DEF TypeOK
<1>7. ASSUME UNCHANGED vars PROVE TypeOK'
  <2>1. RequestsTyped'
    BY <1>0, <1>7 DEF vars, RequestsTyped
  <2> QED BY <1>7, <1>o, <1>p, <1>i, <2>1 DEF vars, TypeOK
<1> QED BY <1>1, <1>2, <1>3, <1>4, <1>5, <1>6, <1>7 DEF Next

\* Every handler finds its local variables set, and every table keeps its
\* columns' types, whatever the requests in flight and their interleaving.
THEOREM TypeCorrect == Spec => []TypeOK
<1> QED BY InitTyped, StepTyped, PTL DEF Spec

-----------------------------------------------------------------------------
(* The owners' rows.                                                       *)

\* A removal that has read its row: keys only grow, and as long as the row
\* still has the one that was read, its role is the one that was checked.
Spares(row, id) == id <= row.id /\ (row.id = id => row.role # "owner")

\* The stages at which the organization of a request has been found.
OrgFoundPcs == {"org.update.admin", "org.update.save", "org.delete", "org.add.admin",
                "org.add.existing", "org.add.insert"}

\* What a request in flight knows of the tables: the groups that it has found
\* exist, and the row that it is about to remove is not an owner's.
SoundIn(q, os, om, ps, pm) ==
    /\ q.pc \in OrgFoundPcs => os[q.org] # NoGroup
    /\ q.proj # None => ps[q.proj] # NoProject
    /\ q.copy # None => (q.copy.proj # None => ps[q.copy.proj] # NoProject)
    /\ q.pc = "org.rm.delete" => Spares(om[q.org][q.user], q.row)
    /\ q.pc = "proj.rm.delete" => Spares(pm[q.proj][q.user], q.row)

Sound(q) == SoundIn(q, orgs, orgMember, projects, projMember)
SoundNext(q) == SoundIn(q, orgs', orgMember', projects', projMember')

RequestsSound == \A r \in Requests : Sound(req[r])

\* Invitations are to projects that were created.
InvitesSound ==
    \A i \in Invites : invs[i].proj # None => projects[invs[i].proj] # NoProject

\* The groups that were created have an owner, who is a member; the others
\* have no members.
GroupSound(group, members, none) ==
    IF group = none THEN \A u \in Users : ~IsRow(members[u])
                    ELSE group.owner \in Users /\ members[group.owner].role = "owner"

GroupsSound ==
    /\ \A o \in Orgs : GroupSound(orgs[o], orgMember[o], NoGroup)
    /\ \A p \in Projects : GroupSound(projects[p], projMember[p], NoProject)

SeatInv == TypeOK /\ GroupsSound /\ InvitesSound /\ RequestsSound

\* What a step may do to a membership row: nothing, fill an empty place under a
\* new key, or empty the place of a row that is not an owner's.
RowStep(row, next) ==
    \/ next = row
    \/ ~IsRow(row) /\ next.id = row.id + 1
    \/ row.role # "owner" /\ next.id = row.id /\ next.role = "none"

\* What it may do to a group: create it with its owner's row, or keep the owner.
GroupStep(group, next, members, nextMembers, none) ==
    \/ group = none /\ next = none /\ nextMembers = members
    \/ group = none /\ next # none /\ GroupSound(next, nextMembers, none)
    \/ group # none /\ next # none /\ next.owner = group.owner

OrgTablesStep ==
    \A o \in Orgs :
        /\ GroupStep(orgs[o], orgs'[o], orgMember[o], orgMember'[o], NoGroup)
        /\ \A u \in Users : RowStep(orgMember[o][u], orgMember'[o][u])

ProjectTablesStep ==
    \A p \in Projects :
        /\ GroupStep(projects[p], projects'[p], projMember[p], projMember'[p], NoProject)
        /\ \A u \in Users : RowStep(projMember[p][u], projMember'[p][u])

TablesStep == OrgTablesStep /\ ProjectTablesStep

\* Tables that stay as they are change as TablesStep allows.
LEMMA TablesStutter ==
    /\ UNCHANGED <<orgs, orgMember>> => OrgTablesStep
    /\ UNCHANGED <<projects, projMember>> => ProjectTablesStep
BY DEF OrgTablesStep, ProjectTablesStep, GroupStep, RowStep

\* Groups and their owners' rows survive such a step...
LEMMA GroupsSurvive ==
    ASSUME TypeOK, GroupsSound, TablesStep
    PROVE  GroupsSound'
<1>1. ASSUME NEW g, NEW next, NEW ms, NEW nextMs, NEW none,
             GroupStep(g, next, ms, nextMs, none), GroupSound(g, ms, none),
             \A u \in Users : RowStep(ms[u], nextMs[u])
      PROVE  GroupSound(next, nextMs, none)
  BY <1>1 DEF GroupStep, GroupSound, RowStep, IsRow
<1>2. ASSUME NEW o \in Orgs PROVE GroupSound(orgs[o], orgMember[o], NoGroup)'
  <2>1. GroupSound(orgs'[o], orgMember'[o], NoGroup)
    BY <1>1 DEF GroupsSound, TablesStep, OrgTablesStep
  <2> QED BY <2>1 DEF GroupSound, NoGroup, IsRow
<1>3. ASSUME NEW p \in Projects PROVE GroupSound(projects[p], projMember[p], NoProject)'
  <2>1. GroupSound(projects'[p], projMember'[p], NoProject)
    BY <1>1 DEF GroupsSound, TablesStep, ProjectTablesStep
  <2> QED BY <2>1 DEF GroupSound, NoProject, IsRow
<1> QED BY <1>2, <1>3 DEF GroupsSound

\* ...and so does what a request knows.
LEMMA SoundSurvives ==
    ASSUME TypeOK, TablesStep, NEW q \in Request, Prepared(q), Sound(q)
    PROVE  SoundNext(q)
<1>1. ASSUME NEW row, NEW next, RowStep(row, next), row.id \in Nat, Spares(row, q.row)
      PROVE  Spares(next, q.row)
  BY <1>1 DEF RowStep, Spares, Request
<1>2. q.pc \in OrgFoundPcs => orgs'[q.org] # NoGroup
  <2>1. q.pc \in OrgFoundPcs => q.org \in Orgs
    BY DEF OrgFoundPcs, Prepared, OrgPcs
  <2> QED BY <2>1 DEF Sound, SoundIn, TablesStep, OrgTablesStep, GroupStep
<1>3. ASSUME NEW p \in Projects, projects[p] # NoProject PROVE projects'[p] # NoProject
  BY <1>3 DEF TablesStep, ProjectTablesStep, GroupStep
<1>4. q.proj # None => projects'[q.proj] # NoProject
  BY <1>3 DEF Sound, SoundIn, Request
<1>5. q.copy # None => (q.copy.proj # None => projects'[q.copy.proj] # NoProject)
  BY <1>3 DEF Sound, SoundIn, Request, InviteRow, InviteColumns
<1>6. q.pc = "org.rm.delete" => Spares(orgMember'[q.org][q.user], q.row)
  <2>1. q.pc = "org.rm.delete" => q.org \in Orgs /\ q.user \in Users
    BY DEF Prepared, OrgPcs, OrgRmPcs
  <2>2. ASSUME NEW o \in Orgs, NEW u \in Users
        PROVE  orgMember[o][u].id \in Nat /\ RowStep(orgMember[o][u], orgMember'[o][u])
    BY DEF TypeOK, OrgsTyped, Row, TablesStep, OrgTablesStep
  <2> QED BY <1>1, <2>1, <2>2 DEF Sound, SoundIn
<1>7. q.pc = "proj.rm.delete" => Spares(projMember'[q.proj][q.user], q.row)
  <2>1. q.pc = "proj.rm.delete" => q.proj \in Projects /\ q.user \in Users
    BY DEF Prepared, ProjectPcs, ProjectRmPcs
  <2>2. ASSUME NEW p \in Projects, NEW u \in Users
        PROVE  projMember[p][u].id \in Nat /\ RowStep(projMember[p][u], projMember'[p][u])
    BY DEF TypeOK, ProjectsTyped, Row, TablesStep, ProjectTablesStep
  <2> QED BY <1>1, <2>1, <2>2 DEF Sound, SoundIn
<1> QED BY <1>2, <1>4, <1>5, <1>6, <1>7 DEF SoundNext, SoundIn

\* A step of the request in slot r leaves the other slots alone, and what r
\* knows next is true of the next tables.
SlotStep(r) ==
    /\ \A s \in Requests \ {r} : req'[s] = req[s]
    /\ SoundNext(req'[r])

\* A slot whose next content is known.
LEMMA SlotPut ==
    ASSUME TypeOK, NEW r \in Requests, NEW q, req' = [req EXCEPT ![r] = q], SoundNext(q)
    PROVE  SlotStep(r)
BY DEF SlotStep, TypeOK, RequestsTyped

\* A handler may answer at any stage: a free slot knows nothing.
LEMMA FinishSound ==
    ASSUME TypeOK, NEW r \in Requests, Finish(r)
    PROVE  SlotStep(r)
<1>1. SoundNext(Idle)
  BY DEF Idle, SoundNext, SoundIn, OrgFoundPcs
<1> QED BY <1>1, SlotPut DEF Finish

\* A handler may go to any stage that asks for no more than it knows.
LEMMA GotoSound ==
    ASSUME TypeOK, RequestsSound, TablesStep, NEW r \in Requests, NEW to, Goto(r, to),
           to \notin {"org.rm.delete", "proj.rm.delete"},
           to \in OrgFoundPcs => orgs'[req[r].org] # NoGroup
    PROVE  SlotStep(r)
<1> DEFINE q == [req[r] EXCEPT !.pc = to]
<1>1. req[r] \in Request /\ SoundNext(req[r])
  BY SoundSurvives DEF TypeOK, RequestsTyped, RequestsSound
<1>2. q.pc = to /\ q.org = req[r].org /\ q.proj = req[r].proj /\ q.copy = req[r].copy
  BY <1>1 DEF Request
<1>3. req' = [req EXCEPT ![r] = q]
  BY DEF Goto
<1> HIDE DEF q
<1>4. SoundNext(q)
  BY <1>1, <1>2 DEF SoundNext, SoundIn
<1> QED BY <1>3, <1>4, SlotPut

\* From one stage of its organization to the next.
LEMMA OrgGotoSound ==
    ASSUME TypeOK, RequestsSound, TablesStep, NEW r \in Requests, NEW to, Goto(r, to),
           to \notin {"org.rm.delete", "proj.rm.delete"}, req[r].pc \in OrgFoundPcs
    PROVE  SlotStep(r)
<1>1. SoundNext(req[r])
  BY SoundSurvives DEF TypeOK, RequestsTyped, RequestsSound
<1> QED BY <1>1, GotoSound DEF SoundNext, SoundIn

\* What addMember and addMemberByUserId return to knows no more than they do.
LEMMA ReturnSound ==
    ASSUME TypeOK, RequestsSound, TablesStep, NEW r \in Requests, Return(r)
    PROVE  SlotStep(r)
<1> DEFINE q == [req[r] EXCEPT !.pc = Head(req[r].ret), !.ret = Tail(req[r].ret)]
<1>1. req[r] \in Request /\ SoundNext(req[r])
  BY SoundSurvives DEF TypeOK, RequestsTyped, RequestsSound
<1>2. CASE req[r].ret = <<>>
  BY <1>2, FinishSound DEF Return
<1>3. CASE req[r].ret # <<>>
  <2>1. req' = [req EXCEPT ![r] = q]
    BY <1>3 DEF Return
  <2>2. Head(req[r].ret) \in {"inv.save", "proj.byId.existing"}
    BY <1>1, <1>3, PlanSteps DEF Request, Plans
  <2>3. /\ q.pc = Head(req[r].ret) /\ q.proj = req[r].proj /\ q.copy = req[r].copy
    BY <1>1 DEF Request
  <2> HIDE DEF q
  <2>4. SoundNext(q)
    BY <1>1, <2>2, <2>3 DEF SoundNext, SoundIn, OrgFoundPcs
  <2> QED BY <2>1, <2>4, SlotPut
<1> QED BY <1>2, <1>3

\* A removal that reads a row learns its key, and its role.
LEMMA ReadSound ==
    ASSUME TypeOK, RequestsSound, TablesStep, NEW r \in Requests,
           NEW pc, NEW id, req' = [req EXCEPT ![r].pc = pc, ![r].row = id],
           \/ pc = "org.rm.delete" /\ Spares(orgMember'[req[r].org][req[r].user], id)
           \/ pc = "proj.rm.delete" /\ Spares(projMember'[req[r].proj][req[r].user], id)
    PROVE  SlotStep(r)
<1> DEFINE q == [req[r] EXCEPT !.pc = pc, !.row = id]
<1>1. req[r] \in Request /\ SoundNext(req[r])
  BY SoundSurvives DEF TypeOK, RequestsTyped, RequestsSound
<1>2. /\ q.pc = pc /\ q.row = id /\ q.org = req[r].org /\ q.user = req[r].user
      /\ q.proj = req[r].proj /\ q.copy = req[r].copy
  BY <1>1 DEF Request
<1>3. req' = [req EXCEPT ![r] = q]
  OBVIOUS
<1> HIDE DEF q
<1>4. SoundNext(q)
  BY <1>1, <1>2 DEF SoundNext, SoundIn, OrgFoundPcs
<1> QED BY <1>3, <1>4, SlotPut

-----------------------------------------------------------------------------
(* Each operation keeps the owners' rows.                                  *)

\* The first step of an endpoint of organizations.
LEMMA OrgRequestSeat ==
    ASSUME SeatInv, NEW r \in Requests, OrgRequest(r), UNCHANGED ProjVars
    PROVE  TablesStep /\ SlotStep(r)
<1>1. ASSUME UNCHANGED OrgVars PROVE TablesStep /\ orgs' = orgs
  BY <1>1, TablesStutter DEF OrgVars, ProjVars, TablesStep
<1> USE SlotPut
    DEF SeatInv, Begin, FindOrgThen, SoundNext, SoundIn, Idle, OrgFoundPcs
<1>2. ASSUME NEW by \in accounts, NEW o \in Orgs, CreateOrg(r, by, o)
      PROVE  TablesStep /\ SlotStep(r)
  BY <1>1, <1>2 DEF CreateOrg
<1>3. ASSUME NEW o \in Orgs, orgs[o].live, UNCHANGED OrgVars PROVE orgs'[o] # NoGroup
  BY <1>3, <1>1 DEF NoGroup
<1>4. ASSUME NEW by \in accounts, NEW o \in Orgs, UpdateOrg(r, by, o)
      PROVE  TablesStep /\ SlotStep(r)
  BY <1>1, <1>3, <1>4 DEF UpdateOrg
<1>5. ASSUME NEW by \in accounts, NEW o \in Orgs, RemoveOrg(r, by, o)
      PROVE  TablesStep /\ SlotStep(r)
  BY <1>1, <1>3, <1>5 DEF RemoveOrg
<1>6. ASSUME NEW by \in accounts, NEW o \in Orgs, NEW u \in accounts, NEW role \in OrgGrants,
             AddOrgMember(r, by, o, u, role)
      PROVE  TablesStep /\ SlotStep(r)
  BY <1>1, <1>3, <1>6 DEF AddOrgMember
<1>7. ASSUME NEW by \in accounts, NEW o \in Orgs, NEW u \in accounts,
             RemoveOrgMember(r, by, o, u)
      PROVE  TablesStep /\ SlotStep(r)
  BY <1>1, <1>7 DEF RemoveOrgMember
<1> QED BY <1>2, <1>4, <1>5, <1>6, <1>7 DEF OrgRequest

\* A step that changes one row of one organization, as RowStep allows.
LEMMA OneOrgRow ==
    ASSUME TypeOK, NEW o \in Orgs, NEW u \in Users, NEW row, RowStep(orgMember[o][u], row),
           orgs[o] # NoGroup, orgs' = orgs, orgMember' = [orgMember EXCEPT ![o][u] = row]
    PROVE  OrgTablesStep
<1>1. ASSUME NEW p \in Orgs, NEW v \in Users
      PROVE  orgMember'[p][v] = orgMember[p][v] \/ (p = o /\ v = u /\ orgMember'[p][v] = row)
  BY DEF TypeOK, OrgsTyped
<1>2. ASSUME NEW p \in Orgs PROVE p = o \/ orgMember'[p] = orgMember[p]
  BY DEF TypeOK, OrgsTyped
<1> QED BY <1>1, <1>2 DEF OrgTablesStep, GroupStep, RowStep

\* A step that changes one organization and no membership.
LEMMA OneOrg ==
    ASSUME TypeOK, NEW o \in Orgs, NEW group, orgs' = [orgs EXCEPT ![o] = group],
           group # NoGroup, orgs[o] # NoGroup, group.owner = orgs[o].owner,
           orgMember' = orgMember
    PROVE  OrgTablesStep
<1>1. ASSUME NEW k \in Orgs PROVE (k = o /\ orgs'[k] = group) \/ orgs'[k] = orgs[k]
  BY DEF TypeOK, OrgsTyped
<1> QED BY <1>1 DEF OrgTablesStep, GroupStep, RowStep

\* The same of a project.
LEMMA OneProject ==
    ASSUME TypeOK, NEW p \in Projects, NEW group, projects' = [projects EXCEPT ![p] = group],
           group # NoProject, projects[p] # NoProject, group.owner = projects[p].owner,
           projMember' = projMember
    PROVE  ProjectTablesStep
<1>1. ASSUME NEW k \in Projects
      PROVE  (k = p /\ projects'[k] = group) \/ projects'[k] = projects[k]
  BY DEF TypeOK, ProjectsTyped
<1> QED BY <1>1 DEF ProjectTablesStep, GroupStep, RowStep

\* A step that changes one row of one project, as RowStep allows.
LEMMA OneProjectRow ==
    ASSUME TypeOK, NEW p \in Projects, NEW u \in Users, NEW row,
           RowStep(projMember[p][u], row), projects[p] # NoProject,
           projects' = projects, projMember' = [projMember EXCEPT ![p][u] = row]
    PROVE  ProjectTablesStep
<1>1. ASSUME NEW k \in Projects, NEW v \in Users
      PROVE  \/ projMember'[k][v] = projMember[k][v]
             \/ k = p /\ v = u /\ projMember'[k][v] = row
  BY DEF TypeOK, ProjectsTyped
<1>2. ASSUME NEW k \in Projects PROVE k = p \/ projMember'[k] = projMember[k]
  BY DEF TypeOK, ProjectsTyped
<1> QED BY <1>1, <1>2 DEF ProjectTablesStep, GroupStep, RowStep

\* Both ways in which rows change are allowed.
LEMMA RowSteps ==
    /\ \A row, role : ~IsRow(row) => RowStep(row, NewRow(row, role))
    /\ \A row \in Row(OrgRoles) \cup Row(ProjectRoles) :
          \A id : Spares(row, id) => RowStep(row, DropRow(row, id))
<1>1. ASSUME NEW row, NEW role, ~IsRow(row) PROVE RowStep(row, NewRow(row, role))
  BY <1>1 DEF RowStep, NewRow
<1>2. ASSUME NEW row \in Row(OrgRoles) \cup Row(ProjectRoles), NEW id, Spares(row, id)
      PROVE  RowStep(row, DropRow(row, id))
  BY <1>2 DEF RowStep, DropRow, Spares, Row
<1> QED BY <1>1, <1>2

\* The later steps of OrganizationsService.
LEMMA OrgStepSeat ==
    ASSUME SeatInv, NEW r \in Requests, OrgStep(r), UNCHANGED ProjVars
    PROVE  TablesStep /\ SlotStep(r)
<1>0. /\ TypeOK /\ RequestsSound /\ Sound(req[r])
      /\ req[r] \in Request /\ Prepared(req[r]) /\ ProjectTablesStep
  BY TablesStutter DEF SeatInv, TypeOK, RequestsTyped, RequestsSound, ProjVars
<1>t. ASSUME UNCHANGED OrgVars PROVE TablesStep
  BY <1>t, <1>0, TablesStutter DEF OrgVars, TablesStep
<1>1. CASE InsertOrg(r)
  <2>0. req[r].by \in Users /\ req[r].org \in Orgs
    BY <1>0, <1>1 DEF InsertOrg, At, Prepared, OrgPcs
  <2>1. CASE orgs[req[r].org] # NoGroup
    BY <1>0, <1>1, <2>1, TablesStutter, FinishSound DEF InsertOrg, TablesStep
  <2>2. CASE orgs[req[r].org] = NoGroup
    <3> DEFINE o == req[r].org
               u == req[r].by
               row == NewRow(orgMember[o][u], "owner")
               group == [owner |-> u, live |-> TRUE]
    <3>1. /\ orgs' = [orgs EXCEPT ![o] = group] /\ Finish(r)
          /\ orgMember' = [orgMember EXCEPT ![o][u] = row]
      BY <1>1, <2>2 DEF InsertOrg
    <3>2. \A v \in Users : ~IsRow(orgMember[o][v])
      BY <2>0, <2>2 DEF SeatInv, GroupsSound, GroupSound
    <3>3. RowStep(orgMember[o][u], row) /\ row.role = "owner"
      BY <2>0, <3>2, RowSteps DEF NewRow
    <3>4. group # NoGroup /\ group.owner = u
      BY DEF NoGroup
    <3> HIDE DEF row, group
    <3>5. ASSUME NEW k \in Orgs, NEW v \in Users
          PROVE  \/ orgMember'[k][v] = orgMember[k][v]
                 \/ k = o /\ v = u /\ orgMember'[k][v] = row
      BY <1>0, <3>1 DEF TypeOK, OrgsTyped
    <3>6. ASSUME NEW k \in Orgs, k # o
          PROVE  orgMember'[k] = orgMember[k] /\ orgs'[k] = orgs[k]
      BY <1>0, <3>1, <3>6 DEF TypeOK, OrgsTyped
    <3>7. orgs'[o] = group /\ orgMember'[o][u] = row
      BY <1>0, <2>0, <3>1 DEF TypeOK, OrgsTyped
    <3>8. GroupSound(group, orgMember'[o], NoGroup)
      BY <2>0, <3>3, <3>4, <3>7 DEF GroupSound
    <3>9. OrgTablesStep
      <4>1. ASSUME NEW k \in Orgs
            PROVE  GroupStep(orgs[k], orgs'[k], orgMember[k], orgMember'[k], NoGroup)
        BY <2>2, <3>4, <3>6, <3>7, <3>8 DEF GroupStep
      <4>2. ASSUME NEW k \in Orgs, NEW v \in Users
            PROVE  RowStep(orgMember[k][v], orgMember'[k][v])
        BY <3>3, <3>5 DEF RowStep
      <4> QED BY <4>1, <4>2 DEF OrgTablesStep
    <3> QED BY <1>0, <3>1, <3>9, FinishSound DEF TablesStep
  <2> QED BY <2>1, <2>2
<1>2. CASE FindOrg(r)
  <2>1. orgs[req[r].org].live => orgs'[req[r].org] # NoGroup
    BY <1>2 DEF FindOrg, OrgVars, NoGroup
  <2> QED BY <1>0, <1>t, <1>2, <2>1, GotoSound, FinishSound DEF FindOrg, Check
<1>3. CASE VerifyOrgAdmin(r)
  <2>1. PICK step \in AfterOrgAdmin :
            At(r, step[1]) /\ Check(r, IsOrgAdmin(req[r].org, req[r].by), step[2])
    BY <1>3 DEF VerifyOrgAdmin
  <2>2. \/ req[r].pc \in OrgFoundPcs /\ step[2] \in {"org.update.save", "org.add.existing"}
        \/ step[2] = "org.rm.row"
    BY <2>1 DEF AfterOrgAdmin, At, OrgFoundPcs
  <2>3. TablesStep
    BY <1>3, <1>t DEF VerifyOrgAdmin
  <2>4. SlotStep(r)
    BY <1>0, <2>1, <2>2, <2>3, GotoSound, OrgGotoSound, FinishSound DEF Check, OrgFoundPcs
  <2> QED BY <2>3, <2>4
<1>4. CASE SaveOrg(r) \/ SoftDeleteOrg(r)
  <2> DEFINE o == req[r].org
  <2>1. PICK live \in BOOLEAN :
            /\ orgs' = [orgs EXCEPT ![o] = [orgs[o] EXCEPT !.live = live]]
            /\ Finish(r) /\ orgMember' = orgMember
            /\ req[r].pc \in {"org.update.save", "org.delete"}
    BY <1>4 DEF SaveOrg, SoftDeleteOrg, At
  <2>2. o \in Orgs /\ orgs[o] # NoGroup
    BY <1>0, <2>1 DEF Prepared, OrgPcs, Sound, SoundIn, OrgFoundPcs
  <2>3. orgs[o].owner # None
    BY <2>2, OrgConstants DEF SeatInv, GroupsSound, GroupSound
  <2>4. [orgs[o] EXCEPT !.live = live].owner = orgs[o].owner
    BY <1>0, <2>2 DEF TypeOK, OrgsTyped
  <2>5. [orgs[o] EXCEPT !.live = live] # NoGroup
    BY <2>3, <2>4 DEF NoGroup
  <2>6. OrgTablesStep
    BY <1>0, <2>1, <2>2, <2>4, <2>5, OneOrg
  <2> QED BY <1>0, <2>1, <2>6, FinishSound DEF TablesStep
<1>6. CASE FindOrgMember(r)
  <2>1. req[r].pc \in OrgFoundPcs /\ TablesStep
    BY <1>6, <1>t DEF FindOrgMember, At, OrgFoundPcs
  <2> QED BY <1>0, <1>6, <2>1, OrgGotoSound, ReturnSound DEF FindOrgMember
<1>7. CASE InsertOrgMember(r)
  <2>1. req[r].org \in Orgs /\ req[r].user \in Users /\ orgs[req[r].org] # NoGroup
    BY <1>0, <1>7
       DEF InsertOrgMember, At, Prepared, OrgPcs, OrgAddPcs, Sound, SoundIn, OrgFoundPcs
  <2>2. CASE IsRow(orgMember[req[r].org][req[r].user])
    BY <1>0, <1>7, <2>2, TablesStutter, FinishSound DEF InsertOrgMember, TablesStep
  <2>3. CASE ~IsRow(orgMember[req[r].org][req[r].user])
    <3> DEFINE o == req[r].org
               u == req[r].user
               row == NewRow(orgMember[o][u], req[r].role)
    <3>1. orgs' = orgs /\ Return(r) /\ orgMember' = [orgMember EXCEPT ![o][u] = row]
      BY <1>7, <2>3 DEF InsertOrgMember
    <3>2. RowStep(orgMember[o][u], row)
      BY <2>3, RowSteps
    <3> HIDE DEF row
    <3>3. OrgTablesStep
      BY <1>0, <2>1, <3>1, <3>2, OneOrgRow
    <3> QED BY <1>0, <3>1, <3>3, ReturnSound DEF TablesStep
  <2> QED BY <2>2, <2>3
<1>8. CASE ReadOrgMember(r)
  <2>1. CASE Finish(r)
    BY <1>0, <1>8, <1>t, <2>1, FinishSound DEF ReadOrgMember
  <2>2. CASE ~Finish(r)
    <3> DEFINE row == orgMember[req[r].org][req[r].user]
    <3>1. /\ req' = [req EXCEPT ![r].pc = "org.rm.delete", ![r].row = row.id]
          /\ row.role # "owner" /\ orgMember' = orgMember /\ TablesStep
      BY <1>8, <1>t, <2>2 DEF ReadOrgMember, OrgVars
    <3>2. row.id \in Nat
      BY <1>0, <1>8 DEF ReadOrgMember, At, Prepared, OrgPcs, OrgRmPcs, TypeOK, OrgsTyped, Row
    <3>3. Spares(orgMember'[req[r].org][req[r].user], row.id)
      BY <3>1, <3>2 DEF Spares
    <3> HIDE DEF row
    <3> QED BY <1>0, <3>1, <3>3, ReadSound
  <2> QED BY <2>1, <2>2
<1>9. CASE DeleteOrgMember(r)
  <2>1. /\ req[r].org \in Orgs /\ req[r].user \in Users
        /\ Spares(orgMember[req[r].org][req[r].user], req[r].row)
    BY <1>0, <1>9 DEF DeleteOrgMember, At, Prepared, OrgPcs, OrgRmPcs, Sound, SoundIn
  <2> DEFINE o == req[r].org
             u == req[r].user
             row == DropRow(orgMember[o][u], req[r].row)
  <2>2. orgMember[o][u] \in Row(OrgRoles)
    BY <1>0, <2>1 DEF TypeOK, OrgsTyped
  <2>3. RowStep(orgMember[o][u], row)
    BY <2>1, <2>2, RowSteps
  <2>4. orgs' = orgs /\ orgMember' = [orgMember EXCEPT ![o][u] = row] /\ Finish(r)
    BY <1>9 DEF DeleteOrgMember
  <2>5. CASE orgs[o] # NoGroup
    BY <1>0, <2>1, <2>3, <2>4, <2>5, OneOrgRow, FinishSound DEF TablesStep
  <2>6. CASE orgs[o] = NoGroup
    <3>1. ~IsRow(orgMember[o][u])
      BY <2>1, <2>6 DEF SeatInv, GroupsSound, GroupSound
    <3>2. row = orgMember[o][u]
      BY <2>2, <3>1 DEF DropRow, IsRow, Row
    <3>3. orgMember' = orgMember
      BY <1>0, <2>1, <2>4, <3>2 DEF TypeOK, OrgsTyped
    <3> QED BY <1>0, <2>4, <3>3, TablesStutter, FinishSound DEF TablesStep
  <2> QED BY <2>5, <2>6
<1> QED BY <1>1, <1>2, <1>3, <1>4, <1>6, <1>7, <1>8, <1>9 DEF OrgStep

\* The creation of a project.
LEMMA CreateProjectSeat ==
    ASSUME SeatInv, NEW u \in Users, NEW p \in Projects, NEW o \in Orgs \cup {None},
           CreateProject(u, p, o), UNCHANGED OrgVars
    PROVE  TablesStep
<1> DEFINE row == NewRow(projMember[p][u], "owner")
           group == [owner |-> u, org |-> o, live |-> TRUE]
<1>0. TypeOK /\ projects[p] = NoProject
  BY DEF SeatInv, CreateProject
<1>1. projects' = [projects EXCEPT ![p] = group] /\ projMember' = [projMember EXCEPT ![p][u] = row]
  BY DEF CreateProject
<1>2. \A v \in Users : ~IsRow(projMember[p][v])
  BY <1>0 DEF SeatInv, GroupsSound, GroupSound
<1>3. RowStep(projMember[p][u], row) /\ row.role = "owner"
  BY <1>2, RowSteps DEF NewRow
<1>4. group # NoProject /\ group.owner = u
  BY DEF NoProject
<1> HIDE DEF row, group
<1>5. ASSUME NEW k \in Projects, NEW v \in Users
      PROVE  \/ projMember'[k][v] = projMember[k][v]
             \/ k = p /\ v = u /\ projMember'[k][v] = row
  BY <1>0, <1>1 DEF TypeOK, ProjectsTyped
<1>6. ASSUME NEW k \in Projects, k # p
      PROVE  projMember'[k] = projMember[k] /\ projects'[k] = projects[k]
  BY <1>0, <1>1, <1>6 DEF TypeOK, ProjectsTyped
<1>7. projects'[p] = group /\ projMember'[p][u] = row
  BY <1>0, <1>1 DEF TypeOK, ProjectsTyped
<1>8. GroupSound(group, projMember'[p], NoProject)
  BY <1>3, <1>4, <1>7 DEF GroupSound
<1>9. ProjectTablesStep
  <2>1. ASSUME NEW k \in Projects
        PROVE  GroupStep(projects[k], projects'[k], projMember[k], projMember'[k], NoProject)
    BY <1>0, <1>4, <1>6, <1>7, <1>8 DEF GroupStep
  <2>2. ASSUME NEW k \in Projects, NEW v \in Users
        PROVE  RowStep(projMember[k][v], projMember'[k][v])
    BY <1>3, <1>5 DEF RowStep
  <2> QED BY <2>1, <2>2 DEF ProjectTablesStep
<1> QED BY <1>9, TablesStutter DEF TablesStep, OrgVars

\* The first step of an endpoint of projects.
LEMMA ProjectRequestSeat ==
    ASSUME SeatInv, NEW r \in Requests, ProjectRequest(r), UNCHANGED OrgVars
    PROVE  TablesStep /\ SlotStep(r)
<1>1. ASSUME UNCHANGED ProjVars PROVE TablesStep /\ projects' = projects
  BY <1>1, TablesStutter DEF OrgVars, ProjVars, TablesStep
<1>2. ASSUME NEW p \in Projects, projects[p].live, UNCHANGED ProjVars
      PROVE  projects'[p] # NoProject
  BY <1>2, <1>1 DEF NoProject
<1> USE <1>1, <1>2, SlotPut
    DEF SeatInv, Begin, FindProjectThen, SoundNext, SoundIn, Idle, OrgFoundPcs
<1>3. ASSUME NEW by \in accounts, NEW p \in Projects, NEW o \in Orgs \cup {None},
             UpdateProject(r, by, p, o)
      PROVE  TablesStep /\ SlotStep(r)
  BY <1>3 DEF UpdateProject
<1>4. ASSUME NEW by \in accounts, NEW p \in Projects, RemoveProject(r, by, p)
      PROVE  TablesStep /\ SlotStep(r)
  BY <1>4 DEF RemoveProject
<1>5. ASSUME NEW by \in accounts, NEW p \in Projects, NEW u \in accounts,
             NEW role \in ProjectGrants, AddProjectMember(r, by, p, u, role)
      PROVE  TablesStep /\ SlotStep(r)
  BY <1>5 DEF AddProjectMember
<1>6. ASSUME NEW by \in accounts, NEW p \in Projects, NEW u \in accounts,
             RemoveProjectMember(r, by, p, u)
      PROVE  TablesStep /\ SlotStep(r)
  BY <1>6 DEF RemoveProjectMember
<1> QED BY <1>3, <1>4, <1>5, <1>6 DEF ProjectRequest

\* The later steps of ProjectsService.
LEMMA ProjectStepSeat ==
    ASSUME SeatInv, NEW r \in Requests, ProjectStep(r), UNCHANGED OrgVars
    PROVE  TablesStep /\ SlotStep(r)
<1>0. /\ TypeOK /\ RequestsSound /\ Sound(req[r])
      /\ req[r] \in Request /\ Prepared(req[r]) /\ OrgTablesStep
  BY TablesStutter DEF SeatInv, TypeOK, RequestsTyped, RequestsSound, OrgVars
<1>t. ASSUME UNCHANGED ProjVars PROVE TablesStep
  BY <1>t, <1>0, TablesStutter DEF ProjVars, TablesStep
<1>f. req[r].proj \in Projects => projects[req[r].proj] # NoProject
  BY <1>0, ProjectConstants DEF Sound, SoundIn
<1>1. CASE VerifyProjectAdmin(r)
  <2>1. PICK step \in AfterProjectAdmin :
            At(r, step[1]) /\ Check(r, IsProjectAdmin(req[r].proj, req[r].by), step[2])
    BY <1>1 DEF VerifyProjectAdmin
  <2>2. step[2] \in {"proj.update.save", "proj.add.existing", "proj.rm.row"}
    BY <2>1 DEF AfterProjectAdmin
  <2>3. TablesStep
    BY <1>1, <1>t DEF VerifyProjectAdmin
  <2>4. SlotStep(r)
    BY <1>0, <2>1, <2>2, <2>3, GotoSound, FinishSound DEF Check, OrgFoundPcs
  <2> QED BY <2>3, <2>4
<1>2. CASE SaveProject(r) \/ SoftDeleteProject(r)
  <2> DEFINE p == req[r].proj
  <2>1. PICK org \in Orgs \cup {None}, live \in BOOLEAN :
            /\ projects' = [projects EXCEPT ![p] = [projects[p] EXCEPT !.org = org, !.live = live]]
            /\ Finish(r) /\ projMember' = projMember
    <3>1. projects[p].org \in Orgs \cup {None} /\ req[r].org \in Orgs \cup {None} /\ p \in Projects
      BY <1>0, <1>2 DEF SaveProject, SoftDeleteProject, At, Prepared, ProjectPcs,
                        TypeOK, ProjectsTyped, Request
    <3>2. CASE SaveProject(r)
      BY <3>1, <3>2 DEF SaveProject
    <3>3. CASE SoftDeleteProject(r)
      <4>1. [projects[p] EXCEPT !.live = FALSE] =
                [projects[p] EXCEPT !.org = projects[p].org, !.live = FALSE]
        BY <1>0, <3>1 DEF TypeOK, ProjectsTyped
      <4> QED BY <3>1, <3>3, <4>1 DEF SoftDeleteProject
    <3> QED BY <1>2, <3>2, <3>3
  <2>2. p \in Projects /\ projects[p] # NoProject
    BY <1>0, <1>2, <1>f DEF SaveProject, SoftDeleteProject, At, Prepared, ProjectPcs
  <2>3. projects[p].owner # None
    BY <2>2, OrgConstants DEF SeatInv, GroupsSound, GroupSound
  <2> DEFINE group == [projects[p] EXCEPT !.org = org, !.live = live]
  <2>4. group.owner = projects[p].owner
    BY <1>0, <2>2 DEF TypeOK, ProjectsTyped
  <2>5. group # NoProject
    BY <2>3, <2>4 DEF NoProject
  <2> HIDE DEF group
  <2>6. ProjectTablesStep
    BY <1>0, <2>1, <2>2, <2>4, <2>5, OneProject DEF group
  <2> QED BY <1>0, <2>1, <2>6, FinishSound DEF TablesStep
<1>3. CASE FindProjectMember(r)
  <2>1. TablesStep
    BY <1>3, <1>t DEF FindProjectMember
  <2>2. SlotStep(r)
    BY <1>0, <1>3, <2>1, GotoSound, ReturnSound, FinishSound
       DEF FindProjectMember, Check, OrgFoundPcs
  <2> QED BY <2>1, <2>2
<1>4. CASE InsertProjectMember(r)
  <2> DEFINE p == req[r].proj
             u == req[r].user
             row == NewRow(projMember[p][u], req[r].projRole)
  <2>1. p \in Projects /\ u \in Users /\ projects[p] # NoProject
    BY <1>0, <1>4, <1>f
       DEF InsertProjectMember, At, Prepared, ProjectPcs, ProjectAddPcs
  <2>2. CASE IsRow(projMember[p][u])
    BY <1>0, <1>4, <2>2, TablesStutter, FinishSound DEF InsertProjectMember, TablesStep
  <2>3. CASE ~IsRow(projMember[p][u])
    <3>1. /\ projects' = projects /\ projMember' = [projMember EXCEPT ![p][u] = row]
          /\ Goto(r, "proj.byId.find") \/ Finish(r)
      BY <1>4, <2>3 DEF InsertProjectMember, Check
    <3>2. RowStep(projMember[p][u], row)
      BY <2>3, RowSteps
    <3> HIDE DEF row
    <3>3. ProjectTablesStep
      BY <1>0, <2>1, <3>1, <3>2, OneProjectRow
    <3> QED BY <1>0, <3>1, <3>3, GotoSound, FinishSound DEF TablesStep, OrgFoundPcs
  <2> QED BY <2>2, <2>3
<1>5. CASE FindProjectOfMember(r)
  BY <1>0, <1>5, <1>t, ReturnSound, FinishSound DEF FindProjectOfMember
<1>6. CASE ReadProjectMember(r)
  <2>1. CASE Finish(r)
    BY <1>0, <1>6, <1>t, <2>1, FinishSound DEF ReadProjectMember
  <2>2. CASE ~Finish(r)
    <3> DEFINE row == projMember[req[r].proj][req[r].user]
    <3>1. /\ req' = [req EXCEPT ![r].pc = "proj.rm.delete", ![r].row = row.id]
          /\ row.role # "owner" /\ projMember' = projMember /\ TablesStep
      BY <1>6, <1>t, <2>2 DEF ReadProjectMember, ProjVars
    <3>2. row.id \in Nat
      BY <1>0, <1>6 DEF ReadProjectMember, At, Prepared, ProjectPcs, ProjectRmPcs,
                        TypeOK, ProjectsTyped, Row
    <3>3. Spares(projMember'[req[r].proj][req[r].user], row.id)
      BY <3>1, <3>2 DEF Spares
    <3> HIDE DEF row
    <3> QED BY <1>0, <3>1, <3>3, ReadSound
  <2> QED BY <2>1, <2>2
<1>7. CASE DeleteProjectMember(r)
  <2> DEFINE p == req[r].proj
             u == req[r].user
             row == DropRow(projMember[p][u], req[r].row)
  <2>1. p \in Projects /\ u \in Users /\ Spares(projMember[p][u], req[r].row)
    BY <1>0, <1>7 DEF DeleteProjectMember, At, Prepared, ProjectPcs, ProjectRmPcs, Sound, SoundIn
  <2>2. projMember[p][u] \in Row(ProjectRoles)
    BY <1>0, <2>1 DEF TypeOK, ProjectsTyped
  <2>3. RowStep(projMember[p][u], row)
    BY <2>1, <2>2, RowSteps
  <2>4. projects' = projects /\ projMember' = [projMember EXCEPT ![p][u] = row] /\ Finish(r)
    BY <1>7 DEF DeleteProjectMember
  <2> HIDE DEF row
  <2> QED BY <1>0, <1>f, <2>1, <2>3, <2>4, OneProjectRow, FinishSound DEF TablesStep
<1> QED BY <1>1, <1>2, <1>3, <1>4, <1>5, <1>6, <1>7 DEF ProjectStep

\* The first step of an endpoint of invitations: the groups are left alone.
LEMMA InvRequestSeat ==
    ASSUME SeatInv, NEW r \in Requests, InvRequest(r), UNCHANGED <<OrgVars, ProjVars>>
    PROVE  TablesStep /\ SlotStep(r) /\ InvitesSound'
<1>0. /\ TypeOK /\ TablesStep /\ InvitesSound /\ InvitesTyped
      /\ projects' = projects /\ orgs' = orgs
  BY TablesStutter DEF SeatInv, TypeOK, OrgVars, ProjVars, TablesStep
<1>v. UNCHANGED InvVars => InvitesSound'
  BY <1>0 DEF InvitesSound, InvVars
<1>1. ASSUME NEW u \in accounts, NEW i \in Invites, NEW o \in Orgs, NEW email \in Users,
             NEW role \in OrgGrants, CreateInvitation(r, u, o, email, role, i)
      PROVE  SlotStep(r) /\ InvitesSound'
  <2>1. ASSUME NEW pc \in {"inv.pending", "inv.admin"}
        PROVE  SoundNext([Idle EXCEPT !.pc = pc, !.by = u, !.org = o, !.user = email,
                                      !.role = role, !.inv = i])
    BY DEF SoundNext, SoundIn, Idle, OrgFoundPcs
  <2> QED BY <1>0, <1>1, <1>v, <2>1, SlotPut DEF CreateInvitation, Begin
<1>2. ASSUME NEW u \in accounts, NEW i \in Invites, NEW p \in Projects, NEW email \in Users,
             NEW role \in ProjectGrants, InviteToProject(r, u, p, email, role, i)
      PROVE  SlotStep(r) /\ InvitesSound'
  <2>1. projects'[p] # NoProject
    BY <1>0, <1>2 DEF InviteToProject, NoProject
  <2>2. SoundNext([Idle EXCEPT !.pc = "pinv.org", !.by = u, !.org = projects[p].org,
                       !.role = "member", !.proj = p, !.projRole = role,
                       !.user = email, !.inv = i])
    BY <2>1 DEF SoundNext, SoundIn, Idle, OrgFoundPcs
  <2> QED BY <1>0, <1>2, <1>v, <2>2, SlotPut DEF InviteToProject, Begin
<1>3. ASSUME NEW u \in accounts, NEW i \in Invites, AcceptInvitation(r, u, i)
      PROVE  SlotStep(r) /\ InvitesSound'
  <2>1. invs[i] \in InviteRow
    BY <1>0, <1>3, RowOfInvitation DEF AcceptInvitation
  <2>2. invs[i].proj # None => projects'[invs[i].proj] # NoProject
    BY <1>0 DEF InvitesSound
  <2>3. ASSUME NEW status
        PROVE  /\ SoundNext([Idle EXCEPT !.pc = "inv.save", !.inv = i,
                                         !.copy = [invs[i] EXCEPT !.status = status]])
               /\ SoundNext([Idle EXCEPT !.pc = "org.add.find", !.by = invs[i].by, !.user = u,
                    !.org = invs[i].org, !.role = invs[i].role, !.proj = invs[i].proj,
                    !.projRole = invs[i].projRole, !.inv = i, !.ret = AcceptPlan(invs[i]),
                    !.copy = [invs[i] EXCEPT !.status = status]])
    <3>1. [invs[i] EXCEPT !.status = status].proj = invs[i].proj
      BY <2>1 DEF InviteRow, InviteColumns
    <3> QED BY <2>2, <3>1 DEF SoundNext, SoundIn, Idle, OrgFoundPcs
  <2> QED BY <1>0, <1>3, <1>v, <2>3, SlotPut DEF AcceptInvitation, Begin
<1>4. ASSUME NEW u \in accounts, NEW i \in Invites, NEW pc \in {"resend.org", "cancel.org"},
             Begin(r, [Idle EXCEPT !.pc = pc, !.by = u, !.inv = i, !.copy = invs[i]])
      PROVE  SlotStep(r)
  <2>1. SoundNext([Idle EXCEPT !.pc = pc, !.by = u, !.inv = i, !.copy = invs[i]])
    BY <1>0 DEF InvitesSound, SoundNext, SoundIn, Idle, OrgFoundPcs
  <2> QED BY <1>0, <1>4, <2>1, SlotPut DEF Begin
<1>5. ASSUME NEW u \in accounts, NEW i \in Invites,
             ResendInvitation(r, u, i) \/ CancelInvitation(r, u, i)
      PROVE  SlotStep(r) /\ InvitesSound'
  BY <1>4, <1>5, <1>v DEF ResendInvitation, CancelInvitation
<1> QED BY <1>0, <1>1, <1>2, <1>3, <1>5 DEF InvRequest

\* The later steps of InvitationsService.
LEMMA InvStepSeat ==
    ASSUME SeatInv, NEW r \in Requests, InvStep(r), UNCHANGED <<OrgVars, ProjVars>>
    PROVE  TablesStep /\ SlotStep(r) /\ InvitesSound'
<1>0. /\ TypeOK /\ RequestsSound /\ TablesStep /\ InvitesSound /\ InvitesTyped
      /\ SoundNext(req[r]) /\ req[r] \in Request /\ Prepared(req[r])
      /\ projects' = projects /\ orgs' = orgs
  BY TablesStutter, SoundSurvives
     DEF SeatInv, TypeOK, RequestsTyped, RequestsSound, OrgVars, ProjVars, TablesStep
<1>v. UNCHANGED InvVars => InvitesSound'
  BY <1>0 DEF InvitesSound, InvVars
<1>p. req[r].proj # None => projects[req[r].proj] # NoProject
  BY <1>0 DEF SoundNext, SoundIn
<1>c. req[r].copy # None /\ req[r].copy.proj # None => projects[req[r].copy.proj] # NoProject
  BY <1>0 DEF SoundNext, SoundIn
<1>n. None \notin InviteRow
  BY NoneIsNoRow DEF InviteRow
<1>w. ASSUME NEW i \in Invites, NEW row, row.proj # None => projects[row.proj] # NoProject,
             invs' = [invs EXCEPT ![i] = row]
      PROVE  InvitesSound'
  BY <1>0, <1>w DEF InvitesSound, InvitesTyped
<1>1. CASE \/ CheckOrgInviter(r) \/ FindOrgOfProject(r) \/ CheckProjectInviter(r)
           \/ FindPending(r)
  <2>1. \E to \in {"inv.pending", "pinv.user", "pinv.admin", "inv.insert"} :
            Goto(r, to) \/ Finish(r)
    BY <1>1 DEF CheckOrgInviter, FindOrgOfProject, CheckProjectInviter, FindPending, Check
  <2>2. SlotStep(r)
    BY <1>0, <2>1, GotoSound, FinishSound DEF OrgFoundPcs
  <2> QED BY <1>0, <1>1, <1>v, <2>2
          DEF CheckOrgInviter, FindOrgOfProject, CheckProjectInviter, FindPending
<1>2. CASE LookUpInvitee(r)
  <2> DEFINE q == [req[r] EXCEPT !.pc = "org.add.find", !.inv = None, !.ret = Enter]
  <2>1. Goto(r, "inv.pending") \/ req' = [req EXCEPT ![r] = q]
    BY <1>2 DEF LookUpInvitee
  <2>2. q.pc = "org.add.find" /\ q.proj = req[r].proj /\ q.copy = req[r].copy
    BY <1>0 DEF Request
  <2> HIDE DEF q
  <2>3. SoundNext(q)
    BY <1>0, <2>2 DEF SoundNext, SoundIn, OrgFoundPcs
  <2>4. SlotStep(r)
    BY <1>0, <2>1, <2>3, SlotPut, GotoSound DEF OrgFoundPcs
  <2> QED BY <1>0, <1>2, <1>v, <2>4 DEF LookUpInvitee
<1>3. CASE InsertInvitation(r)
  <2> DEFINE row == [status |-> "pending", email |-> req[r].user, org |-> req[r].org,
               role |-> req[r].role, by |-> req[r].by, proj |-> req[r].proj,
               projRole |-> req[r].projRole, expires |-> now]
  <2>1. invs' = [invs EXCEPT ![req[r].inv] = row] /\ Finish(r) /\ req[r].inv \in Invites
    BY <1>0, <1>3 DEF InsertInvitation, At, Prepared, InvitePcs
  <2>2. row.proj = req[r].proj
    OBVIOUS
  <2> HIDE DEF row
  <2> QED BY <1>0, <1>p, <1>w, <2>1, <2>2, FinishSound
<1>4. CASE VerifyResend(r) \/ VerifyCancel(r)
  <2>1. PICK written, byProject :
            /\ \/ req' = [req EXCEPT ![r].pc = "inv.save", ![r].copy = written]
               \/ Goto(r, byProject)
               \/ Finish(r)
            /\ byProject \in {"resend.proj", "cancel.proj"}
            /\ written \in {Renewed(req[r].copy), Cancelled(req[r].copy)}
            /\ req[r].pc \in AuthorityPcs
    BY <1>4 DEF VerifyResend, VerifyCancel, VerifyAuthority, At, Check, AuthorityPcs
  <2>2. req[r].copy \in InviteRow
    BY <1>0, <2>1 DEF Prepared
  <2>3. written.proj = req[r].copy.proj
    BY <2>1, <2>2 DEF Renewed, Cancelled, InviteRow, InviteColumns
  <2> DEFINE q == [req[r] EXCEPT !.pc = "inv.save", !.copy = written]
  <2>4. q.pc = "inv.save" /\ q.copy = written /\ q.proj = req[r].proj
    BY <1>0 DEF Request
  <2> HIDE DEF q
  <2>5. SoundNext(q)
    BY <1>0, <1>n, <2>2, <2>3, <2>4 DEF SoundNext, SoundIn, OrgFoundPcs
  <2>6. SlotStep(r)
    BY <1>0, <2>1, <2>5, SlotPut, GotoSound, FinishSound DEF q, OrgFoundPcs
  <2> QED BY <1>0, <1>4, <1>v, <2>6 DEF VerifyResend, VerifyCancel
<1>5. CASE SaveInvitation(r)
  <2>1. /\ invs' = [invs EXCEPT ![req[r].inv] = req[r].copy] /\ Finish(r)
        /\ req[r].inv \in Invites /\ req[r].copy \in InviteRow
    BY <1>0, <1>5 DEF SaveInvitation, At, Prepared
  <2> QED BY <1>0, <1>c, <1>n, <1>w, <2>1, FinishSound
<1> QED BY <1>1, <1>2, <1>3, <1>4, <1>5 DEF InvStep

-----------------------------------------------------------------------------
(* The theorems on owners.                                                 *)

\* The empty tables have no groups, and the free slots know nothing.
LEMMA InitSeat == Init => SeatInv
<1> SUFFICES ASSUME Init PROVE SeatInv
  OBVIOUS
<1>1. TypeOK
  BY InitTyped
<1>2. GroupsSound
  BY DEF Init, OrgInit, ProjInit, GroupsSound, GroupSound, NoRow, IsRow
<1>3. InvitesSound
  BY DEF Init, InvitesSound, NoInvite
<1>4. RequestsSound
  BY DEF Init, RequestsSound, Sound, SoundIn, Idle, OrgFoundPcs
<1> QED BY <1>1, <1>2, <1>3, <1>4 DEF SeatInv

\* What each step of the system does to the tables and to what requests know.
LEMMA NextSeat ==
    ASSUME SeatInv, [Next]_vars
    PROVE  /\ TablesStep
           /\ InvitesSound'
           /\ \A r \in Requests : SoundNext(req'[r])
<1>0. /\ TypeOK /\ RequestsSound /\ InvitesSound
      /\ \A r \in Requests : req[r] \in Request /\ Prepared(req[r]) /\ Sound(req[r])
  BY DEF SeatInv, TypeOK, RequestsTyped, RequestsSound
<1>k. ASSUME TablesStep, NEW r \in Requests, req'[r] = req[r] PROVE SoundNext(req'[r])
  BY <1>0, <1>k, SoundSurvives
<1>s. ASSUME TablesStep, NEW r \in Requests, SlotStep(r)
      PROVE  \A s \in Requests : SoundNext(req'[s])
  BY <1>k, <1>s DEF SlotStep
<1>i. ASSUME UNCHANGED invs, TablesStep PROVE InvitesSound'
  <2>1. ASSUME NEW p \in Projects, projects[p] # NoProject PROVE projects'[p] # NoProject
    BY <1>i, <2>1 DEF TablesStep, ProjectTablesStep, GroupStep
  <2>2. \A i \in Invites : invs[i].proj # None => invs[i].proj \in Projects
    BY <1>0 DEF TypeOK, InvitesTyped, InviteRow, InviteColumns, NoInvite
  <2> QED BY <1>0, <1>i, <2>1, <2>2 DEF InvitesSound
<1> DEFINE Goal == /\ TablesStep
                   /\ InvitesSound'
                   /\ \A r \in Requests : SoundNext(req'[r])
<1>1. ASSUME NEW u \in Users, Register(u), UNCHANGED <<ProjVars, InvVars>> PROVE Goal
  <2>1. TablesStep
    BY <1>1, TablesStutter DEF Register, ProjVars, TablesStep
  <2> QED BY <1>1, <1>i, <1>k, <2>1 DEF Register, InvVars
<1>2. ASSUME NEW r \in Requests, OrgRequest(r) \/ OrgStep(r), UNCHANGED <<ProjVars, InvVars>>
      PROVE  Goal
  <2>1. TablesStep /\ SlotStep(r)
    BY <1>2, OrgRequestSeat, OrgStepSeat
  <2> QED BY <1>2, <1>i, <1>s, <2>1 DEF InvVars
<1>3. ASSUME NEW u \in accounts, NEW p \in Projects, NEW o \in Orgs \cup {None},
             CreateProject(u, p, o), UNCHANGED <<OrgVars, InvVars>>
      PROVE  Goal
  <2>1. u \in Users
    BY <1>0 DEF TypeOK, OrgsTyped
  <2>2. TablesStep /\ req' = req
    BY <1>3, <2>1, CreateProjectSeat DEF CreateProject
  <2> QED BY <1>3, <1>i, <1>k, <2>2 DEF InvVars
<1>4. ASSUME NEW r \in Requests, ProjectRequest(r) \/ ProjectStep(r),
             UNCHANGED <<OrgVars, InvVars>>
      PROVE  Goal
  <2>1. TablesStep /\ SlotStep(r)
    BY <1>4, ProjectRequestSeat, ProjectStepSeat
  <2> QED BY <1>4, <1>i, <1>s, <2>1 DEF InvVars
<1>5. ASSUME NEW r \in Requests, InvRequest(r) \/ InvStep(r), UNCHANGED <<OrgVars, ProjVars>>
      PROVE  Goal
  <2>1. TablesStep /\ SlotStep(r) /\ InvitesSound'
    BY <1>5, InvRequestSeat, InvStepSeat
  <2> QED BY <1>s, <2>1
<1>6. ASSUME UNCHANGED <<req, invs, OrgVars, ProjVars>> PROVE Goal
  <2>1. TablesStep
    BY <1>6, TablesStutter DEF OrgVars, ProjVars, TablesStep
  <2> QED BY <1>6, <1>i, <1>k, <2>1
<1>7. CASE Tick /\ UNCHANGED <<OrgVars, ProjVars>>
  BY <1>6, <1>7 DEF Tick
<1>8. CASE UNCHANGED vars
  BY <1>6, <1>8 DEF vars, InvVars
<1> QED BY <1>1, <1>2, <1>3, <1>4, <1>5, <1>7, <1>8 DEF Next

\* The invariant is inductive.
LEMMA StepSeat == SeatInv /\ [Next]_vars => SeatInv'
<1> SUFFICES ASSUME SeatInv, [Next]_vars PROVE SeatInv'
  OBVIOUS
<1>1. TypeOK'
  BY StepTyped DEF SeatInv
<1>2. GroupsSound'
  BY NextSeat, GroupsSurvive DEF SeatInv
<1>3. InvitesSound' /\ \A r \in Requests : SoundNext(req'[r])
  BY NextSeat
<1>4. RequestsSound'
  BY <1>3 DEF RequestsSound, Sound, SoundNext
<1> QED BY <1>1, <1>2, <1>3, <1>4 DEF SeatInv

\* Nobody can lock the creator of an organization or a project out of it, by
\* whatever interleaving of additions, removals, updates and invitations.
THEOREM OwnersStay == Spec => []OwnersKeepTheirSeat
<1>1. SeatInv => OwnersKeepTheirSeat
  BY DEF SeatInv, GroupsSound, GroupSound, OwnersKeepTheirSeat
<1> QED BY InitSeat, StepSeat, <1>1, PTL DEF Spec

\* A step never removes or changes a membership row with the role OWNER: the
\* check of removeMember and the removal by key, some awaits apart, act as one.
THEOREM OwnerRowsStay == Spec => OwnerRowsAreFinal
<1>1. SeatInv /\ [Next]_vars =>
        [ /\ \A o \in Orgs, u \in Users :
               orgMember[o][u].role = "owner" => orgMember'[o][u] = orgMember[o][u]
          /\ \A p \in Projects, u \in Users :
               projMember[p][u].role = "owner" => projMember'[p][u] = projMember[p][u] ]_vars
  <2> SUFFICES ASSUME SeatInv, [Next]_vars
               PROVE  /\ \A o \in Orgs, u \in Users :
                           orgMember[o][u].role = "owner" =>
                               orgMember'[o][u] = orgMember[o][u]
                      /\ \A p \in Projects, u \in Users :
                           projMember[p][u].role = "owner" =>
                               projMember'[p][u] = projMember[p][u]
    OBVIOUS
  <2> QED BY NextSeat DEF TablesStep, OrgTablesStep, ProjectTablesStep, RowStep, IsRow
<1> QED BY InitSeat, StepSeat, <1>1, PTL DEF Spec, OwnerRowsAreFinal

-----------------------------------------------------------------------------
(* The refinement.                                                         *)


(* Organizations.                                                          *)

OrgOwners == [o \in Orgs |-> orgs[o].owner]
OrgMemberRoles == [o \in Orgs |-> [u \in Users |-> orgMember[o][u].role]]

OrgMapped == [OrgMembership!Next]_OrgMembership!membership

\* An organization has an owner from its creation on.
LEMMA OrgFounded ==
    ASSUME SeatInv, NEW o \in Orgs
    PROVE  orgs[o].owner = None <=> orgs[o] = NoGroup
<1>1. CASE orgs[o] = NoGroup
  BY <1>1 DEF NoGroup
<1>2. CASE orgs[o] # NoGroup
  <2>1. GroupSound(orgs[o], orgMember[o], NoGroup)
    BY DEF SeatInv, GroupsSound
  <2>2. orgs[o].owner \in Users
    BY <1>2, <2>1 DEF GroupSound
  <2> QED BY <1>2, <2>2, OrgConstants
<1> QED BY <1>1, <1>2

\* A foundation, an admission or a dismissal is a step of Membership.
LEMMA OrgActs ==
    ASSUME NEW o \in Orgs, NEW u \in Users, NEW as \in OrgRoles,
           \/ OrgMembership!Found(o, u)
           \/ OrgMembership!Admit(o, u, as)
           \/ OrgMembership!Dismiss(o, u)
    PROVE  OrgMapped
<1>1. OrgMembership!Next
  BY DEF OrgMembership!Next
<1> QED BY <1>1 DEF OrgMapped

\* A step that keeps owners and roles is a stutter of Membership.
LEMMA OrgStutter ==
    ASSUME \A o \in Orgs : orgs'[o].owner = orgs[o].owner, orgMember' = orgMember
    PROVE  OrgMapped
<1>1. UNCHANGED OrgOwners
  BY DEF OrgOwners
<1>2. UNCHANGED OrgMemberRoles
  BY DEF OrgMemberRoles
<1> QED BY <1>1, <1>2 DEF OrgMapped, OrgMembership!membership, OrgOwners, OrgMemberRoles

\* The effect on the roles of a step that writes one row.
LEMMA OrgRowRoles ==
    ASSUME TypeOK, NEW o \in Orgs, NEW u \in Users, NEW row,
           orgMember' = [orgMember EXCEPT ![o][u] = row]
    PROVE  OrgMemberRoles' = [OrgMemberRoles EXCEPT ![o][u] = row.role]
<1>1. ASSUME NEW p \in Orgs, NEW v \in Users
      PROVE  orgMember'[p][v].role =
                 IF p = o /\ v = u THEN row.role ELSE orgMember[p][v].role
  BY DEF TypeOK, OrgsTyped
<1>2. ASSUME NEW p \in Orgs
      PROVE  OrgMemberRoles'[p] = [OrgMemberRoles EXCEPT ![o][u] = row.role][p]
  <2>1. OrgMemberRoles'[p] = [v \in Users |-> orgMember'[p][v].role]
    BY DEF OrgMemberRoles
  <2>2. OrgMemberRoles[p] = [v \in Users |-> orgMember[p][v].role]
    BY DEF OrgMemberRoles
  <2>3. [OrgMemberRoles EXCEPT ![o][u] = row.role][p] =
            IF p = o THEN [OrgMemberRoles[p] EXCEPT ![u] = row.role] ELSE OrgMemberRoles[p]
    BY DEF OrgMemberRoles
  <2> QED BY <1>1, <2>1, <2>2, <2>3
<1>3. OrgMemberRoles' = [p \in Orgs |-> OrgMemberRoles'[p]]
      /\ OrgMemberRoles = [p \in Orgs |-> OrgMemberRoles[p]]
  BY DEF OrgMemberRoles
<1> QED BY <1>2, <1>3

\* InsertOrg founds an organization, or finds its slug taken.
LEMMA InsertOrgMapped ==
    ASSUME SeatInv, NEW r \in Requests, InsertOrg(r)
    PROVE  OrgMapped
<1>t. TypeOK /\ req[r].org \in Orgs /\ req[r].by \in Users
  BY DEF SeatInv, TypeOK, RequestsTyped, Prepared, InsertOrg, At, OrgPcs
<1> PICK o \in Orgs, u \in Users : o = req[r].org /\ u = req[r].by
  BY <1>t
<1>0. TypeOK
  BY <1>t
<1>1. CASE orgs[o] # NoGroup
  BY <1>1, OrgStutter DEF InsertOrg
<1>2. CASE orgs[o] = NoGroup
  <2>1. /\ orgs' = [orgs EXCEPT ![o] = [owner |-> u, live |-> TRUE]]
        /\ orgMember' = [orgMember EXCEPT ![o][u] = NewRow(orgMember[o][u], "owner")]
    BY <1>2 DEF InsertOrg
  <2>2. OrgOwners' = [OrgOwners EXCEPT ![o] = u]
    BY <1>0, <2>1 DEF OrgOwners, TypeOK, OrgsTyped
  <2>3. OrgMemberRoles' = [OrgMemberRoles EXCEPT ![o][u] = "owner"]
    BY <1>0, <2>1, OrgRowRoles DEF NewRow
  <2>4. OrgOwners[o] = None
    BY <1>0, <1>2 DEF OrgOwners, NoGroup
  <2>5. OrgMembership!Found(o, u)
    BY <2>2, <2>3, <2>4 DEF OrgMembership!Found, OrgOwners, OrgMemberRoles
  <2> QED BY <1>0, <2>5, OrgActs, OrgConstants DEF OrgRoles
<1> QED BY <1>1, <1>2

\* InsertOrgMember admits a person, or finds the place taken.
LEMMA InsertOrgMemberMapped ==
    ASSUME SeatInv, NEW r \in Requests, InsertOrgMember(r)
    PROVE  OrgMapped
<1>t. /\ TypeOK /\ req[r].org \in Orgs /\ req[r].user \in Users
      /\ req[r].role \in OrgRoles /\ orgs[req[r].org] # NoGroup
  BY DEF SeatInv, TypeOK, RequestsTyped, Prepared, RequestsSound, Sound, SoundIn,
         OrgFoundPcs, InsertOrgMember, At, OrgPcs, OrgAddPcs
<1> PICK o \in Orgs, u \in Users, as \in OrgRoles :
             o = req[r].org /\ u = req[r].user /\ as = req[r].role
  BY <1>t
<1>0. TypeOK /\ orgs[o] # NoGroup
  BY <1>t
<1>1. CASE IsRow(orgMember[o][u])
  BY <1>1, OrgStutter DEF InsertOrgMember
<1>2. CASE ~IsRow(orgMember[o][u])
  <2> PICK row : row = NewRow(orgMember[o][u], as)
    OBVIOUS
  <2>1. orgs' = orgs /\ orgMember' = [orgMember EXCEPT ![o][u] = row]
    BY <1>2 DEF InsertOrgMember
  <2>2. OrgMemberRoles' = [OrgMemberRoles EXCEPT ![o][u] = as]
    <3>1. row.role = as
      BY DEF NewRow
    <3> QED BY <1>0, <2>1, <3>1, OrgRowRoles
  <2>3. OrgOwners[o] # None /\ OrgOwners' = OrgOwners /\ OrgMemberRoles[o][u] = "none"
    BY <1>0, <1>2, <2>1, OrgFounded DEF OrgOwners, OrgMemberRoles, IsRow
  <2>4. OrgMembership!Admit(o, u, as)
    BY <2>2, <2>3 DEF OrgMembership!Admit, OrgOwners, OrgMemberRoles
  <2> QED BY <1>0, <2>4, OrgActs
<1> QED BY <1>1, <1>2

\* DeleteOrgMember dismisses a member who is no owner, or finds the row gone.
LEMMA DeleteOrgMemberMapped ==
    ASSUME SeatInv, NEW r \in Requests, DeleteOrgMember(r)
    PROVE  OrgMapped
<1>t. /\ TypeOK /\ req[r].org \in Orgs /\ req[r].user \in Users
      /\ Spares(orgMember[req[r].org][req[r].user], req[r].row)
  BY DEF SeatInv, TypeOK, RequestsTyped, Prepared, RequestsSound, Sound, SoundIn,
         DeleteOrgMember, At, OrgPcs, OrgRmPcs
<1> PICK o \in Orgs, u \in Users : o = req[r].org /\ u = req[r].user
  BY <1>t
<1> DEFINE row == orgMember[o][u]
<1>0. TypeOK /\ Spares(row, req[r].row)
  BY <1>t
<1>n. PICK next : next = DropRow(row, req[r].row)
  OBVIOUS
<1>1. orgs' = orgs /\ orgMember' = [orgMember EXCEPT ![o][u] = next]
  BY <1>n DEF DeleteOrgMember
<1>2. OrgMemberRoles' = [OrgMemberRoles EXCEPT ![o][u] = next.role]
  <2>1. TypeOK /\ orgMember' = [orgMember EXCEPT ![o][u] = next]
    BY <1>0, <1>1
  <2> QED BY <2>1, OrgRowRoles
<1>3. OrgOwners' = OrgOwners /\ OrgMemberRoles[o][u] = row.role
  BY <1>0, <1>1 DEF OrgOwners, OrgMemberRoles
<1>4. CASE row.id = req[r].row /\ row.role # "none"
  <2>1. row.role # "owner"
    BY <1>0, <1>4 DEF Spares
  <2>2. next.role = "none"
    BY <1>0, <1>4, <1>n DEF DropRow, TypeOK, OrgsTyped, Row
  <2>3. OrgMembership!Dismiss(o, u)
    BY <1>2, <1>3, <1>4, <2>1, <2>2 DEF OrgMembership!Dismiss, OrgOwners, OrgMemberRoles
  <2> QED BY <1>0, <2>3, OrgActs DEF OrgRoles
<1>5. CASE ~(row.id = req[r].row /\ row.role # "none")
  <2>1. next.role = row.role
    BY <1>0, <1>5, <1>n DEF DropRow, TypeOK, OrgsTyped, Row
  <2>2. [OrgMemberRoles EXCEPT ![o][u] = OrgMemberRoles[o][u]] = OrgMemberRoles
    BY DEF OrgMemberRoles
  <2>3. OrgMemberRoles' = OrgMemberRoles
    BY <1>2, <1>3, <2>1, <2>2
  <2> QED BY <1>3, <2>3 DEF OrgMapped, OrgMembership!membership, OrgOwners, OrgMemberRoles
<1> QED BY <1>4, <1>5

\* The other steps leave owners and members alone.
LEMMA OrgStepMapped ==
    ASSUME SeatInv, NEW r \in Requests, OrgStep(r)
    PROVE  OrgMapped
<1>0. TypeOK
  BY DEF SeatInv
<1>1. CASE UNCHANGED OrgVars
  BY <1>1, OrgStutter DEF OrgVars
<1>2. CASE FindOrg(r) \/ VerifyOrgAdmin(r) \/ FindOrgMember(r) \/ ReadOrgMember(r)
  BY <1>1, <1>2 DEF FindOrg, VerifyOrgAdmin, FindOrgMember, ReadOrgMember
<1>3. CASE SaveOrg(r) \/ SoftDeleteOrg(r)
  <2>1. \A o \in Orgs : orgs'[o].owner = orgs[o].owner
    BY <1>0, <1>3 DEF SaveOrg, SoftDeleteOrg, TypeOK, OrgsTyped
  <2>2. orgMember' = orgMember
    BY <1>3 DEF SaveOrg, SoftDeleteOrg
  <2> QED BY <2>1, <2>2, OrgStutter
<1> QED BY <1>2, <1>3, InsertOrgMapped, InsertOrgMemberMapped, DeleteOrgMemberMapped
        DEF OrgStep

-----------------------------------------------------------------------------
(* Projects.                                                               *)

ProjectOwners == [p \in Projects |-> projects[p].owner]
ProjectMemberRoles == [p \in Projects |-> [u \in Users |-> projMember[p][u].role]]

ProjectMapped == [ProjectMembership!Next]_ProjectMembership!membership

\* A project has an owner from its creation on.
LEMMA ProjectFounded ==
    ASSUME SeatInv, NEW p \in Projects
    PROVE  projects[p].owner = None <=> projects[p] = NoProject
<1>1. CASE projects[p] = NoProject
  BY <1>1 DEF NoProject
<1>2. CASE projects[p] # NoProject
  <2>1. GroupSound(projects[p], projMember[p], NoProject)
    BY DEF SeatInv, GroupsSound
  <2>2. projects[p].owner \in Users
    BY <1>2, <2>1 DEF GroupSound
  <2> QED BY <1>2, <2>2, OrgConstants
<1> QED BY <1>1, <1>2

\* A foundation, an admission or a dismissal is a step of Membership.
LEMMA ProjectActs ==
    ASSUME NEW p \in Projects, NEW u \in Users, NEW as \in ProjectRoles,
           \/ ProjectMembership!Found(p, u)
           \/ ProjectMembership!Admit(p, u, as)
           \/ ProjectMembership!Dismiss(p, u)
    PROVE  ProjectMapped
<1>1. ProjectMembership!Next
  BY DEF ProjectMembership!Next
<1> QED BY <1>1 DEF ProjectMapped

\* A step that keeps owners and roles is a stutter of Membership.
LEMMA ProjectStutter ==
    ASSUME \A p \in Projects : projects'[p].owner = projects[p].owner,
           projMember' = projMember
    PROVE  ProjectMapped
<1>1. UNCHANGED ProjectOwners
  BY DEF ProjectOwners
<1>2. UNCHANGED ProjectMemberRoles
  BY DEF ProjectMemberRoles
<1> QED BY <1>1, <1>2 DEF ProjectMapped, ProjectMembership!membership, ProjectOwners,
              ProjectMemberRoles

\* The effect on the roles of a step that writes one row.
LEMMA ProjectRowRoles ==
    ASSUME TypeOK, NEW p \in Projects, NEW u \in Users, NEW row,
           projMember' = [projMember EXCEPT ![p][u] = row]
    PROVE  ProjectMemberRoles' = [ProjectMemberRoles EXCEPT ![p][u] = row.role]
<1>1. ASSUME NEW k \in Projects, NEW v \in Users
      PROVE  projMember'[k][v].role =
                 IF k = p /\ v = u THEN row.role ELSE projMember[k][v].role
  BY DEF TypeOK, ProjectsTyped
<1>2. ASSUME NEW k \in Projects
      PROVE  ProjectMemberRoles'[k] = [ProjectMemberRoles EXCEPT ![p][u] = row.role][k]
  <2>1. ProjectMemberRoles'[k] = [v \in Users |-> projMember'[k][v].role]
    BY DEF ProjectMemberRoles
  <2>2. ProjectMemberRoles[k] = [v \in Users |-> projMember[k][v].role]
    BY DEF ProjectMemberRoles
  <2>3. [ProjectMemberRoles EXCEPT ![p][u] = row.role][k] =
            IF k = p THEN [ProjectMemberRoles[k] EXCEPT ![u] = row.role] ELSE ProjectMemberRoles[k]
    BY DEF ProjectMemberRoles
  <2> QED BY <1>1, <2>1, <2>2, <2>3
<1>3. ProjectMemberRoles' = [k \in Projects |-> ProjectMemberRoles'[k]]
      /\ ProjectMemberRoles = [k \in Projects |-> ProjectMemberRoles[k]]
  BY DEF ProjectMemberRoles
<1> QED BY <1>2, <1>3

\* CreateProject founds a project.
LEMMA CreateProjectMapped ==
    ASSUME SeatInv, NEW u \in accounts, NEW p \in Projects, NEW org, CreateProject(u, p, org)
    PROVE  ProjectMapped
<1>0. TypeOK /\ u \in Users
  BY DEF SeatInv, TypeOK, OrgsTyped
<1>1. /\ projects[p] = NoProject
      /\ projects' = [projects EXCEPT ![p] = [owner |-> u, org |-> org, live |-> TRUE]]
      /\ projMember' = [projMember EXCEPT ![p][u] = NewRow(projMember[p][u], "owner")]
  BY DEF CreateProject
<1>2. ProjectOwners' = [ProjectOwners EXCEPT ![p] = u]
  BY <1>0, <1>1 DEF ProjectOwners, TypeOK, ProjectsTyped
<1>3. ProjectMemberRoles' = [ProjectMemberRoles EXCEPT ![p][u] = "owner"]
  BY <1>0, <1>1, ProjectRowRoles DEF NewRow
<1>4. ProjectOwners[p] = None
  BY <1>1 DEF ProjectOwners, NoProject
<1>5. ProjectMembership!Found(p, u)
  BY <1>2, <1>3, <1>4 DEF ProjectMembership!Found, ProjectOwners, ProjectMemberRoles
<1> QED BY <1>0, <1>5, ProjectActs DEF ProjectRoles, OrgRoles

\* InsertProjectMember admits a person, or finds the place taken.
LEMMA InsertProjectMemberMapped ==
    ASSUME SeatInv, NEW r \in Requests, InsertProjectMember(r)
    PROVE  ProjectMapped
<1>t. /\ TypeOK /\ req[r].proj \in Projects /\ req[r].user \in Users
      /\ req[r].projRole \in ProjectRoles /\ projects[req[r].proj] # NoProject
  <2>1. TypeOK /\ Prepared(req[r]) /\ Sound(req[r])
    BY DEF SeatInv, TypeOK, RequestsTyped, RequestsSound
  <2>2. req[r].pc \in {"proj.add.insert", "proj.byId.insert"}
    BY DEF InsertProjectMember, At
  <2>3. /\ req[r].proj \in Projects /\ req[r].user \in Users
        /\ req[r].projRole \in ProjectRoles
    BY <2>1, <2>2 DEF Prepared, ProjectPcs, ProjectAddPcs
  <2>4. projects[req[r].proj] # NoProject
    BY <2>1, <2>3, ProjectConstants DEF Sound, SoundIn
  <2> QED BY <2>1, <2>3, <2>4
<1> PICK p \in Projects, u \in Users, as \in ProjectRoles :
             p = req[r].proj /\ u = req[r].user /\ as = req[r].projRole
  BY <1>t
<1>0. TypeOK /\ projects[p] # NoProject
  BY <1>t
<1>1. CASE IsRow(projMember[p][u])
  BY <1>1, ProjectStutter DEF InsertProjectMember
<1>2. CASE ~IsRow(projMember[p][u])
  <2> PICK row : row = NewRow(projMember[p][u], as)
    OBVIOUS
  <2>1. projects' = projects /\ projMember' = [projMember EXCEPT ![p][u] = row]
    BY <1>2 DEF InsertProjectMember
  <2>2. ProjectMemberRoles' = [ProjectMemberRoles EXCEPT ![p][u] = as]
    <3>1. row.role = as
      BY DEF NewRow
    <3> QED BY <1>0, <2>1, <3>1, ProjectRowRoles
  <2>3. /\ ProjectOwners[p] # None /\ ProjectOwners' = ProjectOwners
        /\ ProjectMemberRoles[p][u] = "none"
    BY <1>0, <1>2, <2>1, ProjectFounded DEF ProjectOwners, ProjectMemberRoles, IsRow
  <2>4. ProjectMembership!Admit(p, u, as)
    BY <2>2, <2>3 DEF ProjectMembership!Admit, ProjectOwners, ProjectMemberRoles
  <2> QED BY <1>0, <2>4, ProjectActs
<1> QED BY <1>1, <1>2

\* DeleteProjectMember dismisses a member who is no owner, or finds the row gone.
LEMMA DeleteProjectMemberMapped ==
    ASSUME SeatInv, NEW r \in Requests, DeleteProjectMember(r)
    PROVE  ProjectMapped
<1>t. /\ TypeOK /\ req[r].proj \in Projects /\ req[r].user \in Users
      /\ Spares(projMember[req[r].proj][req[r].user], req[r].row)
  BY DEF SeatInv, TypeOK, RequestsTyped, Prepared, RequestsSound, Sound, SoundIn,
         DeleteProjectMember, At, ProjectPcs, ProjectRmPcs
<1> PICK p \in Projects, u \in Users : p = req[r].proj /\ u = req[r].user
  BY <1>t
<1> DEFINE row == projMember[p][u]
<1>0. TypeOK /\ Spares(row, req[r].row)
  BY <1>t
<1>n. PICK next : next = DropRow(row, req[r].row)
  OBVIOUS
<1>1. projects' = projects /\ projMember' = [projMember EXCEPT ![p][u] = next]
  BY <1>n DEF DeleteProjectMember
<1>2. ProjectMemberRoles' = [ProjectMemberRoles EXCEPT ![p][u] = next.role]
  <2>1. TypeOK /\ projMember' = [projMember EXCEPT ![p][u] = next]
    BY <1>0, <1>1
  <2> QED BY <2>1, ProjectRowRoles
<1>3. ProjectOwners' = ProjectOwners /\ ProjectMemberRoles[p][u] = row.role
  BY <1>0, <1>1 DEF ProjectOwners, ProjectMemberRoles
<1>4. CASE row.id = req[r].row /\ row.role # "none"
  <2>1. row.role # "owner"
    BY <1>0, <1>4 DEF Spares
  <2>2. next.role = "none"
    BY <1>0, <1>4, <1>n DEF DropRow, TypeOK, ProjectsTyped, Row
  <2>3. ProjectMembership!Dismiss(p, u)
    BY <1>2, <1>3, <1>4, <2>1, <2>2 DEF ProjectMembership!Dismiss, ProjectOwners, ProjectMemberRoles
  <2> QED BY <1>0, <2>3, ProjectActs DEF ProjectRoles, OrgRoles
<1>5. CASE ~(row.id = req[r].row /\ row.role # "none")
  <2>1. next.role = row.role
    BY <1>0, <1>5, <1>n DEF DropRow, TypeOK, ProjectsTyped, Row
  <2>2. [ProjectMemberRoles EXCEPT ![p][u] = ProjectMemberRoles[p][u]] = ProjectMemberRoles
    BY DEF ProjectMemberRoles
  <2>3. ProjectMemberRoles' = ProjectMemberRoles
    BY <1>2, <1>3, <2>1, <2>2
  <2> QED BY <1>3, <2>3 DEF ProjectMapped, ProjectMembership!membership, ProjectOwners,
              ProjectMemberRoles
<1> QED BY <1>4, <1>5

\* The other steps leave owners and members alone.
LEMMA ProjectStepMapped ==
    ASSUME SeatInv, NEW r \in Requests, ProjectStep(r)
    PROVE  ProjectMapped
<1>0. TypeOK
  BY DEF SeatInv
<1>1. CASE UNCHANGED ProjVars
  BY <1>1, ProjectStutter DEF ProjVars
<1>2. CASE \/ FindProjectOfMember(r) \/ VerifyProjectAdmin(r)
           \/ FindProjectMember(r) \/ ReadProjectMember(r)
  BY <1>1, <1>2 DEF FindProjectOfMember, VerifyProjectAdmin, FindProjectMember, ReadProjectMember
<1>3. CASE SaveProject(r) \/ SoftDeleteProject(r)
  <2>1. \A p \in Projects : projects'[p].owner = projects[p].owner
    BY <1>0, <1>3 DEF SaveProject, SoftDeleteProject, TypeOK, ProjectsTyped
  <2>2. projMember' = projMember
    BY <1>3 DEF SaveProject, SoftDeleteProject
  <2> QED BY <2>1, <2>2, ProjectStutter
<1> QED BY <1>2, <1>3, InsertProjectMemberMapped, DeleteProjectMemberMapped
        DEF ProjectStep

-----------------------------------------------------------------------------
(* The theorems.                                                           *)

\* Every step of the system is one of Membership, for the organizations...
LEMMA NextOrgMapped == SeatInv /\ [Next]_vars => OrgMapped
<1> SUFFICES ASSUME SeatInv, [Next]_vars PROVE OrgMapped
  OBVIOUS
<1>0. CASE UNCHANGED <<orgs, orgMember>>
  BY <1>0, OrgStutter
<1>1. ASSUME NEW u \in Users, Register(u) PROVE OrgMapped
  BY <1>0, <1>1 DEF Register
<1>2. ASSUME NEW r \in Requests, OrgRequest(r) PROVE OrgMapped
  <2>1. UNCHANGED OrgVars
    BY <1>2 DEF OrgRequest, CreateOrg, UpdateOrg, RemoveOrg, AddOrgMember, RemoveOrgMember,
                FindOrgThen
  <2> QED BY <1>0, <2>1 DEF OrgVars
<1>3. ASSUME NEW r \in Requests, OrgStep(r) PROVE OrgMapped
  BY <1>3, OrgStepMapped
<1>4. CASE UNCHANGED OrgVars \/ UNCHANGED vars
  BY <1>0, <1>4 DEF OrgVars, vars
<1> QED BY <1>1, <1>2, <1>3, <1>4 DEF Next

\* ...and for the projects.
LEMMA NextProjectMapped == SeatInv /\ [Next]_vars => ProjectMapped
<1> SUFFICES ASSUME SeatInv, [Next]_vars PROVE ProjectMapped
  OBVIOUS
<1>0. CASE UNCHANGED <<projects, projMember>>
  BY <1>0, ProjectStutter
<1>1. ASSUME NEW u \in accounts, NEW p \in Projects, NEW o \in Orgs \cup {None},
             CreateProject(u, p, o)
      PROVE  ProjectMapped
  BY <1>1, CreateProjectMapped
<1>2. ASSUME NEW r \in Requests, ProjectRequest(r) PROVE ProjectMapped
  <2>1. UNCHANGED ProjVars
    BY <1>2 DEF ProjectRequest, UpdateProject, RemoveProject, AddProjectMember,
                RemoveProjectMember, FindProjectThen
  <2> QED BY <1>0, <2>1 DEF ProjVars
<1>3. ASSUME NEW r \in Requests, ProjectStep(r) PROVE ProjectMapped
  BY <1>3, ProjectStepMapped
<1>4. CASE UNCHANGED ProjVars \/ UNCHANGED vars
  BY <1>0, <1>4 DEF ProjVars, vars
<1> QED BY <1>1, <1>2, <1>3, <1>4 DEF Next

\* Organizations implement Membership: look-ups, checks and writes that are
\* awaits apart amount to foundations, admissions and dismissals that are not.
THEOREM OrgsImplement == Spec => OrgsKeepMembership
<1>1. Init => OrgMembership!Init
  BY DEF Init, OrgInit, NoGroup, NoRow, OrgMembership!Init
<1> QED BY <1>1, InitSeat, StepSeat, NextOrgMapped, PTL
        DEF Spec, OrgsKeepMembership, OrgMembership!Spec, OrgMapped

\* Projects implement it too, whether their members are added or invited.
THEOREM ProjectsImplement == Spec => ProjectsKeepMembership
<1>1. Init => ProjectMembership!Init
  BY DEF Init, ProjInit, NoProject, NoRow, ProjectMembership!Init
<1> QED BY <1>1, InitSeat, StepSeat, NextProjectMapped, PTL
        DEF Spec, ProjectsKeepMembership, ProjectMembership!Spec, ProjectMapped

-----------------------------------------------------------------------------
(* Acceptance.                                                             *)


(* What requests have behind them.                                         *)

\* The stages of addMemberByUserId, which only invitations call.
ByIdPcs == {"proj.byId.existing", "proj.byId.insert", "proj.byId.find"}

\* The person whom an invitation admits has been where it admits to.
JoinedIn(row, om, pm) ==
    /\ EverMember(om, row.org, row.email)
    /\ row.proj # None => EverMember(pm, row.proj, row.email)

\* The entity that accept will save is the invitation that it carries out.
CarriesOut(q) == q.copy.org = q.org /\ q.copy.email = q.user /\ q.copy.proj = q.proj

\* What a request in flight has behind it, by the stage and by what it is to
\* return to.
EnteredIn(q, om, pm) ==
    /\ q.pc \in ByIdPcs => q.org \in Orgs /\ EverMember(om, q.org, q.user)
    /\ q.pc = "proj.byId.find" => EverMember(pm, q.proj, q.user)
    /\ q.ret = EnterAndMark => q.pc \in OrgAddPcs /\ CarriesOut(q)
    /\ q.ret = Mark => /\ CarriesOut(q)
                       /\ q.pc \in ByIdPcs \/ (q.pc \in OrgAddPcs /\ q.proj = None)
    /\ q.pc = "inv.save" /\ q.copy.status = "accepted" => JoinedIn(q.copy, om, pm)
    /\ q.pc \in {"resend.org", "resend.proj"} => q.copy.status = "pending"

Entered(q) == EnteredIn(q, orgMember, projMember)
EnteredNext(q) == EnteredIn(q, orgMember', projMember')

\* A membership row that was ever filled has a key.
RowsKeyed ==
    /\ \A o \in Orgs, u \in Users : IsRow(orgMember[o][u]) => EverMember(orgMember, o, u)
    /\ \A p \in Projects, u \in Users : IsRow(projMember[p][u]) => EverMember(projMember, p, u)

InvitesJoined ==
    \A i \in Invites :
        invs[i].status = "accepted" => JoinedIn(invs[i], orgMember, projMember)

JoinInv ==
    /\ SeatInv
    /\ RowsKeyed
    /\ InvitesJoined
    /\ \A r \in Requests : Entered(req[r])

\* Who was a member once, was one for ever.
LEMMA MembersRemembered ==
    ASSUME TypeOK, TablesStep, NEW u \in Users
    PROVE  /\ \A o \in Orgs : EverMember(orgMember, o, u) => EverMember(orgMember', o, u)
           /\ \A p \in Projects : EverMember(projMember, p, u) => EverMember(projMember', p, u)
<1>1. ASSUME NEW row, NEW next, row.id \in Nat, RowStep(row, next), row.id > 0
      PROVE  next.id > 0
  BY <1>1 DEF RowStep
<1>2. ASSUME NEW o \in Orgs, EverMember(orgMember, o, u) PROVE EverMember(orgMember', o, u)
  <2>1. orgMember[o][u].id \in Nat /\ RowStep(orgMember[o][u], orgMember'[o][u])
    BY DEF TypeOK, OrgsTyped, Row, TablesStep, OrgTablesStep
  <2> QED BY <1>1, <1>2, <2>1 DEF EverMember
<1>3. ASSUME NEW p \in Projects, EverMember(projMember, p, u)
      PROVE  EverMember(projMember', p, u)
  <2>1. projMember[p][u].id \in Nat /\ RowStep(projMember[p][u], projMember'[p][u])
    BY DEF TypeOK, ProjectsTyped, Row, TablesStep, ProjectTablesStep
  <2> QED BY <1>1, <1>3, <2>1 DEF EverMember
<1> QED BY <1>2, <1>3

\* So rows keep their keys...
LEMMA KeysSurvive ==
    ASSUME TypeOK, TablesStep, RowsKeyed
    PROVE  RowsKeyed'
<1>1. ASSUME NEW row, NEW next, row.id \in Nat, RowStep(row, next), IsRow(row) => row.id > 0
      PROVE  IsRow(next) => next.id > 0
  BY <1>1 DEF RowStep, IsRow
<1>2. ASSUME NEW o \in Orgs, NEW u \in Users
      PROVE  IsRow(orgMember'[o][u]) => orgMember'[o][u].id > 0
  <2>1. orgMember[o][u].id \in Nat /\ RowStep(orgMember[o][u], orgMember'[o][u])
    BY DEF TypeOK, OrgsTyped, Row, TablesStep, OrgTablesStep
  <2>2. IsRow(orgMember[o][u]) => orgMember[o][u].id > 0
    BY DEF RowsKeyed, EverMember
  <2> QED BY <1>1, <2>1, <2>2
<1>3. ASSUME NEW p \in Projects, NEW u \in Users
      PROVE  IsRow(projMember'[p][u]) => projMember'[p][u].id > 0
  <2>1. projMember[p][u].id \in Nat /\ RowStep(projMember[p][u], projMember'[p][u])
    BY DEF TypeOK, ProjectsTyped, Row, TablesStep, ProjectTablesStep
  <2>2. IsRow(projMember[p][u]) => projMember[p][u].id > 0
    BY DEF RowsKeyed, EverMember
  <2> QED BY <1>1, <2>1, <2>2
<1> QED BY <1>2, <1>3 DEF RowsKeyed, EverMember, IsRow

\* ...the invitees of accepted invitations have been members...
LEMMA JoinedSurvives ==
    ASSUME TypeOK, TablesStep, NEW row \in InviteRow, JoinedIn(row, orgMember, projMember)
    PROVE  JoinedIn(row, orgMember', projMember')
<1>1. row.org \in Orgs /\ row.email \in Users /\ row.proj \in Projects \cup {None}
  BY DEF InviteRow, InviteColumns
<1> QED BY <1>1, MembersRemembered DEF JoinedIn

\* ...and so have the people whom requests are about to let in further.
LEMMA EnteredSurvives ==
    ASSUME TypeOK, TablesStep, NEW q \in Request, Prepared(q), Entered(q)
    PROVE  EnteredNext(q)
<1>1. q.pc \in ByIdPcs => q.user \in Users /\ q.proj \in Projects
  BY DEF Prepared, ByIdPcs, ProjectPcs, ProjectAddPcs
<1>2. q.pc \in ByIdPcs => q.org \in Orgs /\ EverMember(orgMember', q.org, q.user)
  BY <1>1, MembersRemembered DEF Entered, EnteredIn
<1>3. q.pc = "proj.byId.find" => EverMember(projMember', q.proj, q.user)
  BY <1>1, MembersRemembered DEF Entered, EnteredIn, ByIdPcs
<1>4. q.pc = "inv.save" /\ q.copy.status = "accepted" =>
          JoinedIn(q.copy, orgMember', projMember')
  BY JoinedSurvives DEF Prepared, Entered, EnteredIn
<1> QED BY <1>2, <1>3, <1>4 DEF Entered, EnteredNext, EnteredIn

\* A step of the request in slot r leaves the other slots alone, and what is
\* behind r next is true of the next tables.
EntersStep(r) ==
    /\ \A s \in Requests \ {r} : req'[s] = req[s]
    /\ EnteredNext(req'[r])

\* A slot whose next content is known.
LEMMA EntersPut ==
    ASSUME TypeOK, NEW r \in Requests, NEW q, req' = [req EXCEPT ![r] = q], EnteredNext(q)
    PROVE  EntersStep(r)
BY DEF EntersStep, TypeOK, RequestsTyped

\* A request that begins, or ends, has nothing behind it.
LEMMA EntersFresh ==
    ASSUME TypeOK, NEW r \in Requests, NEW q, req' = [req EXCEPT ![r] = q],
           q.ret = <<>>, q.pc \notin ByIdPcs \cup {"inv.save", "resend.org", "resend.proj"}
    PROVE  EntersStep(r)
<1>1. EnteredNext(q)
  BY PlansDiffer DEF EnteredNext, EnteredIn, ByIdPcs
<1> QED BY <1>1, EntersPut

\* A handler may answer at any stage.
LEMMA FinishEnters ==
    ASSUME TypeOK, NEW r \in Requests, Finish(r)
    PROVE  EntersStep(r)
<1>1. Idle.ret = <<>> /\ Idle.pc = "idle"
  BY DEF Idle
<1> QED BY <1>1, EntersFresh DEF Finish, ByIdPcs

\* The stages that a handler passes through without a change of its variables
\* leave behind it what was there; the insertion in between is told apart.
LEMMA MoveEnters ==
    ASSUME TypeOK, NEW r \in Requests, EnteredNext(req[r]), NEW to,
           Moves(req[r].pc, to), Goto(r, to),
           to = "proj.byId.find" => EverMember(projMember', req[r].proj, req[r].user)
    PROVE  EntersStep(r)
<1> DEFINE q == [req[r] EXCEPT !.pc = to]
<1>1. req[r] \in Request
  BY DEF TypeOK, RequestsTyped
<1>2. /\ q.pc = to /\ q.ret = req[r].ret /\ q.copy = req[r].copy /\ q.org = req[r].org
      /\ q.proj = req[r].proj /\ q.user = req[r].user
  BY <1>1 DEF Request
<1>3. /\ to \in ByIdPcs => req[r].pc \in ByIdPcs
      /\ req[r].pc \in ByIdPcs => to \in ByIdPcs
      /\ req[r].pc \in OrgAddPcs => to \in OrgAddPcs
      /\ to \notin {"inv.save", "resend.org", "resend.proj"}
  BY DEF Moves, ByIdPcs, OrgAddPcs
<1>4. req' = [req EXCEPT ![r] = q]
  BY DEF Goto
<1> HIDE DEF q
<1>5. EnteredNext(q)
  BY <1>2, <1>3 DEF EnteredNext, EnteredIn, CarriesOut
<1> QED BY <1>4, <1>5, EntersPut

\* What follows a check.
LEMMA CheckEnters ==
    ASSUME TypeOK, NEW r \in Requests, EnteredNext(req[r]), NEW to, NEW ok,
           Moves(req[r].pc, to), to # "proj.byId.find", Check(r, ok, to)
    PROVE  EntersStep(r)
BY MoveEnters, FinishEnters DEF Check

\* addMember returns when the person is, or was, a member of the organization;
\* addMemberByUserId when the person is, or was, one of the project too.
LEMMA ReturnEnters ==
    ASSUME TypeOK, NEW r \in Requests, EnteredNext(req[r]), Return(r),
           req[r].pc \in OrgAddPcs \cup ByIdPcs, req[r].org \in Orgs,
           EverMember(orgMember', req[r].org, req[r].user),
           req[r].pc \in ByIdPcs => EverMember(projMember', req[r].proj, req[r].user)
    PROVE  EntersStep(r)
<1> DEFINE q == [req[r] EXCEPT !.pc = Head(req[r].ret), !.ret = Tail(req[r].ret)]
<1>0. req[r] \in Request
  BY DEF TypeOK, RequestsTyped
<1>1. CASE req[r].ret = <<>>
  BY <1>1, FinishEnters DEF Return
<1>2. CASE req[r].ret # <<>>
  <2>1. req' = [req EXCEPT ![r] = q]
    BY <1>2 DEF Return
  <2>2. /\ q.pc = Head(req[r].ret) /\ q.ret = Tail(req[r].ret)
        /\ q.copy = req[r].copy /\ q.org = req[r].org
        /\ q.proj = req[r].proj /\ q.user = req[r].user
    BY <1>0 DEF Request
  <2>3. req[r].ret \in {Mark, Enter, EnterAndMark}
    BY <1>0, <1>2 DEF Request, Plans
  <2> HIDE DEF q
  <2>4. CASE req[r].ret = Enter
    <3>1. EnteredNext(q)
      BY <2>2, <2>4, PlanSteps, PlansDiffer DEF EnteredNext, EnteredIn, ByIdPcs
    <3> QED BY <2>1, <3>1, EntersPut
  <2>5. CASE req[r].ret = EnterAndMark
    <3>1. CarriesOut(req[r])
      BY <2>5 DEF EnteredNext, EnteredIn
    <3>2. EnteredNext(q)
      BY <2>2, <2>5, <3>1, PlanSteps, PlansDiffer
         DEF EnteredNext, EnteredIn, ByIdPcs, CarriesOut
    <3> QED BY <2>1, <3>2, EntersPut
  <2>6. CASE req[r].ret = Mark
    <3>1. CarriesOut(req[r]) /\ (req[r].pc \in ByIdPcs \/ req[r].proj = None)
      BY <2>6 DEF EnteredNext, EnteredIn
    <3>2. JoinedIn(q.copy, orgMember', projMember')
      BY <2>2, <3>1 DEF JoinedIn, CarriesOut
    <3>3. EnteredNext(q)
      BY <2>2, <2>6, <3>2, PlanSteps, PlansDiffer DEF EnteredNext, EnteredIn, ByIdPcs
    <3> QED BY <2>1, <3>3, EntersPut
  <2> QED BY <2>3, <2>4, <2>5, <2>6
<1> QED BY <1>1, <1>2

-----------------------------------------------------------------------------
(* Each operation keeps what requests have behind them.                    *)

\* A free slot takes a request that has nothing behind it.
LEMMA BeginEnters ==
    ASSUME TypeOK, NEW r \in Requests, NEW q, Begin(r, q),
           q.ret = <<>>, q.pc \in OrgPcs \cup ProjectPcs \cup InvitePcs \cup AuthorityPcs,
           q.pc \notin ByIdPcs \cup {"resend.org", "resend.proj"}
    PROVE  EntersStep(r)
<1>1. q.pc # "inv.save"
  BY DEF OrgPcs, ProjectPcs, InvitePcs, AuthorityPcs
<1> QED BY <1>1, EntersFresh DEF Begin

\* The first step of an endpoint of organizations or of projects.
LEMMA GroupRequestEnters ==
    ASSUME TypeOK, NEW r \in Requests, OrgRequest(r) \/ ProjectRequest(r)
    PROVE  EntersStep(r)
<1> USE BeginEnters
    DEF FindOrgThen, FindProjectThen, Idle, OrgPcs, ProjectPcs, ByIdPcs
<1>1. ASSUME NEW by \in accounts, NEW o \in Orgs, CreateOrg(r, by, o) PROVE EntersStep(r)
  BY <1>1 DEF CreateOrg
<1>2. ASSUME NEW by \in accounts, NEW o \in Orgs, UpdateOrg(r, by, o) PROVE EntersStep(r)
  BY <1>2 DEF UpdateOrg
<1>3. ASSUME NEW by \in accounts, NEW o \in Orgs, RemoveOrg(r, by, o) PROVE EntersStep(r)
  BY <1>3 DEF RemoveOrg
<1>4. ASSUME NEW by \in accounts, NEW o \in Orgs, NEW u \in accounts, NEW role \in OrgGrants,
             AddOrgMember(r, by, o, u, role)
      PROVE  EntersStep(r)
  BY <1>4 DEF AddOrgMember
<1>5. ASSUME NEW by \in accounts, NEW o \in Orgs, NEW u \in accounts,
             RemoveOrgMember(r, by, o, u)
      PROVE  EntersStep(r)
  BY <1>5 DEF RemoveOrgMember
<1>6. ASSUME NEW by \in accounts, NEW p \in Projects, NEW o \in Orgs \cup {None},
             UpdateProject(r, by, p, o)
      PROVE  EntersStep(r)
  BY <1>6 DEF UpdateProject
<1>7. ASSUME NEW by \in accounts, NEW p \in Projects, RemoveProject(r, by, p)
      PROVE  EntersStep(r)
  BY <1>7 DEF RemoveProject
<1>8. ASSUME NEW by \in accounts, NEW p \in Projects, NEW u \in accounts,
             NEW role \in ProjectGrants, AddProjectMember(r, by, p, u, role)
      PROVE  EntersStep(r)
  BY <1>8 DEF AddProjectMember
<1>9. ASSUME NEW by \in accounts, NEW p \in Projects, NEW u \in accounts,
             RemoveProjectMember(r, by, p, u)
      PROVE  EntersStep(r)
  BY <1>9 DEF RemoveProjectMember
<1> QED BY <1>1, <1>2, <1>3, <1>4, <1>5, <1>6, <1>7, <1>8, <1>9
        DEF OrgRequest, ProjectRequest

\* A removal that has read its row.
LEMMA ReadEnters ==
    ASSUME TypeOK, NEW r \in Requests, NEW pc \in {"org.rm.delete", "proj.rm.delete"},
           NEW id, req' = [req EXCEPT ![r].pc = pc, ![r].row = id],
           req[r].pc \in OrgRmPcs \cup ProjectRmPcs
    PROVE  EntersStep(r)
<1> DEFINE q == [req[r] EXCEPT !.pc = pc, !.row = id]
<1>0. req[r] \in Request /\ Prepared(req[r])
  BY DEF TypeOK, RequestsTyped
<1>1. req[r].ret = <<>>
  BY <1>0 DEF Prepared, OrgAddPcs, OrgRmPcs, ProjectAddPcs, ProjectRmPcs
<1>2. q.pc = pc /\ q.ret = <<>>
  BY <1>0, <1>1 DEF Request
<1>3. req' = [req EXCEPT ![r] = q]
  OBVIOUS
<1> HIDE DEF q
<1> QED BY <1>2, <1>3, EntersFresh DEF ByIdPcs

\* The later steps of OrganizationsService.
LEMMA OrgStepEnters ==
    ASSUME TypeOK, RowsKeyed, NEW r \in Requests, EnteredNext(req[r]), OrgStep(r)
    PROVE  EntersStep(r)
<1>0. req[r] \in Request /\ Prepared(req[r])
  BY DEF TypeOK, RequestsTyped
<1>1. CASE InsertOrg(r) \/ SaveOrg(r) \/ SoftDeleteOrg(r) \/ DeleteOrgMember(r)
  BY <1>1, FinishEnters DEF InsertOrg, SaveOrg, SoftDeleteOrg, DeleteOrgMember
<1>2. CASE FindOrg(r)
  BY <1>2, CheckEnters DEF FindOrg, At, Moves
<1>3. CASE VerifyOrgAdmin(r)
  <2>1. PICK step \in AfterOrgAdmin :
            At(r, step[1]) /\ Check(r, IsOrgAdmin(req[r].org, req[r].by), step[2])
    BY <1>3 DEF VerifyOrgAdmin
  <2>2. Moves(req[r].pc, step[2]) /\ step[2] # "proj.byId.find"
    BY <2>1 DEF AfterOrgAdmin, At, Moves
  <2> QED BY <2>1, <2>2, CheckEnters
<1>4. CASE FindOrgMember(r) \/ InsertOrgMember(r)
  <2>1. /\ req[r].pc \in OrgAddPcs /\ req[r].pc \notin ByIdPcs
        /\ req[r].org \in Orgs /\ req[r].user \in Users
    BY <1>0, <1>4
       DEF FindOrgMember, InsertOrgMember, At, Prepared, OrgPcs, OrgAddPcs, ByIdPcs
  <2>2. CASE Finish(r)
    BY <2>2, FinishEnters
  <2>3. CASE Goto(r, "org.add.insert") /\ FindOrgMember(r)
    BY <2>3, MoveEnters DEF FindOrgMember, At, Moves
  <2>4. ASSUME Return(r), EverMember(orgMember', req[r].org, req[r].user)
        PROVE  EntersStep(r)
    BY <2>1, <2>4, ReturnEnters
  <2>5. CASE FindOrgMember(r) /\ IsRow(orgMember[req[r].org][req[r].user])
    <3>1. Return(r) /\ orgMember' = orgMember
      BY <2>5 DEF FindOrgMember, OrgVars
    <3>2. EverMember(orgMember, req[r].org, req[r].user)
      BY <2>1, <2>5 DEF RowsKeyed
    <3> QED BY <2>4, <3>1, <3>2 DEF EverMember
  <2>6. CASE InsertOrgMember(r) /\ ~IsRow(orgMember[req[r].org][req[r].user])
    <3>1. /\ Return(r)
          /\ orgMember' = [orgMember EXCEPT ![req[r].org][req[r].user] =
                              NewRow(orgMember[req[r].org][req[r].user], req[r].role)]
      BY <2>6 DEF InsertOrgMember
    <3>2. orgMember'[req[r].org][req[r].user].id = orgMember[req[r].org][req[r].user].id + 1
      BY <2>1, <3>1 DEF TypeOK, OrgsTyped, NewRow
    <3>3. orgMember[req[r].org][req[r].user].id \in Nat
      BY <2>1 DEF TypeOK, OrgsTyped, Row
    <3> QED BY <2>4, <3>1, <3>2, <3>3 DEF EverMember
  <2> QED BY <1>4, <2>2, <2>3, <2>5, <2>6 DEF FindOrgMember, InsertOrgMember
<1>5. CASE ReadOrgMember(r)
  BY <1>5, FinishEnters, ReadEnters DEF ReadOrgMember, At, OrgRmPcs
<1> QED BY <1>1, <1>2, <1>3, <1>4, <1>5 DEF OrgStep

\* The later steps of ProjectsService.
LEMMA ProjectStepEnters ==
    ASSUME TypeOK, RowsKeyed, NEW r \in Requests, EnteredNext(req[r]), ProjectStep(r),
           UNCHANGED orgMember
    PROVE  EntersStep(r)
<1>0. req[r] \in Request /\ Prepared(req[r])
  BY DEF TypeOK, RequestsTyped
<1>1. CASE SaveProject(r) \/ SoftDeleteProject(r) \/ DeleteProjectMember(r)
  BY <1>1, FinishEnters DEF SaveProject, SoftDeleteProject, DeleteProjectMember
<1>2. CASE VerifyProjectAdmin(r)
  <2>1. PICK step \in AfterProjectAdmin :
            At(r, step[1]) /\ Check(r, IsProjectAdmin(req[r].proj, req[r].by), step[2])
    BY <1>2 DEF VerifyProjectAdmin
  <2>2. Moves(req[r].pc, step[2]) /\ step[2] # "proj.byId.find"
    BY <2>1 DEF AfterProjectAdmin, At, Moves
  <2> QED BY <2>1, <2>2, CheckEnters
<1>r. ASSUME Return(r), req[r].pc \in ByIdPcs,
             EverMember(projMember', req[r].proj, req[r].user)
      PROVE  EntersStep(r)
  <2>1. req[r].org \in Orgs /\ EverMember(orgMember', req[r].org, req[r].user)
    BY <1>r DEF EnteredNext, EnteredIn
  <2> QED BY <1>r, <2>1, ReturnEnters
<1>3. CASE FindProjectMember(r)
  <2>1. CASE At(r, "proj.add.existing")
    BY <1>3, <2>1, CheckEnters DEF FindProjectMember, At, Moves
  <2>2. CASE At(r, "proj.byId.existing")
    <3>1. CASE Goto(r, "proj.byId.insert")
      BY <2>2, <3>1, MoveEnters DEF At, Moves
    <3>2. CASE Return(r) /\ IsRow(projMember[req[r].proj][req[r].user])
      <4>1. req[r].proj \in Projects /\ req[r].user \in Users
        BY <1>0, <2>2 DEF At, Prepared, ProjectPcs, ProjectAddPcs
      <4>2. EverMember(projMember, req[r].proj, req[r].user)
        BY <3>2, <4>1 DEF RowsKeyed
      <4>3. projMember' = projMember
        BY <1>3 DEF FindProjectMember, ProjVars
      <4> QED BY <1>r, <2>2, <3>2, <4>2, <4>3 DEF At, ByIdPcs, EverMember
    <3> QED BY <1>3, <2>2, <3>1, <3>2 DEF FindProjectMember, At
  <2> QED BY <1>3, <2>1, <2>2 DEF FindProjectMember
<1>4. CASE InsertProjectMember(r)
  <2>1. req[r].proj \in Projects /\ req[r].user \in Users
    BY <1>0, <1>4 DEF InsertProjectMember, At, Prepared, ProjectPcs, ProjectAddPcs
  <2>2. CASE Finish(r)
    BY <2>2, FinishEnters
  <2>3. CASE ~Finish(r)
    <3>1. /\ At(r, "proj.byId.insert") /\ Goto(r, "proj.byId.find")
          /\ projMember' = [projMember EXCEPT ![req[r].proj][req[r].user] =
                              NewRow(projMember[req[r].proj][req[r].user], req[r].projRole)]
      BY <1>4, <2>3 DEF InsertProjectMember, Check
    <3>2. projMember'[req[r].proj][req[r].user].id
              = projMember[req[r].proj][req[r].user].id + 1
      BY <2>1, <3>1 DEF TypeOK, ProjectsTyped, NewRow
    <3>3. projMember[req[r].proj][req[r].user].id \in Nat
      BY <2>1 DEF TypeOK, ProjectsTyped, Row
    <3>4. EverMember(projMember', req[r].proj, req[r].user)
      BY <3>2, <3>3 DEF EverMember
    <3> QED BY <3>1, <3>4, MoveEnters DEF At, Moves
  <2> QED BY <2>2, <2>3
<1>5. CASE FindProjectOfMember(r)
  <2>1. req[r].pc = "proj.byId.find" /\ (Return(r) \/ Finish(r))
    BY <1>5 DEF FindProjectOfMember, At
  <2>2. EverMember(projMember', req[r].proj, req[r].user)
    BY <2>1 DEF EnteredNext, EnteredIn
  <2> QED BY <1>r, <2>1, <2>2, FinishEnters DEF ByIdPcs
<1>6. CASE ReadProjectMember(r)
  BY <1>6, FinishEnters, ReadEnters DEF ReadProjectMember, At, ProjectRmPcs
<1> QED BY <1>1, <1>2, <1>3, <1>4, <1>5, <1>6 DEF ProjectStep

\* The first step of an endpoint of invitations.
LEMMA InvRequestEnters ==
    ASSUME TypeOK, NEW r \in Requests, InvRequest(r)
    PROVE  EntersStep(r)
<1>1. ASSUME NEW u \in accounts, NEW i \in Invites, NEW o \in Orgs, NEW email \in Users,
             NEW role \in OrgGrants, CreateInvitation(r, u, o, email, role, i)
      PROVE  EntersStep(r)
  BY <1>1, BeginEnters DEF CreateInvitation, Idle, InvitePcs, ByIdPcs
<1>2. ASSUME NEW u \in accounts, NEW i \in Invites, NEW p \in Projects, NEW email \in Users,
             NEW role \in ProjectGrants, InviteToProject(r, u, p, email, role, i)
      PROVE  EntersStep(r)
  BY <1>2, BeginEnters DEF InviteToProject, Idle, InvitePcs, ByIdPcs
<1>3. ASSUME NEW u \in accounts, NEW i \in Invites, AcceptInvitation(r, u, i)
      PROVE  EntersStep(r)
  <2>1. invs[i] \in InviteRow
    BY <1>3, RowOfInvitation DEF AcceptInvitation, TypeOK
  <2>2. ASSUME NEW status
        PROVE  LET copy == [invs[i] EXCEPT !.status = status]
               IN  /\ copy.status = status /\ copy.org = invs[i].org
                   /\ copy.email = invs[i].email /\ copy.proj = invs[i].proj
    BY <2>1 DEF InviteRow, InviteColumns
  <2> DEFINE lapsed == [Idle EXCEPT !.pc = "inv.save", !.inv = i,
                                    !.copy = [invs[i] EXCEPT !.status = "expired"]]
             accepted == [Idle EXCEPT !.pc = "org.add.find", !.by = invs[i].by, !.user = u,
                    !.org = invs[i].org, !.role = invs[i].role, !.proj = invs[i].proj,
                    !.projRole = invs[i].projRole, !.inv = i, !.ret = AcceptPlan(invs[i]),
                    !.copy = [invs[i] EXCEPT !.status = "accepted"]]
  <2>3. EnteredNext(lapsed)
    <3>1. lapsed.pc = "inv.save" /\ lapsed.ret = <<>> /\ lapsed.copy.status = "expired"
      BY <2>2 DEF Idle
    <3> HIDE DEF lapsed
    <3> QED BY <3>1, PlansDiffer DEF EnteredNext, EnteredIn, ByIdPcs
  <2>4. invs[i].email = u => EnteredNext(accepted)
    <3>1. /\ accepted.pc = "org.add.find" /\ accepted.ret = AcceptPlan(invs[i])
          /\ accepted.user = u /\ accepted.org = invs[i].org /\ accepted.proj = invs[i].proj
          /\ accepted.copy = [invs[i] EXCEPT !.status = "accepted"]
      BY DEF Idle
    <3> HIDE DEF accepted
    <3>2. invs[i].email = u => CarriesOut(accepted)
      BY <2>2, <3>1 DEF CarriesOut
    <3> QED BY <3>1, <3>2, PlansDiffer
            DEF EnteredNext, EnteredIn, ByIdPcs, OrgAddPcs, AcceptPlan
  <2>5. Begin(r, lapsed) \/ (Begin(r, accepted) /\ invs[i].email = u)
    BY <1>3 DEF AcceptInvitation
  <2> HIDE DEF lapsed, accepted
  <2> QED BY <2>3, <2>4, <2>5, EntersPut DEF Begin
<1>4. ASSUME NEW u \in accounts, NEW i \in Invites, ResendInvitation(r, u, i)
      PROVE  EntersStep(r)
  <2> DEFINE q == [Idle EXCEPT !.pc = "resend.org", !.by = u, !.inv = i, !.copy = invs[i]]
  <2>1. q.pc = "resend.org" /\ q.ret = <<>> /\ q.copy.status = "pending" /\ Begin(r, q)
    BY <1>4 DEF ResendInvitation, Pending, Idle
  <2> HIDE DEF q
  <2>2. EnteredNext(q)
    BY <2>1, PlansDiffer DEF EnteredNext, EnteredIn, ByIdPcs
  <2> QED BY <2>1, <2>2, EntersPut DEF Begin
<1>5. ASSUME NEW u \in accounts, NEW i \in Invites, CancelInvitation(r, u, i)
      PROVE  EntersStep(r)
  BY <1>5, BeginEnters DEF CancelInvitation, Idle, AuthorityPcs, ByIdPcs
<1> QED BY <1>1, <1>2, <1>3, <1>4, <1>5 DEF InvRequest

\* The later steps of InvitationsService.
LEMMA InvStepEnters ==
    ASSUME TypeOK, NEW r \in Requests, EnteredNext(req[r]), InvStep(r)
    PROVE  EntersStep(r)
<1>0. req[r] \in Request /\ Prepared(req[r])
  BY DEF TypeOK, RequestsTyped
<1>1. CASE InsertInvitation(r) \/ SaveInvitation(r)
  BY <1>1, FinishEnters DEF InsertInvitation, SaveInvitation
<1>2. CASE CheckOrgInviter(r)
  BY <1>2, CheckEnters DEF CheckOrgInviter, At, Moves
<1>3. CASE FindOrgOfProject(r)
  <2>1. Moves(req[r].pc, "pinv.user") /\ Moves(req[r].pc, "pinv.admin")
    BY <1>3 DEF FindOrgOfProject, At, Moves
  <2> QED BY <1>3, <2>1, CheckEnters DEF FindOrgOfProject
<1>4. CASE CheckProjectInviter(r)
  BY <1>4, CheckEnters DEF CheckProjectInviter, At, Moves
<1>5. CASE FindPending(r)
  BY <1>5, CheckEnters DEF FindPending, At, Moves
<1>6. CASE LookUpInvitee(r)
  <2> DEFINE q == [req[r] EXCEPT !.pc = "org.add.find", !.inv = None, !.ret = Enter]
  <2>1. CASE Goto(r, "inv.pending")
    BY <1>6, <2>1, MoveEnters DEF LookUpInvitee, At, Moves
  <2>2. CASE req' = [req EXCEPT ![r] = q]
    <3>1. q.pc = "org.add.find" /\ q.ret = Enter
      BY <1>0 DEF Request
    <3> HIDE DEF q
    <3>2. EnteredNext(q)
      BY <3>1, PlansDiffer DEF EnteredNext, EnteredIn, ByIdPcs
    <3> QED BY <2>2, <3>2, EntersPut
  <2> QED BY <1>6, <2>1, <2>2 DEF LookUpInvitee
<1>7. CASE VerifyResend(r) \/ VerifyCancel(r)
  <2>1. PICK written :
            /\ \/ req' = [req EXCEPT ![r].pc = "inv.save", ![r].copy = written]
               \/ Goto(r, "resend.proj") /\ req[r].pc = "resend.org"
               \/ Goto(r, "cancel.proj")
               \/ Finish(r)
            /\ \/ written = Cancelled(req[r].copy)
               \/ /\ written = Renewed(req[r].copy)
                  /\ req[r].pc \in {"resend.org", "resend.proj"}
            /\ req[r].pc \in AuthorityPcs
    BY <1>7 DEF VerifyResend, VerifyCancel, VerifyAuthority, At, Check, AuthorityPcs
  <2>2. req[r].copy \in InviteRow /\ req[r].ret = <<>>
    BY <1>0, <2>1 DEF Prepared, AuthorityPcs, OrgAddPcs, ProjectAddPcs
  <2>3. written.status # "accepted"
    <3>1. CASE written = Cancelled(req[r].copy)
      BY <2>2, <3>1 DEF Cancelled, InviteRow, InviteColumns
    <3>2. CASE /\ written = Renewed(req[r].copy)
               /\ req[r].pc \in {"resend.org", "resend.proj"}
      <4>1. req[r].copy.status = "pending"
        BY <3>2 DEF EnteredNext, EnteredIn
      <4> QED BY <2>2, <3>2, <4>1 DEF Renewed, InviteRow, InviteColumns
    <3> QED BY <2>1, <3>1, <3>2
  <2>4. CASE req' = [req EXCEPT ![r].pc = "inv.save", ![r].copy = written]
    <3> DEFINE q == [req[r] EXCEPT !.pc = "inv.save", !.copy = written]
    <3>1. q.pc = "inv.save" /\ q.copy = written /\ q.ret = <<>>
      BY <1>0, <2>2 DEF Request
    <3>2. req' = [req EXCEPT ![r] = q]
      BY <2>4
    <3> HIDE DEF q
    <3>3. EnteredNext(q)
      BY <2>3, <3>1, PlansDiffer DEF EnteredNext, EnteredIn, ByIdPcs
    <3> QED BY <3>2, <3>3, EntersPut
  <2>5. ASSUME NEW to \in {"resend.proj", "cancel.proj"}, Goto(r, to),
               to = "resend.proj" => req[r].pc = "resend.org"
        PROVE  EntersStep(r)
    <3> DEFINE q == [req[r] EXCEPT !.pc = to]
    <3>1. q.pc = to /\ q.copy = req[r].copy /\ q.ret = <<>>
      BY <1>0, <2>2 DEF Request
    <3>2. req' = [req EXCEPT ![r] = q]
      BY <2>5 DEF Goto
    <3> HIDE DEF q
    <3>3. EnteredNext(q)
      BY <2>5, <3>1, PlansDiffer DEF EnteredNext, EnteredIn, ByIdPcs
    <3> QED BY <3>2, <3>3, EntersPut
  <2> QED BY <2>1, <2>4, <2>5, FinishEnters
<1> QED BY <1>1, <1>2, <1>3, <1>4, <1>5, <1>6, <1>7 DEF InvStep

\* Whose invitation becomes ACCEPTED has been let in.
LEMMA InvitesStayJoined ==
    ASSUME TypeOK, TablesStep, InvitesJoined,
           \/ UNCHANGED invs
           \/ \E r \in Requests :
                 (InsertInvitation(r) \/ SaveInvitation(r)) /\ EnteredNext(req[r])
    PROVE  InvitesJoined'
<1>1. ASSUME NEW i \in Invites, invs'[i] = invs[i], invs[i].status = "accepted"
      PROVE  JoinedIn(invs'[i], orgMember', projMember')
  <2>1. invs[i] \in InviteRow
    BY <1>1, RowOfInvitation DEF TypeOK, InvitesTyped, NoInvite
  <2>2. JoinedIn(invs[i], orgMember, projMember)
    BY <1>1 DEF InvitesJoined
  <2> QED BY <1>1, <2>1, <2>2, JoinedSurvives
<1>2. ASSUME NEW r \in Requests, InsertInvitation(r), NEW i \in Invites
      PROVE  invs'[i] = invs[i] \/ invs'[i].status = "pending"
  BY <1>2 DEF InsertInvitation, TypeOK, InvitesTyped
<1>3. ASSUME NEW r \in Requests, SaveInvitation(r), EnteredNext(req[r]), NEW i \in Invites
      PROVE  \/ invs'[i] = invs[i]
             \/ invs'[i].status = "accepted" => JoinedIn(invs'[i], orgMember', projMember')
  <2>1. \/ invs'[i] = invs[i]
        \/ invs'[i] = req[r].copy /\ req[r].pc = "inv.save"
    BY <1>3 DEF SaveInvitation, At, TypeOK, InvitesTyped
  <2> QED BY <1>3, <2>1 DEF EnteredNext, EnteredIn
<1>4. ASSUME NEW i \in Invites, invs'[i].status = "accepted"
      PROVE  JoinedIn(invs'[i], orgMember', projMember')
  BY <1>1, <1>2, <1>3, <1>4
<1> QED BY <1>4 DEF InvitesJoined, JoinedIn, EverMember

-----------------------------------------------------------------------------
(* The theorems on acceptance.                                             *)

\* Nobody has been anywhere when nothing has been created.
LEMMA InitJoin == Init => JoinInv
<1> SUFFICES ASSUME Init PROVE JoinInv
  OBVIOUS
<1>1. SeatInv
  BY InitSeat
<1>2. RowsKeyed
  BY DEF Init, OrgInit, ProjInit, RowsKeyed, NoRow, IsRow
<1>3. InvitesJoined
  BY DEF Init, InvitesJoined, NoInvite
<1>4. ASSUME NEW r \in Requests PROVE Entered(req[r])
  <2>1. req[r].pc = "idle" /\ req[r].ret = <<>>
    BY DEF Init, Idle
  <2> QED BY <2>1, PlansDiffer DEF Entered, EnteredIn, ByIdPcs
<1> QED BY <1>1, <1>2, <1>3, <1>4 DEF JoinInv

\* The invariant is inductive.
LEMMA StepJoin == JoinInv /\ [Next]_vars => JoinInv'
<1> SUFFICES ASSUME JoinInv, [Next]_vars PROVE JoinInv'
  OBVIOUS
<1>0. /\ TypeOK /\ TablesStep /\ RowsKeyed /\ InvitesJoined
      /\ \A r \in Requests : req[r] \in Request /\ Prepared(req[r])
  BY NextSeat DEF JoinInv, SeatInv, TypeOK, RequestsTyped
<1>1. SeatInv'
  BY StepSeat DEF JoinInv
<1>2. RowsKeyed'
  BY <1>0, KeysSurvive
<1>3. ASSUME NEW r \in Requests PROVE EnteredNext(req[r])
  BY <1>0, EnteredSurvives DEF JoinInv
<1> DEFINE Goal == InvitesJoined' /\ \A r \in Requests : EnteredNext(req'[r])
<1>s. ASSUME NEW r \in Requests, EntersStep(r)
      PROVE  \A s \in Requests : EnteredNext(req'[s])
  BY <1>3, <1>s DEF EntersStep
<1>i. UNCHANGED invs => InvitesJoined'
  BY <1>0, InvitesStayJoined
<1>4. ASSUME NEW r \in Requests, OrgRequest(r) \/ OrgStep(r), UNCHANGED InvVars
      PROVE  Goal
  BY <1>0, <1>3, <1>4, <1>s, <1>i, GroupRequestEnters, OrgStepEnters DEF InvVars
<1>5. ASSUME NEW r \in Requests, ProjectRequest(r) \/ ProjectStep(r),
             UNCHANGED <<OrgVars, InvVars>>
      PROVE  Goal
  BY <1>0, <1>3, <1>5, <1>s, <1>i, GroupRequestEnters, ProjectStepEnters DEF OrgVars, InvVars
<1>6. ASSUME NEW r \in Requests, InvRequest(r) \/ InvStep(r)
      PROVE  Goal
  <2>1. EntersStep(r)
    BY <1>0, <1>3, <1>6, InvRequestEnters, InvStepEnters
  <2>2. UNCHANGED invs \/ InsertInvitation(r) \/ SaveInvitation(r)
    BY <1>6 DEF InvRequest, CreateInvitation, InviteToProject, AcceptInvitation,
                ResendInvitation, CancelInvitation, InvStep, CheckOrgInviter,
                FindOrgOfProject, CheckProjectInviter, LookUpInvitee, FindPending,
                VerifyResend, VerifyCancel, InvVars
  <2>3. InvitesJoined'
    BY <1>0, <1>3, <2>2, InvitesStayJoined
  <2> QED BY <1>s, <2>1, <2>3
<1>7. ASSUME UNCHANGED <<req, invs>> PROVE Goal
  BY <1>3, <1>7, <1>i
<1>8. Goal
  <2>1. CASE UNCHANGED vars
    BY <1>7, <2>1 DEF vars, InvVars
  <2>2. ASSUME NEW u \in Users, Register(u), UNCHANGED InvVars PROVE Goal
    BY <1>7, <2>2 DEF Register, InvVars
  <2>3. ASSUME NEW u \in accounts, NEW p \in Projects, NEW o \in Orgs \cup {None},
               CreateProject(u, p, o), UNCHANGED InvVars
        PROVE  Goal
    BY <1>7, <2>3 DEF CreateProject, InvVars
  <2>4. CASE Tick
    BY <1>7, <2>4 DEF Tick
  <2> HIDE DEF Goal
  <2> QED BY <1>4, <1>5, <1>6, <2>1, <2>2, <2>3, <2>4 DEF Next
<1>9. \A r \in Requests : Entered(req[r])'
  BY <1>8 DEF Entered, EnteredNext, EnteredIn, JoinedIn, EverMember, CarriesOut
<1> QED BY <1>1, <1>2, <1>8, <1>9 DEF JoinInv

\* ACCEPTED is never recorded for somebody who was not let in, into the
\* organization and, if the invitation is to one, into the project, however the
\* requests in flight interleave and whichever of their steps fail.
THEOREM Accepted == Spec => []AcceptedMeansJoined
<1>1. JoinInv => AcceptedMeansJoined
  BY DEF JoinInv, InvitesJoined, JoinedIn, AcceptedMeansJoined
<1> QED BY InitJoin, StepJoin, <1>1, PTL DEF Spec

\* Nobody reaches addMemberByUserId of a project without having been a member of
\* the organization that the invitation, or the inviter, named.
THEOREM OrgFirst == Spec => []OrgBeforeProject
<1>1. JoinInv => OrgBeforeProject
  BY DEF JoinInv, Entered, EnteredIn, ByIdPcs, OrgBeforeProject
<1> QED BY InitJoin, StepJoin, <1>1, PTL DEF Spec

-----------------------------------------------------------------------------
(* What is decided stays decided.                                          *)

\* After a step the slots are about the invitations that they were about, or
\* about none.
KeepInvites == \A r \in Requests : req'[r].inv \in {req[r].inv, None}

\* A handler that goes on does not take up another invitation.
LEMMA SlotKeepsInvites ==
    ASSUME TypeOK, NEW r \in Requests,
           \/ Finish(r)
           \/ Return(r)
           \/ \E pc : Goto(r, pc)
           \/ \E pc, row : req' = [req EXCEPT ![r].pc = pc, ![r].row = row]
           \/ \E pc, copy : req' = [req EXCEPT ![r].pc = pc, ![r].copy = copy]
           \/ \E pc, ret : req' = [req EXCEPT ![r].pc = pc, ![r].inv = None, ![r].ret = ret]
    PROVE  KeepInvites
<1>0. req \in [Requests -> Request] /\ req[r] \in Request
  BY DEF TypeOK, RequestsTyped
<1>p. ASSUME NEW q, req' = [req EXCEPT ![r] = q], q.inv = req[r].inv \/ q.inv = None
      PROVE  KeepInvites
  BY <1>0, <1>p DEF KeepInvites
<1>1. CASE Finish(r)
  BY <1>p, <1>1 DEF Finish, Idle
<1>2. ASSUME NEW pc, Goto(r, pc) PROVE KeepInvites
  <2> DEFINE q == [req[r] EXCEPT !.pc = pc]
  <2>1. q.inv = req[r].inv
    BY <1>0 DEF Request
  <2>2. req' = [req EXCEPT ![r] = q]
    BY <1>2 DEF Goto
  <2> QED BY <1>p, <2>1, <2>2
<1>3. CASE Return(r)
  <2> DEFINE q == [req[r] EXCEPT !.pc = Head(req[r].ret), !.ret = Tail(req[r].ret)]
  <2>1. q.inv = req[r].inv
    BY <1>0 DEF Request
  <2>2. Finish(r) \/ req' = [req EXCEPT ![r] = q]
    BY <1>3 DEF Return
  <2> QED BY <1>p, <1>1, <2>1, <2>2
<1>4. ASSUME NEW pc, NEW row, req' = [req EXCEPT ![r].pc = pc, ![r].row = row]
      PROVE  KeepInvites
  <2> DEFINE q == [req[r] EXCEPT !.pc = pc, !.row = row]
  <2>1. q.inv = req[r].inv
    BY <1>0 DEF Request
  <2>2. req' = [req EXCEPT ![r] = q]
    BY <1>0, <1>4
  <2> QED BY <1>p, <2>1, <2>2
<1>5. ASSUME NEW pc, NEW copy, req' = [req EXCEPT ![r].pc = pc, ![r].copy = copy]
      PROVE  KeepInvites
  <2> DEFINE q == [req[r] EXCEPT !.pc = pc, !.copy = copy]
  <2>1. q.inv = req[r].inv
    BY <1>0 DEF Request
  <2>2. req' = [req EXCEPT ![r] = q]
    BY <1>0, <1>5
  <2> QED BY <1>p, <2>1, <2>2
<1>6. ASSUME NEW pc, NEW ret,
             req' = [req EXCEPT ![r].pc = pc, ![r].inv = None, ![r].ret = ret]
      PROVE  KeepInvites
  <2> DEFINE q == [req[r] EXCEPT !.pc = pc, !.inv = None, !.ret = ret]
  <2>1. q.inv = None
    BY <1>0 DEF Request
  <2>2. req' = [req EXCEPT ![r] = q]
    BY <1>0, <1>6
  <2> QED BY <1>p, <2>1, <2>2
<1> QED BY <1>1, <1>2, <1>3, <1>4, <1>5, <1>6

\* Only the endpoints of invitations take up an invitation.
LEMMA OthersKeepInvites ==
    ASSUME TypeOK, NEW r \in Requests,
           OrgRequest(r) \/ ProjectRequest(r) \/ OrgStep(r) \/ ProjectStep(r) \/ InvStep(r)
    PROVE  KeepInvites
<1>0. req \in [Requests -> Request]
  BY DEF TypeOK, RequestsTyped
<1>b. ASSUME NEW q, Begin(r, q), q.inv = None PROVE KeepInvites
  BY <1>0, <1>b DEF Begin, KeepInvites
<1>1. CASE OrgRequest(r)
  <2>1. ASSUME NEW by, NEW o, CreateOrg(r, by, o) \/ UpdateOrg(r, by, o) \/ RemoveOrg(r, by, o)
        PROVE  KeepInvites
    BY <1>b, <2>1 DEF CreateOrg, UpdateOrg, RemoveOrg, FindOrgThen, Idle
  <2>2. ASSUME NEW by, NEW o, NEW u, NEW role, AddOrgMember(r, by, o, u, role)
        PROVE  KeepInvites
    BY <1>b, <2>2 DEF AddOrgMember, FindOrgThen, Idle
  <2>3. ASSUME NEW by, NEW o, NEW u, RemoveOrgMember(r, by, o, u)
        PROVE  KeepInvites
    BY <1>b, <2>3 DEF RemoveOrgMember, FindOrgThen, Idle
  <2> QED BY <1>1, <2>1, <2>2, <2>3 DEF OrgRequest
<1>2. CASE ProjectRequest(r)
  <2>1. ASSUME NEW by, NEW p, NEW o, UpdateProject(r, by, p, o)
        PROVE  KeepInvites
    BY <1>b, <2>1 DEF UpdateProject, FindProjectThen, Idle
  <2>2. ASSUME NEW by, NEW p, RemoveProject(r, by, p)
        PROVE  KeepInvites
    BY <1>b, <2>2 DEF RemoveProject, FindProjectThen, Idle
  <2>3. ASSUME NEW by, NEW p, NEW u, NEW role, AddProjectMember(r, by, p, u, role)
        PROVE  KeepInvites
    BY <1>b, <2>3 DEF AddProjectMember, FindProjectThen, Idle
  <2>4. ASSUME NEW by, NEW p, NEW u, RemoveProjectMember(r, by, p, u)
        PROVE  KeepInvites
    BY <1>b, <2>4 DEF RemoveProjectMember, FindProjectThen, Idle
  <2> QED BY <1>2, <2>1, <2>2, <2>3, <2>4 DEF ProjectRequest
<1> USE SlotKeepsInvites DEF Check
<1>3. CASE OrgStep(r)
  BY <1>3 DEF OrgStep, InsertOrg, FindOrg, VerifyOrgAdmin, SaveOrg, SoftDeleteOrg,
     FindOrgMember, InsertOrgMember, ReadOrgMember, DeleteOrgMember
<1>4. CASE ProjectStep(r)
  BY <1>4 DEF ProjectStep, VerifyProjectAdmin, SaveProject, SoftDeleteProject,
     FindProjectMember, InsertProjectMember, FindProjectOfMember, ReadProjectMember,
     DeleteProjectMember
<1>5. CASE InvStep(r)
  BY <1>5 DEF InvStep, CheckOrgInviter, FindOrgOfProject, CheckProjectInviter,
     LookUpInvitee, FindPending, InsertInvitation, VerifyResend, VerifyCancel,
     VerifyAuthority, SaveInvitation
<1> QED BY <1>1, <1>2, <1>3, <1>4, <1>5

\* A step leaves a decided invitation that no request in flight is about as it
\* is, and a request that takes it up reads the decision.
LEMMA DecisionRead ==
    ASSUME TypeOK, [Next]_vars, NEW i \in Invites,
           invs[i].status \in Statuses \ {"pending"}, ~InFlight(i)
    PROVE  /\ invs'[i] = invs[i]
           /\ \A r \in Requests : req'[r].inv = i => req'[r].copy = invs[i]
<1>0. /\ req \in [Requests -> Request] /\ i # None /\ invs[i] # NoInvite /\ ~Pending(i)
      /\ \A r \in Requests : req[r].inv # i
  BY InvitationConstants DEF TypeOK, RequestsTyped, InFlight, Statuses, NoInvite, Pending
<1>1. ASSUME KeepInvites PROVE \A r \in Requests : req'[r].inv # i
  BY <1>0, <1>1 DEF KeepInvites
<1>2. ASSUME UNCHANGED req PROVE \A r \in Requests : req'[r].inv # i
  BY <1>0, <1>2
<1>3. ASSUME NEW r \in Requests,
             OrgRequest(r) \/ OrgStep(r) \/ ProjectRequest(r) \/ ProjectStep(r),
             UNCHANGED InvVars
      PROVE  invs'[i] = invs[i] /\ \A s \in Requests : req'[s].inv # i
  BY <1>1, <1>3, OthersKeepInvites DEF InvVars
<1>4. ASSUME NEW r \in Requests, InvStep(r)
      PROVE  invs'[i] = invs[i] /\ \A s \in Requests : req'[s].inv # i
  <2>1. req[r].inv # i
    BY <1>0
  <2>2. invs'[i] = invs[i]
    BY <1>4, <2>1 DEF InvStep, CheckOrgInviter, FindOrgOfProject, CheckProjectInviter,
       LookUpInvitee, FindPending, InsertInvitation, VerifyResend, VerifyCancel,
       SaveInvitation, InvVars, TypeOK, InvitesTyped
  <2> QED BY <1>1, <1>4, <2>2, OthersKeepInvites
<1>5. ASSUME NEW r \in Requests, InvRequest(r)
      PROVE  /\ invs'[i] = invs[i]
             /\ \A s \in Requests : req'[s].inv = i => req'[s].copy = invs[i]
  <2>1. ASSUME NEW q, Begin(r, q), q.inv = i => q.copy = invs[i]
        PROVE  \A s \in Requests : req'[s].inv = i => req'[s].copy = invs[i]
    BY <1>0, <2>1 DEF Begin
  <2>2. ASSUME NEW u \in accounts, NEW k \in Invites, NEW o \in Orgs, NEW email \in Users,
               NEW role \in OrgGrants, CreateInvitation(r, u, o, email, role, k)
        PROVE  \A s \in Requests : req'[s].inv = i => req'[s].copy = invs[i]
    <3>1. k # i
      BY <1>0, <2>2 DEF CreateInvitation, FreshId
    <3> QED BY <2>1, <2>2, <3>1 DEF CreateInvitation, Idle
  <2>3. ASSUME NEW u \in accounts, NEW k \in Invites, NEW p \in Projects, NEW email \in Users,
               NEW role \in ProjectGrants, InviteToProject(r, u, p, email, role, k)
        PROVE  \A s \in Requests : req'[s].inv = i => req'[s].copy = invs[i]
    <3>1. k # i
      BY <1>0, <2>3 DEF InviteToProject, FreshId
    <3> QED BY <2>1, <2>3, <3>1 DEF InviteToProject, Idle
  <2>4. ASSUME NEW u \in accounts, NEW k \in Invites, AcceptInvitation(r, u, k)
        PROVE  \A s \in Requests : req'[s].inv = i => req'[s].copy = invs[i]
    <3>1. k # i
      BY <1>0, <2>4 DEF AcceptInvitation
    <3> QED BY <2>1, <2>4, <3>1 DEF AcceptInvitation, Idle
  <2>5. ASSUME NEW u \in accounts, NEW k \in Invites,
               ResendInvitation(r, u, k) \/ CancelInvitation(r, u, k)
        PROVE  \A s \in Requests : req'[s].inv = i => req'[s].copy = invs[i]
    BY <2>1, <2>5 DEF ResendInvitation, CancelInvitation, Idle
  <2>6. UNCHANGED invs
    BY <1>5 DEF InvRequest, CreateInvitation, InviteToProject, AcceptInvitation,
                ResendInvitation, CancelInvitation, InvVars
  <2> QED BY <1>5, <2>2, <2>3, <2>4, <2>5, <2>6 DEF InvRequest
<1>6. CASE UNCHANGED <<req, invs>>
  BY <1>2, <1>6
<1>7. ASSUME NEW u \in Users, Register(u), UNCHANGED InvVars PROVE UNCHANGED <<req, invs>>
  BY <1>7 DEF Register, InvVars
<1>8. ASSUME NEW u \in accounts, NEW p \in Projects, NEW o \in Orgs \cup {None},
             CreateProject(u, p, o), UNCHANGED InvVars
      PROVE  UNCHANGED <<req, invs>>
  BY <1>8 DEF CreateProject, InvVars
<1>9. Tick \/ UNCHANGED vars => UNCHANGED <<req, invs>>
  BY DEF Tick, vars, InvVars
<1> QED BY <1>3, <1>4, <1>5, <1>6, <1>7, <1>8, <1>9 DEF Next

\* An invitation that was accepted, refused by its date or cancelled, and that
\* nobody is busy with, does not become pending again, and whoever takes it up
\* later reads that it is decided.
THEOREM DecisionsStand == Spec => SettledStaysSettled
<1>1. TypeOK /\ [Next]_vars =>
        [ \A i \in Invites :
            invs[i].status \in Statuses \ {"pending"} /\ ~InFlight(i) =>
                /\ invs'[i].status \in Statuses \ {"pending"}
                /\ \A r \in Requests :
                      req'[r].inv = i => req'[r].copy.status # "pending" ]_vars
  <2> SUFFICES ASSUME TypeOK, [Next]_vars, NEW i \in Invites,
                      invs[i].status \in Statuses \ {"pending"}, ~InFlight(i)
               PROVE  /\ invs'[i].status \in Statuses \ {"pending"}
                      /\ \A r \in Requests :
                            req'[r].inv = i => req'[r].copy.status # "pending"
    OBVIOUS
  <2> QED BY DecisionRead DEF Statuses
<1> QED BY InitTyped, StepTyped, <1>1, PTL DEF Spec, SettledStaysSettled
=============================================================================

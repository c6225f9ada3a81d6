---------------------------- MODULE Organizations ----------------------------
(***************************************************************************)
(* Organizations and their members: OrganizationsService and the two       *)
(* tables it keeps, `organizations' (soft-deleted) and                     *)
(* `organization_members' (hard-deleted, unique on organization and user). *)
(*                                                                         *)
(* Every step is one database call.  An organization is identified with    *)
(* its slug, which is unique over live and soft-deleted rows alike; a      *)
(* rename is an update that the model does not tell from another one.      *)
(***************************************************************************)
EXTENDS Requests

CONSTANTS
    Users,      \* people, each with one e-mail address
    Orgs,       \* organizations, by slug
    OrgGrants,  \* bound: the roles that requests give in an organization
    MaxRow      \* bound: the insertion of a row after which none is removed

OrgRoles == {"owner", "admin", "member"}

ASSUME OrgConstants ==
    /\ MaxRow \in Nat
    /\ OrgGrants \subseteq OrgRoles
    /\ None \notin Users \cup Orgs

VARIABLES
    accounts,   \* the people who have registered
    orgs,       \* orgs[o] : the row of organization o, NoGroup before its creation
    orgMember   \* orgMember[o][u] : the row of u in o

\* A group's row; `live' is deletedAt IS NULL.
NoGroup == [owner |-> None, live |-> FALSE]

\* A membership row.  `id' stands for the primary key: it grows with each
\* insertion, so that a key that was read can be told from a later row's.
NoRow == [id |-> 0, role |-> "none"]

IsRow(row) == row.role # "none"
IsAdminRow(row) == row.role \in {"owner", "admin"}

\* INSERT: the caller has checked that there is no row to collide with.
NewRow(row, role) == [id |-> row.id + 1, role |-> role]

\* Mutant: DELETE by organization and user.
DropRow_ByUser(row, id) == [row EXCEPT !.role = "none"]

\* DELETE by primary key: no effect when that row is gone.
DropRow(row, id) == IF row.id = id THEN [row EXCEPT !.role = "none"] ELSE row

OrgVars == <<accounts, orgs, orgMember>>

OrgInit ==
    /\ accounts = {}
    /\ orgs = [o \in Orgs |-> NoGroup]
    /\ orgMember = [o \in Orgs |-> [u \in Users |-> NoRow]]

-----------------------------------------------------------------------------
\* A person registers; nothing of an account but its existence matters here.
Register(u) ==
    /\ u \notin accounts
    /\ accounts' = accounts \cup {u}
    /\ UNCHANGED <<orgs, orgMember, req>>

\* create: the slug is looked up among the live organizations...
CreateOrg(r, u, o) ==
    /\ At(r, "idle")
    /\ ~orgs[o].live
    /\ Begin(r, [Idle EXCEPT !.pc = "org.create", !.by = u, !.org = o])
    /\ UNCHANGED OrgVars

\* ...and the organization and its owner's row are inserted in a transaction,
\* which the unique index on slug aborts if any row has that slug by now.
InsertOrg(r) ==
    LET o == req[r].org
        u == req[r].by
    IN  /\ At(r, "org.create")
        /\ Finish(r)
        /\ IF orgs[o] = NoGroup
           THEN /\ orgs' = [orgs EXCEPT ![o] = [owner |-> u, live |-> TRUE]]
                /\ orgMember' = [orgMember EXCEPT ![o][u] = NewRow(@, "owner")]
           ELSE UNCHANGED <<orgs, orgMember>>
        /\ UNCHANGED accounts

\* update, remove, addMember and removeMember of the controller: findById
\* finds live rows only.
FindOrgThen(r, o, request) ==
    /\ At(r, "idle")
    /\ orgs[o].live
    /\ Begin(r, request)
    /\ UNCHANGED OrgVars

UpdateOrg(r, by, o) ==
    FindOrgThen(r, o, [Idle EXCEPT !.pc = "org.update.admin", !.by = by, !.org = o])

RemoveOrg(r, by, o) ==
    /\ orgs[o].owner = by
    /\ FindOrgThen(r, o, [Idle EXCEPT !.pc = "org.delete", !.by = by, !.org = o])

AddOrgMember(r, by, o, u, role) ==
    /\ FindOrgThen(r, o, [Idle EXCEPT !.pc = "org.add.admin", !.by = by,
                                      !.org = o, !.user = u, !.role = role])

RemoveOrgMember(r, by, o, u) ==
    /\ orgMember[o][u].id < MaxRow
    /\ FindOrgThen(r, o, [Idle EXCEPT !.pc = "org.rm.admin", !.by = by,
                                      !.org = o, !.user = u])

\* findById inside addMember when another service calls it.
FindOrg(r) ==
    /\ At(r, "org.add.find")
    /\ Check(r, orgs[req[r].org].live, "org.add.admin")
    /\ UNCHANGED OrgVars

IsOrgAdmin(o, u) == IsAdminRow(orgMember[o][u])

\* verifyAdminAccess, and what each of its callers awaits next.
AfterOrgAdmin ==
    { <<"org.update.admin", "org.update.save">>,
      <<"org.add.admin", "org.add.existing">>,
      <<"org.rm.admin", "org.rm.row">> }

VerifyOrgAdmin(r) ==
    /\ \E step \in AfterOrgAdmin :
          /\ At(r, step[1])
          /\ Check(r, IsOrgAdmin(req[r].org, req[r].by), step[2])
    /\ UNCHANGED OrgVars

\* update saves the entity it read while the organization was live: TypeORM
\* writes every column that differs, deletedAt included.
SaveOrg(r) ==
    /\ At(r, "org.update.save")
    /\ orgs' = [orgs EXCEPT ![req[r].org].live = TRUE]
    /\ Finish(r)
    /\ UNCHANGED <<accounts, orgMember>>

SoftDeleteOrg(r) ==
    /\ At(r, "org.delete")
    /\ orgs' = [orgs EXCEPT ![req[r].org].live = FALSE]
    /\ Finish(r)
    /\ UNCHANGED <<accounts, orgMember>>

\* addMember: the look-up for an existing row throws ConflictException...
FindOrgMember(r) ==
    /\ At(r, "org.add.existing")
    /\ IF IsRow(orgMember[req[r].org][req[r].user])
       THEN Return(r)
       ELSE Goto(r, "org.add.insert")
    /\ UNCHANGED OrgVars

\* Mutant: the insertion overwrites the row it collides with.
InsertOrgMember_Upsert(r) ==
    LET o == req[r].org
        u == req[r].user
    IN  /\ At(r, "org.add.insert")
        /\ orgMember' = [orgMember EXCEPT ![o][u] = NewRow(@, req[r].role)]
        /\ Return(r)
        /\ UNCHANGED <<accounts, orgs>>

\* ...but a row inserted since the look-up makes the insertion fail with a
\* unique violation, which no caller takes for a ConflictException.
InsertOrgMember(r) ==
    LET o == req[r].org
        u == req[r].user
    IN  /\ At(r, "org.add.insert")
        /\ IF IsRow(orgMember[o][u])
           THEN Finish(r) /\ UNCHANGED orgMember
           ELSE /\ orgMember' = [orgMember EXCEPT ![o][u] = NewRow(@, req[r].role)]
                /\ Return(r)
        /\ UNCHANGED <<accounts, orgs>>

\* Mutant: the owner's row is like any other.
ReadOrgMember_AnyRole(r) ==
    LET row == orgMember[req[r].org][req[r].user]
    IN  /\ At(r, "org.rm.row")
        /\ IF IsRow(row)
           THEN req' = [req EXCEPT ![r].pc = "org.rm.delete", ![r].row = row.id]
           ELSE Finish(r)
        /\ UNCHANGED OrgVars

\* removeMember reads the row, refuses the owner's...
ReadOrgMember(r) ==
    LET row == orgMember[req[r].org][req[r].user]
    IN  /\ At(r, "org.rm.row")
        /\ IF IsRow(row) /\ row.role # "owner"
           THEN req' = [req EXCEPT ![r].pc = "org.rm.delete", ![r].row = row.id]
           ELSE Finish(r)
        /\ UNCHANGED OrgVars

\* ...and deletes by the primary key it read.
DeleteOrgMember(r) ==
    /\ At(r, "org.rm.delete")
    /\ orgMember' = [orgMember EXCEPT
                        ![req[r].org][req[r].user] = DropRow(@, req[r].row)]
    /\ Finish(r)
    /\ UNCHANGED <<accounts, orgs>>

OrgRequest(r) ==
    \E by \in accounts, o \in Orgs :
        \/ "createOrg" \in Endpoints /\ CreateOrg(r, by, o)
        \/ "updateOrg" \in Endpoints /\ UpdateOrg(r, by, o)
        \/ "removeOrg" \in Endpoints /\ RemoveOrg(r, by, o)
        \/ \E u \in accounts, role \in OrgGrants :
              "addOrgMember" \in Endpoints /\ AddOrgMember(r, by, o, u, role)
        \/ \E u \in accounts :
              "removeOrgMember" \in Endpoints /\ RemoveOrgMember(r, by, o, u)

OrgStep(r) ==
    \/ InsertOrg(r)
    \/ FindOrg(r)
    \/ VerifyOrgAdmin(r)
    \/ SaveOrg(r)
    \/ SoftDeleteOrg(r)
    \/ FindOrgMember(r)
    \/ InsertOrgMember(r)
    \/ ReadOrgMember(r)
    \/ DeleteOrgMember(r)
=============================================================================

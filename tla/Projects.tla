------------------------------- MODULE Projects -------------------------------
(***************************************************************************)
(* Projects and their members: ProjectsService and its tables `projects'   *)
(* (soft-deleted) and `project_members' (hard-deleted, unique on project   *)
(* and user).  The project tree (parentId) is not part of this module.     *)
(***************************************************************************)
EXTENDS Organizations

CONSTANTS
    Projects,       \* projects, by id
    ProjectGrants   \* bound: the roles that requests give in a project

ProjectRoles == OrgRoles \cup {"viewer"}

ASSUME ProjectConstants ==
    ProjectGrants \subseteq ProjectRoles /\ None \notin Projects \cup ProjectRoles

VARIABLES
    projects,   \* projects[p] : the row of p; `org' is None for a personal one
    projMember  \* projMember[p][u] : the row of u in p

NoProject == [owner |-> None, org |-> None, live |-> FALSE]

ProjVars == <<projects, projMember>>

ProjInit ==
    /\ projects = [p \in Projects |-> NoProject]
    /\ projMember = [p \in Projects |-> [u \in Users |-> NoRow]]

-----------------------------------------------------------------------------
\* Mutant: the transaction leaves the owner's row to a later call.
CreateProject_NoMember(u, p, o) ==
    /\ projects[p] = NoProject
    /\ projects' = [projects EXCEPT ![p] = [owner |-> u, org |-> o, live |-> TRUE]]
    /\ UNCHANGED <<projMember, req>>

\* create: project and owner's row in one transaction.  The organization of
\* the request is taken as it is: it may be deleted, u need not be a member.
CreateProject(u, p, o) ==
    /\ projects[p] = NoProject
    /\ projects' = [projects EXCEPT ![p] = [owner |-> u, org |-> o, live |-> TRUE]]
    /\ projMember' = [projMember EXCEPT ![p][u] = NewRow(@, "owner")]
    /\ UNCHANGED req

\* The methods that start with a look-up among the live projects.
FindProjectThen(r, p, request) ==
    /\ At(r, "idle")
    /\ projects[p].live
    /\ Begin(r, request)
    /\ UNCHANGED ProjVars

\* `org' is what the save will write: the request's organizationId or, when it
\* has none, the one that was read.
UpdateProject(r, by, p, o) ==
    FindProjectThen(r, p, [Idle EXCEPT !.pc = "proj.update.admin", !.by = by,
                                       !.proj = p, !.org = o])

RemoveProject(r, by, p) ==
    /\ projects[p].owner = by
    /\ FindProjectThen(r, p, [Idle EXCEPT !.pc = "proj.delete", !.by = by, !.proj = p])

AddProjectMember(r, by, p, u, role) ==
    /\ FindProjectThen(r, p, [Idle EXCEPT !.pc = "proj.add.admin", !.by = by,
                                !.proj = p, !.user = u, !.projRole = role])

RemoveProjectMember(r, by, p, u) ==
    /\ projMember[p][u].id < MaxRow
    /\ FindProjectThen(r, p, [Idle EXCEPT !.pc = "proj.rm.admin", !.by = by,
                                          !.proj = p, !.user = u])

IsProjectAdmin(p, u) == IsAdminRow(projMember[p][u])

\* verifyAdminAccess, and what each of its callers awaits next.
AfterProjectAdmin ==
    { <<"proj.update.admin", "proj.update.save">>,
      <<"proj.add.admin", "proj.add.existing">>,
      <<"proj.rm.admin", "proj.rm.row">> }

VerifyProjectAdmin(r) ==
    /\ \E step \in AfterProjectAdmin :
          /\ At(r, step[1])
          /\ Check(r, IsProjectAdmin(req[r].proj, req[r].by), step[2])
    /\ UNCHANGED ProjVars

\* The save of update writes back what was read: a row that was live.
SaveProject(r) ==
    /\ At(r, "proj.update.save")
    /\ projects' = [projects EXCEPT ![req[r].proj].org = req[r].org,
                                    ![req[r].proj].live = TRUE]
    /\ Finish(r)
    /\ UNCHANGED projMember

SoftDeleteProject(r) ==
    /\ At(r, "proj.delete")
    /\ projects' = [projects EXCEPT ![req[r].proj].live = FALSE]
    /\ Finish(r)
    /\ UNCHANGED projMember

\* The look-up of addMember and of addMemberByUserId.
FindProjectMember(r) ==
    LET existing == IsRow(projMember[req[r].proj][req[r].user])
    IN  /\ \/ /\ At(r, "proj.add.existing")
              /\ Check(r, ~existing, "proj.add.insert")
           \/ /\ At(r, "proj.byId.existing")
              /\ IF existing THEN Return(r) ELSE Goto(r, "proj.byId.insert")
        /\ UNCHANGED ProjVars

\* addMember answers once the row is in; addMemberByUserId goes on to read the
\* project for the event it emits.  The unique index fails a second row.
InsertProjectMember(r) ==
    LET p == req[r].proj
        u == req[r].user
    IN  /\ At(r, "proj.add.insert") \/ At(r, "proj.byId.insert")
        /\ IF IsRow(projMember[p][u])
           THEN Finish(r) /\ UNCHANGED projMember
           ELSE /\ projMember' = [projMember EXCEPT ![p][u] = NewRow(@, req[r].projRole)]
                /\ Check(r, At(r, "proj.byId.insert"), "proj.byId.find")
        /\ UNCHANGED projects

\* addMemberByUserId after its insertion: with the project deleted meanwhile
\* findById throws, and the row stays.
FindProjectOfMember(r) ==
    /\ At(r, "proj.byId.find")
    /\ IF projects[req[r].proj].live THEN Return(r) ELSE Finish(r)
    /\ UNCHANGED ProjVars

ReadProjectMember(r) ==
    LET row == projMember[req[r].proj][req[r].user]
    IN  /\ At(r, "proj.rm.row")
        /\ IF IsRow(row) /\ row.role # "owner"
           THEN req' = [req EXCEPT ![r].pc = "proj.rm.delete", ![r].row = row.id]
           ELSE Finish(r)
        /\ UNCHANGED ProjVars

DeleteProjectMember(r) ==
    /\ At(r, "proj.rm.delete")
    /\ projMember' = [projMember EXCEPT
                        ![req[r].proj][req[r].user] = DropRow(@, req[r].row)]
    /\ Finish(r)
    /\ UNCHANGED projects

ProjectRequest(r) ==
    \E by \in accounts, p \in Projects :
        \/ \E o \in Orgs \cup {None} :
              "updateProject" \in Endpoints /\ UpdateProject(r, by, p, o)
        \/ "removeProject" \in Endpoints /\ RemoveProject(r, by, p)
        \/ \E u \in accounts, role \in ProjectGrants :
              "addProjectMember" \in Endpoints /\ AddProjectMember(r, by, p, u, role)
        \/ \E u \in accounts :
              "removeProjectMember" \in Endpoints /\ RemoveProjectMember(r, by, p, u)

ProjectStep(r) ==
    \/ VerifyProjectAdmin(r)
    \/ SaveProject(r)
    \/ SoftDeleteProject(r)
    \/ FindProjectMember(r)
    \/ InsertProjectMember(r)
    \/ FindProjectOfMember(r)
    \/ ReadProjectMember(r)
    \/ DeleteProjectMember(r)
=============================================================================

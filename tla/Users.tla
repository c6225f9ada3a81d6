-------------------------------- MODULE Users --------------------------------
(***************************************************************************)
(* The columns of users that administrators and their owners edit: who is  *)
(* a super administrator, who is active or deleted, and whose photo is     *)
(* where.  UsersService, with the photo handlers of UsersController and    *)
(* FileUploadService.                                                      *)
(*                                                                         *)
(* save writes every column of the row that the handler read.  Photos are  *)
(* files numbered in the order of their uploads; 0 is no photo.  The       *)
(* columns of authentication are in module Accounts.                       *)
(***************************************************************************)
EXTENDS Handlers

CONSTANTS
    Staff,      \* users
    Root,       \* the user that the seeder created
    MaxFiles    \* bound: uploads

VARIABLES
    staff,      \* staff[u] : the row of user u
    files       \* files[f] : photo f is on the disk

UserVars == <<calls, staff, files>>

Admin == "super_admin"
RoleLists == {{Admin}, {"user"}, {Admin, "user"}}

NewUser(roles) == [roles |-> roles, active |-> TRUE, live |-> TRUE, photo |-> 0]

UsersInit ==
    /\ staff = [u \in Staff |-> NewUser(IF u = Root THEN {Admin} ELSE {"user"})]
    /\ files = <<>>

WithRole(role) == {u \in Staff : staff[u].live /\ role \in staff[u].roles}

Demotes(u, roles) == Admin \in staff[u].roles /\ Admin \notin roles

\* Save the row now, or count the super administrators first; `ok' is what the
\* handler checks after the count.
Change(r, u, row, ok) ==
    /\ staff[u].live
    /\ ok \/ Demotes(u, row.roles)
    /\ Receive(r, IF Demotes(u, row.roles) THEN "user.count" ELSE "user.save",
               [user |-> u, row |-> row, ok |-> ok])
    /\ UNCHANGED <<staff, files>>

\* Nobody calls addRole and removeRole.
UpdateRole(r, u, role) == Change(r, u, [staff[u] EXCEPT !.roles = {role}], TRUE)

\* Mutant: the last one may be demoted too.
LastAdmin_Off == Cardinality(WithRole(Admin)) < 1

LastAdmin == Cardinality(WithRole(Admin)) <= 1

CountAdmins(r) ==
    /\ Awaits(r, "user.count")
    /\ Demand(r, ~LastAdmin /\ My(r).ok, "user.save")
    /\ UNCHANGED <<staff, files>>

SaveUser(r) ==
    /\ Awaits(r, "user.save")
    /\ staff' = [staff EXCEPT ![My(r).user] = My(r).row]
    /\ Answer(r)
    /\ UNCHANGED files

ToggleActive(r, u, isActive) ==
    /\ isActive \/ Admin \notin staff[u].roles
    /\ Change(r, u, [staff[u] EXCEPT !.active = isActive], TRUE)

\* updateUserAdmin: the roles first, then what they allow of isActive, which is
\* only looked at if the request names it.  The look-up of a new e-mail is one
\* more call before the count.
UpdateUserAdmin(r, u, roles, isActive, email) ==
    LET active == IF isActive = "unnamed" THEN staff[u].active ELSE isActive = "true"
        row == [staff[u] EXCEPT !.roles = roles, !.active = active]
        ok == isActive # "false" \/ Admin \notin roles
    IN  IF email
        THEN /\ staff[u].live
             /\ Receive(r, "user.email", [user |-> u, row |-> row, ok |-> ok,
                                          count |-> Demotes(u, roles)])
             /\ UNCHANGED <<staff, files>>
        ELSE Change(r, u, row, ok)

FindEmail(r) ==
    LET my == My(r)
    IN  /\ Awaits(r, "user.email")
        /\ \/ Answer(r)
           \/ my.count /\ AwaitNext(r, "user.count")
           \/ ~my.count /\ my.ok /\ AwaitNext(r, "user.save")
        /\ UNCHANGED <<staff, files>>

\* updateProfile changes columns that are not modelled here and saves the others
\* as they were read.
UpdateProfile(r, u) == Change(r, u, staff[u], TRUE)

DeleteUser(r, u) ==
    /\ staff[u].live
    /\ u # Root /\ Admin \notin staff[u].roles
    /\ Receive(r, "user.remove", [user |-> u])
    /\ UNCHANGED <<staff, files>>

\* softRemove writes the date of the deletion only.
SoftRemove(r) ==
    /\ Awaits(r, "user.remove")
    /\ staff' = [staff EXCEPT ![My(r).user].live = FALSE]
    /\ Answer(r)
    /\ UNCHANGED files

-----------------------------------------------------------------------------
(* Photos.  The old file is deleted and the new one written in one go,     *)
(* then the user is read again and saved.                                  *)

Without(photo) == [f \in DOMAIN files |-> files[f] /\ f # photo]

UploadPhoto(r, u) ==
    /\ staff[u].live
    /\ Len(files) < MaxFiles
    /\ files' = Append(Without(staff[u].photo), TRUE)
    /\ Receive(r, "photo.find", [user |-> u, photo |-> Len(files) + 1])
    /\ UNCHANGED staff

\* writeFileSync throws.
FailUpload(u) ==
    /\ staff[u].live /\ staff[u].photo # 0
    /\ files' = Without(staff[u].photo)
    /\ AtOnce
    /\ UNCHANGED staff

DeletePhoto(r, u) ==
    /\ staff[u].live
    /\ files' = Without(staff[u].photo)
    /\ Receive(r, "photo.find", [user |-> u, photo |-> 0])
    /\ UNCHANGED staff

\* Mutant: a deletion leaves the address of the photo.
FindForPhoto_Keeps(r) ==
    LET u == My(r).user
        photo == IF My(r).photo = 0 THEN staff[u].photo ELSE My(r).photo
    IN  /\ Awaits(r, "photo.find")
        /\ IF staff[u].live
           THEN Await(r, "user.save", [user |-> u, photo |-> photo,
                                       row |-> [staff[u] EXCEPT !.photo = photo]])
           ELSE Answer(r)
        /\ UNCHANGED <<staff, files>>

FindForPhoto(r) ==
    LET u == My(r).user
    IN  /\ Awaits(r, "photo.find")
        /\ IF staff[u].live
           THEN Await(r, "user.save", [user |-> u, photo |-> My(r).photo,
                                       row |-> [staff[u] EXCEPT !.photo = My(r).photo]])
           ELSE Answer(r)
        /\ UNCHANGED <<staff, files>>

UserCalls(r) ==
    \/ FindEmail(r) \/ CountAdmins(r) \/ SaveUser(r) \/ SoftRemove(r)
    \/ FindForPhoto(r)

\* The controller for administrators, with what UsersController saves.
AdministrationNext(r) ==
    \/ \E u \in Staff :
          \/ \E roles \in RoleLists, isActive \in {"unnamed", "true", "false"}, email \in BOOLEAN :
                UpdateUserAdmin(r, u, roles, isActive, email)
          \/ \E role \in {Admin, "user"} : UpdateRole(r, u, role)
          \/ \E isActive \in BOOLEAN : ToggleActive(r, u, isActive)
          \/ UpdateProfile(r, u) \/ DeleteUser(r, u)
    \/ UserCalls(r)

\* UsersController, and an administrator who deletes or edits its users.
ProfilesNext(r) ==
    \/ \E u \in Staff :
          \/ UploadPhoto(r, u) \/ DeletePhoto(r, u) \/ FailUpload(u)
          \/ UpdateProfile(r, u) \/ DeleteUser(r, u)
    \/ UserCalls(r)

\* The users on their own.
UsersSpec ==
    HandlersInit /\ UsersInit
    /\ [][\E r \in Slots : AdministrationNext(r) \/ ProfilesNext(r)]_UserVars

-----------------------------------------------------------------------------
\* "Cannot remove super_admin role from the last super admin": the system loses
\* its last super administrator only where handlers overlap.
SomebodyAdministers ==
    [][WithRole(Admin) # {} /\ (WithRole(Admin) = {})' => Raced]_UserVars

\* A handler that has changed the files of u will save u's row.
Mending(u) == \E r \in Slots : InFlight(r) /\ "photo" \in DOMAIN My(r) /\ My(r).user = u

\* The photo of u leads nowhere, and nobody is about to mend it.
LostPhoto(u) ==
    staff[u].photo # 0 /\ ~files[staff[u].photo] /\ ~Mending(u)

\* A profile whose photo is not on the disk is what a race leaves behind, or an
\* upload that could delete the old file and not write the new one.
PhotosKept ==
    [][\A u \in Staff : LostPhoto(u)' => LostPhoto(u) \/ Raced \/ FailUpload(u)]_UserVars
=============================================================================

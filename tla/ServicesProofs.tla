--------------------------- MODULE ServicesProofs ----------------------------
(***************************************************************************)
(* Services whose handlers run in slots of module Handlers and share no    *)
(* table: users, settings, translations, storage, the trees of projects    *)
(* and of their modules, and feature flags. For all the values of the      *)
(* constants, and for every number of handlers in flight.                  *)
(*                                                                         *)
(* The parts have one shape. `alone' tells a handler that has overlapped   *)
(* with nobody; such a handler is the only one in flight (SlotInv, of      *)
(* module HandlersProofs), so what it has read and checked still holds     *)
(* when it acts on it. An operator ...Checked, or its like, says what that *)
(* is at each of the handler's calls, and ...Prepared which local          *)
(* variables are set there; the invariant of a part is the slots', the     *)
(* table's types and these two. Steps that overlap are not restricted in   *)
(* any way, so that an invariant has to hold of whatever they leave        *)
(* behind: from there each undisturbed handler is shown to do what the     *)
(* property says.                                                          *)
(***************************************************************************)
EXTENDS HandlersProofs, Users, Settings, Translations, Storage, ProjectTree, ModuleTree,
        FeatureFlags, FiniteSetTheorems, WellFoundedInduction

-----------------------------------------------------------------------------
(* Users: while nobody races there is a super administrator, and photos    *)
(* are kept once each.                                                     *)

UserRow == [roles : SUBSET {Admin, "user"}, active : BOOLEAN, live : BOOLEAN, photo : Nat]

Saving == {"user.email", "user.count", "user.save"}

\* The local variables that are set before each call.
UserPrepared(at, my) ==
    /\ at \in Saving \cup {"user.remove", "photo.find"}
    /\ my.user \in Staff
    /\ at \in Saving => my.row \in UserRow /\ my.row.live
    /\ at = "photo.find" => my.photo \in Nat

\* What a handler that has overlapped with nobody has checked: unless it is yet
\* to count the super administrators, it leaves one.
UserChecked(at, my) ==
    /\ at = "user.email" => my.count = Demotes(my.user, my.row.roles)
    /\ at = "user.save" /\ Demotes(my.user, my.row.roles) => ~(WithRole(Admin) \subseteq {my.user})
    /\ at = "user.remove" => Admin \notin staff[my.user].roles

StaffInv ==
    /\ SlotInv
    /\ staff \in [Staff -> UserRow]
    /\ \A r \in Slots : InFlight(r) =>
          /\ UserPrepared(calls[r].at, My(r))
          /\ calls[r].alone => UserChecked(calls[r].at, My(r))

\* A step of one handler: what the others have prepared stays as it was.
LEMMA StaffStep ==
    ASSUME StaffInv, NEW r \in Slots, SlotInv', OthersWait(r), OthersOverlap(r),
           staff' \in [Staff -> UserRow],
           InFlight(r)' => UserPrepared(calls'[r].at, calls'[r].my),
           InFlight(r)' /\ calls'[r].alone => UserChecked(calls[r].at, calls[r].my)'
    PROVE  StaffInv'
BY DEF StaffInv, OthersWait, OthersOverlap, InFlight, My

\* A request arrives that leaves the table as it is.
LEMMA StaffReceives ==
    ASSUME StaffInv, NEW r \in Slots, NEW call, call # "free", NEW locals,
           Receive(r, call, locals), UNCHANGED staff,
           UserPrepared(call, locals), UserChecked(call, locals)
    PROVE  StaffInv'
<1>1. /\ SlotInv'
      /\ calls'[r].at = call /\ calls'[r].my = locals
      /\ OthersWait(r) /\ OthersOverlap(r)
  BY Received DEF StaffInv
<1>2. UserChecked(calls[r].at, calls[r].my)'
  BY <1>1 DEF UserChecked, Demotes, WithRole
<1> QED BY <1>1, <1>2, StaffStep DEF StaffInv

\* A handler goes on without touching the table.
LEMMA StaffGoesOn ==
    ASSUME StaffInv, NEW r \in Slots, InFlight(r), NEW call, call # "free", AwaitNext(r, call),
           UNCHANGED staff, UserPrepared(call, My(r)),
           calls[r].alone => UserChecked(call, My(r))
    PROVE  StaffInv'
<1>1. /\ SlotInv'
      /\ calls'[r].at = call /\ calls'[r].my = calls[r].my
      /\ calls'[r].alone = calls[r].alone
      /\ OthersWait(r) /\ OthersOverlap(r)
  BY WentNext DEF StaffInv
<1>2. calls[r].alone => UserChecked(calls[r].at, calls[r].my)'
  BY <1>1 DEF UserChecked, Demotes, WithRole, My
<1> QED BY <1>1, <1>2, StaffStep DEF StaffInv, My

\* A handler answers.
LEMMA StaffAnswers ==
    ASSUME StaffInv, NEW r \in Slots, InFlight(r), Answer(r), staff' \in [Staff -> UserRow]
    PROVE  StaffInv'
<1>1. SlotInv' /\ ~InFlight(r)' /\ OthersWait(r) /\ OthersOverlap(r)
  BY Answered DEF StaffInv
<1> QED BY <1>1, StaffStep

\* updateUserAdmin, where the request names a new e-mail.
EmailFirst(r, u, row, ok) ==
    /\ Receive(r, "user.email",
               [user |-> u, row |-> row, ok |-> ok, count |-> Demotes(u, row.roles)])
    /\ UNCHANGED <<staff, files>>

\* The requests that change the roles, the activation or the profile of a user
\* take the row, which is live, and leave its photo.
LEMMA ChangesOfUsers ==
    ASSUME StaffInv, NEW r \in Slots, NEW u \in Staff,
           \/ \E roles \in RoleLists, isActive \in {"unnamed", "true", "false"}, email \in BOOLEAN :
                 UpdateUserAdmin(r, u, roles, isActive, email)
           \/ \E role \in {Admin, "user"} : UpdateRole(r, u, role)
           \/ \E isActive \in BOOLEAN : ToggleActive(r, u, isActive)
           \/ UpdateProfile(r, u)
    PROVE  \E row \in UserRow : \E ok :
              /\ row.live /\ row.photo = staff[u].photo
              /\ Change(r, u, row, ok) \/ EmailFirst(r, u, row, ok)
<1>1. staff[u] \in UserRow
  BY DEF StaffInv
<1>2. CASE \E roles \in RoleLists, isActive \in {"unnamed", "true", "false"}, email \in BOOLEAN :
              UpdateUserAdmin(r, u, roles, isActive, email)
  <2> PICK roles \in RoleLists, isActive \in {"unnamed", "true", "false"}, email \in BOOLEAN :
              UpdateUserAdmin(r, u, roles, isActive, email)
    BY <1>2
  <2> DEFINE active == IF isActive = "unnamed" THEN staff[u].active ELSE isActive = "true"
             row == [staff[u] EXCEPT !.roles = roles, !.active = active]
             ok == isActive # "false" \/ Admin \notin roles
             locals == [user |-> u, row |-> row, ok |-> ok, count |-> Demotes(u, roles)]
  <2>1. active \in BOOLEAN /\ roles \in SUBSET {Admin, "user"}
    BY <1>1 DEF UserRow, RoleLists
  <2>2. staff[u].live
    BY DEF UpdateUserAdmin, Change
  <2>3. \/ Receive(r, "user.email", locals) /\ UNCHANGED <<staff, files>>
        \/ Change(r, u, row, ok)
    BY DEF UpdateUserAdmin
  <2> HIDE DEF active, ok
  <2>4. row \in UserRow /\ row.live /\ row.photo = staff[u].photo /\ row.roles = roles
    BY <1>1, <2>1, <2>2 DEF UserRow
  <2> HIDE DEF row
  <2>5. EmailFirst(r, u, row, ok) \/ Change(r, u, row, ok)
    BY <2>3, <2>4 DEF EmailFirst
  <2> QED BY <2>4, <2>5
<1>3. CASE \E role \in {Admin, "user"} : UpdateRole(r, u, role)
  <2> PICK role \in {Admin, "user"} : UpdateRole(r, u, role)
    BY <1>3
  <2> DEFINE row == [staff[u] EXCEPT !.roles = {role}]
  <2>1. Change(r, u, row, TRUE)
    BY DEF UpdateRole
  <2>2. row \in UserRow /\ row.live /\ row.photo = staff[u].photo
    BY <1>1, <2>1 DEF UserRow, Change
  <2> HIDE DEF row
  <2> QED BY <2>1, <2>2
<1>4. CASE \E isActive \in BOOLEAN : ToggleActive(r, u, isActive)
  <2> PICK isActive \in BOOLEAN : ToggleActive(r, u, isActive)
    BY <1>4
  <2> DEFINE row == [staff[u] EXCEPT !.active = isActive]
  <2>1. Change(r, u, row, TRUE)
    BY DEF ToggleActive
  <2>2. row \in UserRow /\ row.live /\ row.photo = staff[u].photo
    BY <1>1, <2>1 DEF UserRow, Change
  <2> HIDE DEF row
  <2> QED BY <2>1, <2>2
<1>5. CASE UpdateProfile(r, u)
  BY <1>1, <1>5 DEF UpdateProfile, Change
<1> QED BY <1>2, <1>3, <1>4, <1>5

\* A change of a user begins, with a look at the e-mail address or without.
LEMMA ChangeKeepsStaff ==
    ASSUME StaffInv, NEW r \in Slots, NEW u \in Staff, NEW row \in UserRow, NEW ok, row.live,
           Change(r, u, row, ok) \/ EmailFirst(r, u, row, ok)
    PROVE  StaffInv'
<1>1. CASE Change(r, u, row, ok)
  <2> DEFINE call == IF Demotes(u, row.roles) THEN "user.count" ELSE "user.save"
             locals == [user |-> u, row |-> row, ok |-> ok]
  <2>1. Receive(r, call, locals) /\ UNCHANGED staff
    BY <1>1 DEF Change
  <2>2. UserPrepared(call, locals) /\ UserChecked(call, locals) /\ call # "free"
    BY DEF UserPrepared, Saving, UserChecked
  <2> HIDE DEF call, locals
  <2> QED BY <2>1, <2>2, StaffReceives
<1>2. CASE EmailFirst(r, u, row, ok)
  <2> DEFINE locals == [user |-> u, row |-> row, ok |-> ok, count |-> Demotes(u, row.roles)]
  <2>1. Receive(r, "user.email", locals) /\ UNCHANGED staff
    BY <1>2 DEF EmailFirst
  <2>2. locals.user = u /\ locals.row = row /\ locals.count = Demotes(u, row.roles)
    OBVIOUS
  <2>3. UserPrepared("user.email", locals) /\ UserChecked("user.email", locals)
    BY <2>2 DEF UserPrepared, UserChecked, Saving
  <2> HIDE DEF locals
  <2> QED BY <2>1, <2>3, StaffReceives
<1> QED BY <1>1, <1>2

\* A deletion begins.
LEMMA DeletionKeepsStaff ==
    ASSUME StaffInv, NEW r \in Slots, NEW u \in Staff, DeleteUser(r, u)
    PROVE  StaffInv'
<1> DEFINE locals == [user |-> u]
<1>1. Receive(r, "user.remove", locals) /\ UNCHANGED staff
  BY DEF DeleteUser
<1>2. UserPrepared("user.remove", locals)
  BY DEF UserPrepared, Saving
<1>3. UserChecked("user.remove", locals)
  BY DEF UserChecked, DeleteUser
<1> HIDE DEF locals
<1> QED BY <1>1, <1>2, <1>3, StaffReceives

\* The steps of photos leave roles and states of users alone.
LEMMA PhotoKeepsStaff ==
    ASSUME StaffInv, NEW r \in Slots, NEW u \in Staff,
           UploadPhoto(r, u) \/ DeletePhoto(r, u) \/ FailUpload(u), Len(files) \in Nat
    PROVE  StaffInv'
<1>1. CASE FailUpload(u)
  <2>1. UNCHANGED staff /\ AtOnce
    BY <1>1 DEF FailUpload
  <2>2. /\ SlotInv'
        /\ \A s \in Slots : /\ calls'[s].at = calls[s].at /\ calls'[s].my = calls[s].my
                            /\ InFlight(s)' => ~calls'[s].alone
    BY <2>1, Overlaps DEF StaffInv
  <2> QED BY <2>1, <2>2 DEF StaffInv, InFlight, My
<1>2. ASSUME NEW photo \in Nat, Receive(r, "photo.find", [user |-> u, photo |-> photo]),
             UNCHANGED staff
      PROVE  StaffInv'
  <2> DEFINE locals == [user |-> u, photo |-> photo]
  <2>1. UserPrepared("photo.find", locals) /\ UserChecked("photo.find", locals)
    BY DEF UserPrepared, UserChecked, Saving
  <2>2. Receive(r, "photo.find", locals)
    BY <1>2
  <2> HIDE DEF locals
  <2> QED BY <1>2, <2>1, <2>2, StaffReceives
<1>3. CASE UploadPhoto(r, u)
  BY <1>2, <1>3 DEF UploadPhoto
<1>4. CASE DeletePhoto(r, u)
  BY <1>2, <1>4 DEF DeletePhoto
<1> QED BY <1>1, <1>3, <1>4

\* Where more than the user to be demoted administer the system.
LEMMA AnotherAdmin ==
    ASSUME NEW u, ~LastAdmin
    PROVE  ~(WithRole(Admin) \subseteq {u})
<1> SUFFICES ASSUME WithRole(Admin) \subseteq {u}
             PROVE  Cardinality(WithRole(Admin)) <= 1
  BY DEF LastAdmin
<1>1. CASE WithRole(Admin) = {}
  BY <1>1, FS_EmptySet
<1>2. CASE WithRole(Admin) = {u}
  <2>1. Cardinality({u}) = 1
    BY FS_Singleton
  <2> QED BY <1>2, <2>1
<1> QED BY <1>1, <1>2

\* The steps of handlers that have begun.
LEMMA CallsKeepStaff ==
    ASSUME StaffInv, NEW r \in Slots, UserCalls(r)
    PROVE  StaffInv'
<1> DEFINE my == My(r)
<1>1. InFlight(r)
  BY DEF UserCalls, FindEmail, CountAdmins, SaveUser, SoftRemove, FindForPhoto, Awaits, InFlight
<1>2. UserPrepared(calls[r].at, my) /\ (calls[r].alone => UserChecked(calls[r].at, my))
  BY <1>1 DEF StaffInv
<1>3. staff \in [Staff -> UserRow] /\ my.user \in Staff
  BY <1>2 DEF StaffInv, UserPrepared
<1>4. CASE FindEmail(r)
  <2>1. Awaits(r, "user.email") /\ UNCHANGED staff
    BY <1>4 DEF FindEmail
  <2>2. CASE Answer(r)
    BY <1>1, <1>3, <2>1, <2>2, StaffAnswers
  <2>3. CASE my.count /\ AwaitNext(r, "user.count")
    <3>1. UserPrepared("user.count", my) /\ UserChecked("user.count", my)
      BY <1>2, <2>1 DEF UserPrepared, UserChecked, Saving, Awaits
    <3> QED BY <1>1, <2>1, <2>3, <3>1, StaffGoesOn
  <2>4. CASE ~my.count /\ AwaitNext(r, "user.save")
    <3>1. UserPrepared("user.save", my) /\ (calls[r].alone => UserChecked("user.save", my))
      BY <1>2, <2>1, <2>4 DEF UserPrepared, UserChecked, Saving, Awaits
    <3> QED BY <1>1, <2>1, <2>4, <3>1, StaffGoesOn
  <2> QED BY <1>4, <2>2, <2>3, <2>4 DEF FindEmail
<1>5. CASE CountAdmins(r)
  <2>1. Awaits(r, "user.count") /\ UNCHANGED staff
    BY <1>5 DEF CountAdmins
  <2>2. CASE Answer(r)
    BY <1>1, <1>3, <2>1, <2>2, StaffAnswers
  <2>3. CASE ~LastAdmin /\ AwaitNext(r, "user.save")
    <3>1. UserPrepared("user.save", my)
      BY <1>2, <2>1 DEF UserPrepared, Saving, Awaits
    <3>2. UserChecked("user.save", my)
      BY <2>3, AnotherAdmin DEF UserChecked
    <3> QED BY <1>1, <2>1, <2>3, <3>1, <3>2, StaffGoesOn
  <2> QED BY <1>5, <2>2, <2>3 DEF CountAdmins, Demand
<1>6. CASE SaveUser(r)
  <2>1. my.row \in UserRow
    BY <1>2, <1>6 DEF SaveUser, UserPrepared, Awaits, Saving
  <2>2. staff' \in [Staff -> UserRow] /\ Answer(r)
    BY <1>3, <1>6, <2>1 DEF SaveUser
  <2> QED BY <1>1, <2>2, StaffAnswers
<1>7. CASE SoftRemove(r)
  <2>1. [staff[my.user] EXCEPT !.live = FALSE] \in UserRow
    BY <1>3 DEF UserRow
  <2>2. staff' \in [Staff -> UserRow] /\ Answer(r)
    BY <1>3, <1>7, <2>1 DEF SoftRemove
  <2> QED BY <1>1, <2>2, StaffAnswers
<1>8. CASE FindForPhoto(r)
  <2> DEFINE u == my.user
             row == [staff[u] EXCEPT !.photo = my.photo]
             locals == [user |-> u, photo |-> my.photo, row |-> row]
  <2>1. UNCHANGED staff /\ my.photo \in Nat
    BY <1>2, <1>8 DEF FindForPhoto, UserPrepared, Awaits
  <2>2. CASE Answer(r)
    BY <1>1, <1>3, <2>1, <2>2, StaffAnswers
  <2>3. CASE staff[u].live /\ Await(r, "user.save", locals)
    <3>1. row \in UserRow /\ row.live /\ row.roles = staff[u].roles
      BY <1>3, <2>1, <2>3 DEF UserRow
    <3>2. locals.user = u /\ locals.row = row
      OBVIOUS
    <3> HIDE DEF row, locals
    <3>3. UserPrepared("user.save", locals)
      BY <1>3, <3>1, <3>2 DEF UserPrepared, Saving
    <3>4. /\ SlotInv'
          /\ calls'[r].at = "user.save" /\ calls'[r].my = locals
          /\ OthersWait(r) /\ OthersOverlap(r)
      BY <1>1, <2>3, WentOn DEF StaffInv
    <3>5. calls'[r].my.user = u /\ calls'[r].my.row.roles = staff[u].roles
      BY <3>1, <3>2, <3>4
    <3> HIDE DEF u
    <3>6. UserChecked(calls[r].at, calls[r].my)'
      BY <2>1, <3>4, <3>5 DEF UserChecked, Demotes
    <3> QED BY <1>3, <2>1, <3>3, <3>4, <3>6, StaffStep
  <2> QED BY <1>8, <2>2, <2>3 DEF FindForPhoto
<1> QED BY <1>4, <1>5, <1>6, <1>7, <1>8 DEF UserCalls

-----------------------------------------------------------------------------
(* Photos.                                                                 *)

\* The photo that a handler carries belongs to the handler.
PhotoPrepared(at, my) ==
    /\ "photo" \in DOMAIN my => at \in {"photo.find", "user.save"}
    /\ at = "photo.find" => "photo" \in DOMAIN my
    /\ at = "user.save" /\ "photo" \in DOMAIN my => my.row.photo = my.photo

\* What a handler that has overlapped with nobody knows: the photo that it
\* uploaded is there, or it leaves the photo of its user alone.
PhotoChecked(at, my) ==
    /\ "photo" \in DOMAIN my /\ my.photo # 0 => files[my.photo]
    /\ at = "photo.find" => staff[my.user].live
    /\ at \in Saving /\ "photo" \notin DOMAIN my => my.row.photo = staff[my.user].photo

\* Every photo was uploaded for one user, and nobody else's row has it or will.
Belongs(owner, f, u) == f = 0 \/ (f \in DOMAIN files /\ owner[f] = u)

Carried(owner, at, my) ==
    /\ at \in Saving => Belongs(owner, my.row.photo, my.user)
    /\ at = "photo.find" => Belongs(owner, my.photo, my.user)

OwnedBy(owner) ==
    /\ \A u \in Staff : Belongs(owner, staff[u].photo, u)
    /\ \A r \in Slots : InFlight(r) => Carried(owner, calls[r].at, My(r))

PhotoInv ==
    /\ StaffInv
    /\ files \in Seq(BOOLEAN)
    /\ \E owner : OwnedBy(owner)
    /\ \A r \in Slots : InFlight(r) =>
          /\ PhotoPrepared(calls[r].at, My(r))
          /\ calls[r].alone => PhotoChecked(calls[r].at, My(r))

\* A step of one handler, for the photos.
LEMMA PhotoStep ==
    ASSUME PhotoInv, StaffInv', NEW r \in Slots, OthersWait(r), OthersOverlap(r),
           files' \in Seq(BOOLEAN), NEW owner, OwnedBy(owner)',
           InFlight(r)' => PhotoPrepared(calls'[r].at, calls'[r].my),
           InFlight(r)' /\ calls'[r].alone => PhotoChecked(calls[r].at, calls[r].my)'
    PROVE  PhotoInv'
BY DEF PhotoInv, OthersWait, OthersOverlap, InFlight, My

\* Who owns a photo does not change while no file comes or goes.
LEMMA OwnersStay ==
    ASSUME NEW owner, OwnedBy(owner), NEW r \in Slots, OthersWait(r), DOMAIN files' = DOMAIN files,
           \A u \in Staff : staff'[u].photo = staff[u].photo \/ Belongs(owner, staff'[u].photo, u),
           InFlight(r)' => Carried(owner, calls'[r].at, calls'[r].my)
    PROVE  OwnedBy(owner)'
BY DEF OwnedBy, OthersWait, Carried, Belongs, InFlight, My

\* A request that arrives with the row of its user.
LEMMA PhotoReceives ==
    ASSUME PhotoInv, StaffInv', NEW r \in Slots, NEW call, call # "free", NEW locals,
           Receive(r, call, locals), UNCHANGED <<staff, files>>,
           UserPrepared(call, locals), "photo" \notin DOMAIN locals, call # "photo.find",
           call \in Saving => locals.row.photo = staff[locals.user].photo
    PROVE  PhotoInv'
<1>1. /\ calls'[r].at = call /\ calls'[r].my = locals
      /\ OthersWait(r) /\ OthersOverlap(r)
  BY Received DEF PhotoInv, StaffInv
<1>2. PICK owner : OwnedBy(owner)
  BY DEF PhotoInv
<1>3. Carried(owner, calls'[r].at, calls'[r].my)
  BY <1>1, <1>2 DEF OwnedBy, Carried, UserPrepared
<1>4. OwnedBy(owner)'
  BY <1>1, <1>2, <1>3, OwnersStay
<1>5. PhotoPrepared(calls'[r].at, calls'[r].my)
  BY <1>1 DEF PhotoPrepared
<1>6. PhotoChecked(calls[r].at, calls[r].my)'
  BY <1>1 DEF PhotoChecked
<1> QED BY <1>1, <1>4, <1>5, <1>6, PhotoStep DEF PhotoInv

\* A change carries the photo that the user has.
LEMMA ChangeKeepsPhotos ==
    ASSUME PhotoInv, StaffInv', NEW r \in Slots, NEW u \in Staff, NEW row \in UserRow, NEW ok,
           row.live, row.photo = staff[u].photo,
           Change(r, u, row, ok) \/ EmailFirst(r, u, row, ok)
    PROVE  PhotoInv'
<1>1. CASE Change(r, u, row, ok)
  <2> DEFINE call == IF Demotes(u, row.roles) THEN "user.count" ELSE "user.save"
             locals == [user |-> u, row |-> row, ok |-> ok]
  <2>1. Receive(r, call, locals) /\ UNCHANGED <<staff, files>>
    BY <1>1 DEF Change
  <2>2. UserPrepared(call, locals) /\ "photo" \notin DOMAIN locals
    BY DEF UserPrepared, Saving
  <2>3. locals.row.photo = staff[locals.user].photo
    OBVIOUS
  <2>4. call # "free" /\ call # "photo.find"
    OBVIOUS
  <2> HIDE DEF call, locals
  <2> QED BY <2>1, <2>2, <2>3, <2>4, PhotoReceives
<1>2. CASE EmailFirst(r, u, row, ok)
  <2> DEFINE locals == [user |-> u, row |-> row, ok |-> ok, count |-> Demotes(u, row.roles)]
  <2>1. Receive(r, "user.email", locals) /\ UNCHANGED <<staff, files>>
    BY <1>2 DEF EmailFirst
  <2>2. locals.user = u /\ locals.row = row /\ "photo" \notin DOMAIN locals
    OBVIOUS
  <2>3. UserPrepared("user.email", locals)
    BY <2>2 DEF UserPrepared, Saving
  <2> HIDE DEF locals
  <2> QED BY <2>1, <2>2, <2>3, PhotoReceives
<1> QED BY <1>1, <1>2

\* A deletion carries no photo.
LEMMA DeletionKeepsPhotos ==
    ASSUME PhotoInv, StaffInv', NEW r \in Slots, NEW u \in Staff, DeleteUser(r, u)
    PROVE  PhotoInv'
<1> DEFINE locals == [user |-> u]
<1>1. Receive(r, "user.remove", locals) /\ UNCHANGED <<staff, files>>
  BY DEF DeleteUser
<1>2. UserPrepared("user.remove", locals) /\ "photo" \notin DOMAIN locals
  BY DEF UserPrepared, Saving
<1>3. "user.remove" \notin Saving
  BY DEF Saving
<1> HIDE DEF locals
<1> QED BY <1>1, <1>2, <1>3, PhotoReceives

\* Deleting a file that is not there changes nothing.
LEMMA FilesWithout ==
    ASSUME files \in Seq(BOOLEAN), NEW f
    PROVE  /\ Without(f) \in Seq(BOOLEAN)
           /\ Len(Without(f)) = Len(files)
           /\ DOMAIN Without(f) = DOMAIN files
           /\ \A g \in DOMAIN files : Without(f)[g] <=> files[g] /\ g # f
<1>1. DOMAIN files = 1..Len(files) /\ Len(files) \in Nat
  BY LenProperties
<1>2. Without(f) \in [1..Len(files) -> BOOLEAN]
  BY <1>1 DEF Without
<1>3. Without(f) \in Seq(BOOLEAN)
  BY <1>1, <1>2, SeqDef
<1>4. Len(Without(f)) = Len(files)
  BY <1>1, <1>2, <1>3, LenProperties
<1> QED BY <1>3, <1>4 DEF Without

\* The files after one more.
LEMMA FileAdded ==
    ASSUME NEW table, table \in Seq(BOOLEAN), NEW next, next = Append(table, TRUE)
    PROVE  /\ next \in Seq(BOOLEAN)
           /\ DOMAIN next = 1..(Len(table) + 1)
           /\ next[Len(table) + 1]
           /\ \A g \in DOMAIN table : next[g] = table[g]
<1>1. PICK there \in BOOLEAN : there = TRUE
  OBVIOUS
<1>2. next = Append(table, there)
  BY <1>1
<1>3. next \in Seq(BOOLEAN) /\ DOMAIN next = 1..(Len(table) + 1)
  BY <1>2, Inserted
<1>4. DOMAIN table = 1..Len(table) /\ Len(table) \in Nat
  BY LenProperties
<1>5. next[Len(table) + 1]
  BY <1>3, <1>4
<1>6. \A g \in DOMAIN table : next[g] = table[g]
  BY <1>3, <1>4
<1> QED BY <1>3, <1>5, <1>6

\* What an upload leaves of the files.
LEMMA FilesUploaded ==
    ASSUME files \in Seq(BOOLEAN), NEW f, files' = Append(Without(f), TRUE)
    PROVE  /\ files' \in Seq(BOOLEAN)
           /\ Len(files) \in Nat /\ DOMAIN files = 1..Len(files)
           /\ DOMAIN files' = 1..(Len(files) + 1)
           /\ files'[Len(files) + 1]
           /\ \A g \in DOMAIN files : files'[g] <=> files[g] /\ g # f
<1>1. /\ Without(f) \in Seq(BOOLEAN)
      /\ Len(Without(f)) = Len(files)
      /\ DOMAIN Without(f) = DOMAIN files
      /\ \A g \in DOMAIN files : Without(f)[g] <=> files[g] /\ g # f
  BY FilesWithout
<1>2. /\ files' \in Seq(BOOLEAN)
      /\ DOMAIN files' = 1..(Len(Without(f)) + 1)
      /\ files'[Len(Without(f)) + 1]
      /\ \A g \in DOMAIN Without(f) : files'[g] = Without(f)[g]
  BY <1>1, FileAdded
<1> QED BY <1>1, <1>2, LenProperties

\* An upload, a deletion and an upload that fails.
LEMMA FilesKeepPhotos ==
    ASSUME PhotoInv, StaffInv', NEW r \in Slots, NEW u \in Staff,
           UploadPhoto(r, u) \/ DeletePhoto(r, u) \/ FailUpload(u)
    PROVE  PhotoInv'
<1>1. files \in Seq(BOOLEAN)
  BY DEF PhotoInv
<1>2. PICK owner : OwnedBy(owner)
  BY DEF PhotoInv
<1>3. SlotInv
  BY DEF PhotoInv, StaffInv
<1>4. CASE UploadPhoto(r, u)
  <2>0. PICK new, given : /\ new = Len(files) + 1
                          /\ given = [f \in 1..new |-> IF f = new THEN u ELSE owner[f]]
    OBVIOUS
  <2> DEFINE locals == [user |-> u, photo |-> new]
  <2>1. /\ files' \in Seq(BOOLEAN)
        /\ Len(files) \in Nat /\ DOMAIN files = 1..Len(files)
        /\ DOMAIN files' = 1..new
        /\ files'[new]
    BY <1>1, <1>4, <2>0, FilesUploaded DEF UploadPhoto
  <2>2. /\ calls'[r].at = "photo.find" /\ calls'[r].my = locals
        /\ OthersWait(r) /\ OthersOverlap(r)
    BY <1>3, <1>4, <2>0, Received DEF UploadPhoto
  <2>3. UNCHANGED staff /\ staff[u].live
    BY <1>4 DEF UploadPhoto
  <2>4. locals.user = u /\ locals.photo = new /\ "photo" \in DOMAIN locals
    OBVIOUS
  <2>5. \A f \in DOMAIN files : f \in 1..new /\ f # new /\ given[f] = owner[f]
    BY <2>0, <2>1
  <2>6. given[new] = u /\ new \in 1..new
    BY <2>0, <2>1
  <2> HIDE DEF locals
  <2>7. \A f, v : Belongs(owner, f, v) => Belongs(given, f, v)'
    BY <2>1, <2>5 DEF Belongs
  <2>8. Belongs(given, new, u)'
    BY <2>1, <2>6 DEF Belongs
  <2>9. OwnedBy(given)'
    <3>1. \A v \in Staff : Belongs(given, staff[v].photo, v)'
      BY <1>2, <2>3, <2>7 DEF OwnedBy
    <3>2. Carried(given, calls[r].at, calls[r].my)'
      BY <2>2, <2>4, <2>8 DEF Carried, Saving
    <3>3. \A s \in Slots : s # r /\ InFlight(s)' => Carried(given, calls[s].at, calls[s].my)'
      BY <1>2, <2>2, <2>7 DEF OwnedBy, Carried, OthersWait, InFlight, My
    <3> QED BY <3>1, <3>2, <3>3 DEF OwnedBy, My
  <2>10. PhotoPrepared(calls'[r].at, calls'[r].my)
    BY <2>2, <2>4 DEF PhotoPrepared
  <2>11. PhotoChecked(calls[r].at, calls[r].my)'
    BY <2>1, <2>2, <2>3, <2>4 DEF PhotoChecked, Saving
  <2> QED BY <2>1, <2>2, <2>9, <2>10, <2>11, PhotoStep
<1>5. CASE DeletePhoto(r, u)
  <2> DEFINE locals == [user |-> u, photo |-> 0]
  <2>1. files' \in Seq(BOOLEAN) /\ DOMAIN files' = DOMAIN files
    BY <1>1, <1>5, FilesWithout DEF DeletePhoto
  <2>2. /\ calls'[r].at = "photo.find" /\ calls'[r].my = locals
        /\ OthersWait(r) /\ OthersOverlap(r)
    BY <1>3, <1>5, Received DEF DeletePhoto
  <2>3. UNCHANGED staff /\ staff[u].live
    BY <1>5 DEF DeletePhoto
  <2>4. locals.user = u /\ locals.photo = 0 /\ "photo" \in DOMAIN locals
    OBVIOUS
  <2> HIDE DEF locals
  <2>5. Carried(owner, calls'[r].at, calls'[r].my)
    BY <2>2, <2>4 DEF Carried, Saving, Belongs
  <2>6. OwnedBy(owner)'
    BY <1>2, <2>1, <2>2, <2>3, <2>5, OwnersStay
  <2>7. PhotoPrepared(calls'[r].at, calls'[r].my)
    BY <2>2, <2>4 DEF PhotoPrepared
  <2>8. PhotoChecked(calls[r].at, calls[r].my)'
    BY <2>2, <2>3, <2>4 DEF PhotoChecked, Saving
  <2> QED BY <2>1, <2>2, <2>6, <2>7, <2>8, PhotoStep
<1>6. CASE FailUpload(u)
  <2>1. files' \in Seq(BOOLEAN) /\ DOMAIN files' = DOMAIN files
    BY <1>1, <1>6, FilesWithout DEF FailUpload
  <2>2. \A s \in Slots : /\ calls'[s].at = calls[s].at /\ calls'[s].my = calls[s].my
                         /\ InFlight(s)' => ~calls'[s].alone
    BY <1>3, <1>6, Overlaps DEF FailUpload
  <2>3. OwnedBy(owner)'
    BY <1>2, <1>6, <2>1, <2>2 DEF OwnedBy, Carried, Belongs, FailUpload, InFlight, My
  <2> QED BY <2>1, <2>2, <2>3 DEF PhotoInv, InFlight, My
<1> QED BY <1>4, <1>5, <1>6

\* A handler goes on, with its row still to be saved.
LEMMA PhotoGoesOn ==
    ASSUME PhotoInv, StaffInv', NEW r \in Slots, InFlight(r), NEW call \in Saving,
           calls[r].at \in {"user.email", "user.count"}, AwaitNext(r, call),
           UNCHANGED <<staff, files>>
    PROVE  PhotoInv'
<1>1. /\ calls'[r].at = call /\ calls'[r].my = calls[r].my
      /\ calls'[r].alone = calls[r].alone
      /\ OthersWait(r) /\ OthersOverlap(r)
  BY WentNext DEF PhotoInv, StaffInv, Saving
<1>2. PICK owner : OwnedBy(owner)
  BY DEF PhotoInv
<1>3. Carried(owner, calls'[r].at, calls'[r].my)
  BY <1>1, <1>2 DEF OwnedBy, Carried, Saving, My
<1>4. OwnedBy(owner)'
  BY <1>1, <1>2, <1>3, OwnersStay
<1>5. /\ PhotoPrepared(calls[r].at, calls[r].my)
      /\ calls[r].alone => PhotoChecked(calls[r].at, calls[r].my)
  BY DEF PhotoInv, My
<1>6. PhotoPrepared(calls'[r].at, calls'[r].my)
  BY <1>1, <1>5 DEF PhotoPrepared, Saving
<1>7. calls[r].alone => PhotoChecked(calls[r].at, calls[r].my)'
  BY <1>1, <1>5 DEF PhotoPrepared, PhotoChecked, Saving
<1> QED BY <1>1, <1>4, <1>6, <1>7, PhotoStep DEF PhotoInv

\* A handler answers, after it has written a user with a photo that is his.
LEMMA PhotoAnswers ==
    ASSUME PhotoInv, StaffInv', NEW r \in Slots, InFlight(r), Answer(r), UNCHANGED files,
           NEW owner, OwnedBy(owner),
           \A u \in Staff : staff'[u].photo = staff[u].photo \/ Belongs(owner, staff'[u].photo, u)
    PROVE  PhotoInv'
<1>1. ~InFlight(r)' /\ OthersWait(r) /\ OthersOverlap(r)
  BY Answered DEF PhotoInv, StaffInv
<1>2. OwnedBy(owner)'
  BY <1>1, OwnersStay
<1> QED BY <1>1, <1>2, PhotoStep DEF PhotoInv

\* The steps of handlers that have begun, for the photos.
LEMMA CallsKeepPhotos ==
    ASSUME PhotoInv, StaffInv', NEW r \in Slots, UserCalls(r)
    PROVE  PhotoInv'
<1> DEFINE my == My(r)
<1>1. InFlight(r)
  BY DEF UserCalls, FindEmail, CountAdmins, SaveUser, SoftRemove, FindForPhoto, Awaits, InFlight
<1>2. /\ UserPrepared(calls[r].at, my)
      /\ PhotoPrepared(calls[r].at, my)
      /\ calls[r].alone => PhotoChecked(calls[r].at, my)
  BY <1>1 DEF PhotoInv, StaffInv
<1>3. staff \in [Staff -> UserRow] /\ my.user \in Staff
  BY <1>2 DEF PhotoInv, StaffInv, UserPrepared
<1>4. PICK owner : OwnedBy(owner)
  BY DEF PhotoInv
<1>5. Carried(owner, calls[r].at, my)
  BY <1>1, <1>4 DEF OwnedBy
<1>6. CASE FindEmail(r) \/ CountAdmins(r)
  <2>1. calls[r].at \in {"user.email", "user.count"} /\ UNCHANGED <<staff, files>>
    BY <1>6 DEF FindEmail, CountAdmins, Awaits
  <2>2. CASE Answer(r)
    BY <1>1, <1>4, <2>1, <2>2, PhotoAnswers
  <2>3. CASE \E call \in Saving : AwaitNext(r, call)
    BY <1>1, <2>1, <2>3, PhotoGoesOn
  <2>4. Answer(r) \/ \E call \in Saving : AwaitNext(r, call)
    BY <1>6 DEF FindEmail, CountAdmins, Demand, Saving
  <2> QED BY <2>2, <2>3, <2>4
<1>7. CASE SaveUser(r)
  <2>1. /\ Answer(r) /\ UNCHANGED files
        /\ staff' = [staff EXCEPT ![my.user] = my.row]
    BY <1>7 DEF SaveUser
  <2>2. Belongs(owner, my.row.photo, my.user)
    BY <1>5, <1>7 DEF SaveUser, Awaits, Carried, Saving
  <2>3. \A u \in Staff : \/ staff'[u].photo = staff[u].photo
                         \/ Belongs(owner, staff'[u].photo, u)
    BY <1>3, <2>1, <2>2
  <2> QED BY <1>1, <1>4, <2>1, <2>3, PhotoAnswers
<1>8. CASE SoftRemove(r)
  <2>1. /\ Answer(r) /\ UNCHANGED files
        /\ \A u \in Staff : staff'[u].photo = staff[u].photo
    BY <1>3, <1>8 DEF SoftRemove, UserRow
  <2> QED BY <1>1, <1>4, <2>1, PhotoAnswers
<1>9. CASE FindForPhoto(r)
  <2> DEFINE row == [staff[my.user] EXCEPT !.photo = my.photo]
             locals == [user |-> my.user, photo |-> my.photo, row |-> row]
  <2>1. Awaits(r, "photo.find") /\ UNCHANGED <<staff, files>>
    BY <1>9 DEF FindForPhoto
  <2>2. CASE Answer(r)
    BY <1>1, <1>4, <2>1, <2>2, PhotoAnswers
  <2>3. CASE Await(r, "user.save", locals)
    <3>1. row.photo = my.photo
      BY <1>3 DEF UserRow
    <3>2. /\ locals.user = my.user /\ locals.photo = my.photo /\ locals.row = row
          /\ "photo" \in DOMAIN locals
      OBVIOUS
    <3> HIDE DEF row, locals
    <3>3. /\ calls'[r].at = "user.save" /\ calls'[r].my = locals
          /\ calls'[r].alone = calls[r].alone
          /\ OthersWait(r) /\ OthersOverlap(r)
      BY <1>1, <2>3, WentOn DEF PhotoInv, StaffInv
    <3>4. Belongs(owner, my.photo, my.user)
      BY <1>5, <2>1 DEF Awaits, Carried
    <3>5. Carried(owner, calls'[r].at, calls'[r].my)
      BY <3>1, <3>2, <3>3, <3>4 DEF Carried
    <3>6. OwnedBy(owner)'
      BY <1>4, <2>1, <3>3, <3>5, OwnersStay
    <3>7. PhotoPrepared(calls'[r].at, calls'[r].my)
      BY <3>1, <3>2, <3>3 DEF PhotoPrepared
    <3>8. calls[r].alone => (my.photo # 0 => files[my.photo])
      BY <1>2, <2>1 DEF PhotoPrepared, PhotoChecked, Awaits
    <3>9. calls'[r].alone =>
             ("photo" \in DOMAIN calls'[r].my /\ (calls'[r].my.photo # 0 => files'[calls'[r].my.photo]))
      BY <2>1, <3>2, <3>3, <3>8
    <3>10. calls'[r].alone => PhotoChecked(calls[r].at, calls[r].my)'
      BY <3>3, <3>9 DEF PhotoChecked
    <3> QED BY <2>1, <3>3, <3>6, <3>7, <3>10, PhotoStep DEF PhotoInv
  <2> QED BY <1>9, <2>2, <2>3 DEF FindForPhoto
<1> QED BY <1>6, <1>7, <1>8, <1>9 DEF UserCalls

-----------------------------------------------------------------------------
(* The invariant.                                                          *)

UsersNext == \E r \in Slots : AdministrationNext(r) \/ ProfilesNext(r)

\* The invariant holds at first,
LEMMA UsersBegin == HandlersInit /\ UsersInit => PhotoInv
<1> SUFFICES ASSUME HandlersInit, UsersInit
             PROVE  PhotoInv
  OBVIOUS
<1>1. SlotInv /\ \A r \in Slots : ~InFlight(r)
  BY SlotsBegin
<1>2. \A u \in Staff : /\ staff[u] \in UserRow
                       /\ staff[u].photo = 0
  BY DEF UsersInit, NewUser, UserRow
<1>3. staff \in [Staff -> UserRow]
  BY <1>2 DEF UsersInit
<1>4. StaffInv
  BY <1>1, <1>3 DEF StaffInv
<1>5. files \in Seq(BOOLEAN)
  BY DEF UsersInit
<1>6. OwnedBy(<<>>)
  BY <1>1, <1>2 DEF OwnedBy, Belongs
<1> QED BY <1>1, <1>4, <1>5, <1>6 DEF PhotoInv

\* and every step keeps it.
LEMMA UsersStep ==
    ASSUME PhotoInv, [UsersNext]_UserVars
    PROVE  PhotoInv'
<1>1. CASE UNCHANGED UserVars
  BY <1>1, SlotsStay
  DEF UserVars, PhotoInv, StaffInv, UserChecked, Demotes, WithRole, PhotoChecked, OwnedBy,
      Carried, Belongs, InFlight, My
<1>2. ASSUME NEW r \in Slots, AdministrationNext(r) \/ ProfilesNext(r)
      PROVE  PhotoInv'
  <2>0. StaffInv /\ Len(files) \in Nat
    BY LenProperties DEF PhotoInv
  <2>1. CASE UserCalls(r)
    BY <2>0, <2>1, CallsKeepStaff, CallsKeepPhotos
  <2>2. ASSUME NEW u \in Staff,
               UploadPhoto(r, u) \/ DeletePhoto(r, u) \/ FailUpload(u)
        PROVE  PhotoInv'
    BY <2>0, <2>2, PhotoKeepsStaff, FilesKeepPhotos
  <2>3. ASSUME NEW u \in Staff, DeleteUser(r, u)
        PROVE  PhotoInv'
    BY <2>0, <2>3, DeletionKeepsStaff, DeletionKeepsPhotos
  <2>4. ASSUME NEW u \in Staff,
               \/ \E roles \in RoleLists, isActive \in {"unnamed", "true", "false"}, email \in BOOLEAN :
                     UpdateUserAdmin(r, u, roles, isActive, email)
               \/ \E role \in {Admin, "user"} : UpdateRole(r, u, role)
               \/ \E isActive \in BOOLEAN : ToggleActive(r, u, isActive)
               \/ UpdateProfile(r, u)
        PROVE  PhotoInv'
    BY <2>0, <2>4, ChangesOfUsers, ChangeKeepsStaff, ChangeKeepsPhotos
  <2> QED BY <1>2, <2>1, <2>2, <2>3, <2>4 DEF AdministrationNext, ProfilesNext
<1> QED BY <1>1, <1>2 DEF UsersNext

-----------------------------------------------------------------------------
(* The properties.                                                         *)

\* A save that nobody disturbs leaves a super administrator, and so does a
\* deletion.
LEMMA WritesLeaveAdmins ==
    ASSUME StaffInv, ~Raced, NEW r \in Slots, SaveUser(r) \/ SoftRemove(r),
           WithRole(Admin) # {}
    PROVE  (WithRole(Admin) # {})'
<1> DEFINE u == My(r).user
           row == My(r).row
<1>1. InFlight(r)
  BY DEF SaveUser, SoftRemove, Awaits, InFlight
<1>2. /\ UserPrepared(calls[r].at, My(r))
      /\ UserChecked(calls[r].at, My(r))
  BY <1>1, NotRaced DEF StaffInv
<1>3. staff \in [Staff -> UserRow] /\ u \in Staff
  BY <1>2 DEF StaffInv, UserPrepared
<1>4. PICK w \in Staff : staff[w].live /\ Admin \in staff[w].roles
  BY DEF WithRole
<1>5. CASE SaveUser(r)
  <2>1. /\ row.live
        /\ Demotes(u, row.roles) => ~(WithRole(Admin) \subseteq {u})
    BY <1>2, <1>5 DEF SaveUser, Awaits, UserPrepared, UserChecked, Saving
  <2>2. staff' = [staff EXCEPT ![u] = row]
    BY <1>5 DEF SaveUser
  <2> HIDE DEF u, row
  <2>3. CASE Demotes(u, row.roles)
    <3>1. PICK v \in Staff : v # u /\ staff[v].live /\ Admin \in staff[v].roles
      BY <2>1, <2>3 DEF WithRole
    <3>2. staff'[v] = staff[v]
      BY <2>2, <3>1
    <3> QED BY <3>1, <3>2 DEF WithRole
  <2>4. CASE ~Demotes(u, row.roles)
    <3>1. CASE w = u
      <4>1. staff'[u] = row /\ Admin \in row.roles
        BY <1>3, <1>4, <2>2, <2>4, <3>1 DEF Demotes
      <4> QED BY <1>3, <2>1, <4>1 DEF WithRole
    <3>2. CASE w # u
      <4>1. staff'[w] = staff[w]
        BY <2>2, <3>2
      <4> QED BY <1>4, <4>1 DEF WithRole
    <3> QED BY <3>1, <3>2
  <2> QED BY <2>3, <2>4
<1>6. CASE SoftRemove(r)
  <2>1. Admin \notin staff[u].roles
    BY <1>2, <1>6 DEF SoftRemove, Awaits, UserChecked
  <2>2. w # u /\ staff'[w] = staff[w]
    BY <1>3, <1>4, <1>6, <2>1 DEF SoftRemove
  <2> QED BY <1>4, <2>2 DEF WithRole
<1> QED BY <1>5, <1>6

\* Only two calls write the table of users.
LEMMA WritesOfUsers ==
    ASSUME NEW r \in Slots, AdministrationNext(r) \/ ProfilesNext(r)
    PROVE  SaveUser(r) \/ SoftRemove(r) \/ UNCHANGED staff
<1>1. ASSUME NEW u \in Staff, NEW row, NEW ok, Change(r, u, row, ok)
      PROVE  UNCHANGED staff
  BY <1>1 DEF Change
<1>2. ASSUME NEW u \in Staff, NEW roles, NEW isActive, NEW email,
             UpdateUserAdmin(r, u, roles, isActive, email)
      PROVE  UNCHANGED staff
  BY <1>1, <1>2 DEF UpdateUserAdmin
<1>3. ASSUME NEW u \in Staff,
             \/ \E role \in {Admin, "user"} : UpdateRole(r, u, role)
             \/ \E isActive \in BOOLEAN : ToggleActive(r, u, isActive)
             \/ UpdateProfile(r, u)
      PROVE  UNCHANGED staff
  BY <1>1, <1>3 DEF UpdateRole, ToggleActive, UpdateProfile
<1>4. ASSUME NEW u \in Staff,
             \/ DeleteUser(r, u) \/ UploadPhoto(r, u) \/ DeletePhoto(r, u) \/ FailUpload(u)
      PROVE  UNCHANGED staff
  BY <1>4 DEF DeleteUser, UploadPhoto, DeletePhoto, FailUpload
<1>5. CASE UserCalls(r)
  BY <1>5 DEF UserCalls, FindEmail, CountAdmins, FindForPhoto
<1> QED BY <1>2, <1>3, <1>4, <1>5 DEF AdministrationNext, ProfilesNext

\* The last super administrator is lost only where handlers have overlapped,
\* whoever administers whom, however many users there are and however many
\* handlers: a handler by itself counts before it demotes, and never deletes one
\* who administers.
THEOREM AdministratorsStay == UsersSpec => SomebodyAdministers
<1>1. ASSUME PhotoInv, [UsersNext]_UserVars
      PROVE  [WithRole(Admin) # {} /\ (WithRole(Admin) = {})' => Raced]_UserVars
  <2> SUFFICES ASSUME NEW r \in Slots, AdministrationNext(r) \/ ProfilesNext(r),
                      WithRole(Admin) # {}, ~Raced
               PROVE  (WithRole(Admin) # {})'
    BY <1>1 DEF UsersNext
  <2>1. CASE UNCHANGED staff
    BY <2>1 DEF WithRole
  <2> QED BY <1>1, <2>1, WritesOfUsers, WritesLeaveAdmins DEF PhotoInv
<1>2. UsersSpec => HandlersInit /\ UsersInit /\ [][UsersNext]_UserVars
  BY DEF UsersSpec, UsersNext
<1> QED BY <1>1, <1>2, UsersBegin, UsersStep, PTL DEF SomebodyAdministers

\* Who is about to mend the photo of u still is, while r does not answer for it.
LEMMA MendingStays ==
    ASSUME NEW u, Mending(u), NEW r \in Slots,
           \A s \in Slots : s # r /\ InFlight(s) => calls'[s].at = calls[s].at /\ calls'[s].my = calls[s].my,
           "photo" \in DOMAIN My(r) /\ My(r).user = u /\ InFlight(r) =>
              InFlight(r)' /\ "photo" \in DOMAIN My(r)' /\ My(r)'.user = u
    PROVE  Mending(u)'
BY DEF Mending, InFlight, My

\* A file that is deleted for u is nobody else's photo.
LEMMA OthersKeepPhotos ==
    ASSUME PhotoInv, NEW r \in Slots, NEW u \in Staff,
           UploadPhoto(r, u) \/ DeletePhoto(r, u) \/ FailUpload(u),
           NEW v \in Staff, v # u, LostPhoto(v)'
    PROVE  LostPhoto(v)
<1> DEFINE f == staff[v].photo
<1>1. files \in Seq(BOOLEAN) /\ SlotInv
  BY DEF PhotoInv, StaffInv
<1>2. PICK owner : OwnedBy(owner)
  BY DEF PhotoInv
<1>3. UNCHANGED staff
  BY DEF UploadPhoto, DeletePhoto, FailUpload
<1>4. f # 0 /\ ~files'[f] /\ ~Mending(v)'
  BY <1>3 DEF LostPhoto
<1>5. /\ f \in DOMAIN files
      /\ f # staff[u].photo
  BY <1>2, <1>4 DEF OwnedBy, Belongs
<1>6. \A g \in DOMAIN files : files'[g] <=> files[g] /\ g # staff[u].photo
  <2>1. CASE files' = Without(staff[u].photo)
    BY <1>1, <2>1, FilesWithout
  <2>2. CASE files' = Append(Without(staff[u].photo), TRUE)
    BY <1>1, <2>2, FilesUploaded
  <2> QED BY <2>1, <2>2 DEF UploadPhoto, DeletePhoto, FailUpload
<1>7. ~files[f]
  BY <1>4, <1>5, <1>6
<1>8. ~Mending(v)
  <2> SUFFICES ASSUME Mending(v)
               PROVE  Mending(v)'
    BY <1>4
  <2>1. CASE FailUpload(u)
    <3>1. \A s \in Slots : calls'[s].at = calls[s].at /\ calls'[s].my = calls[s].my
      BY <1>1, <2>1, Overlaps DEF FailUpload
    <3> QED BY <3>1 DEF Mending, InFlight, My
  <2>2. CASE UploadPhoto(r, u) \/ DeletePhoto(r, u)
    <3>1. ~InFlight(r) /\ OthersWait(r)
      BY <1>1, <2>2, Received DEF UploadPhoto, DeletePhoto
    <3> QED BY <3>1, MendingStays DEF OthersWait
  <2> QED BY <2>1, <2>2
<1> QED BY <1>4, <1>7, <1>8 DEF LostPhoto

\* A call that nobody disturbs leaves no photo that leads nowhere, unless it
\* was one before.
LEMMA CallsKeepTheirPhotos ==
    ASSUME PhotoInv, ~Raced, NEW r \in Slots, UserCalls(r), NEW u \in Staff, LostPhoto(u)'
    PROVE  LostPhoto(u)
<1> DEFINE my == My(r)
<1>1. SlotInv /\ InFlight(r)
  BY DEF PhotoInv, StaffInv, UserCalls, FindEmail, CountAdmins, SaveUser, SoftRemove,
         FindForPhoto, Awaits, InFlight
<1>2. \A s \in Slots : InFlight(s) => s = r
  BY <1>1, NotRaced
<1>3. /\ UserPrepared(calls[r].at, my)
      /\ PhotoPrepared(calls[r].at, my)
      /\ PhotoChecked(calls[r].at, my)
  BY <1>1, NotRaced DEF PhotoInv, StaffInv
<1>4. staff \in [Staff -> UserRow] /\ my.user \in Staff
  BY <1>3 DEF PhotoInv, StaffInv, UserPrepared
<1>5. UNCHANGED files
  BY DEF UserCalls, FindEmail, CountAdmins, SaveUser, SoftRemove, FindForPhoto
<1>6. staff'[u].photo # 0 /\ ~files[staff'[u].photo] /\ ~Mending(u)'
  BY <1>5 DEF LostPhoto
<1>7. CASE FindEmail(r) \/ CountAdmins(r) \/ SoftRemove(r)
  <2>1. staff'[u].photo = staff[u].photo
    BY <1>4, <1>7 DEF FindEmail, CountAdmins, SoftRemove, UserRow
  <2>2. "photo" \notin DOMAIN my
    BY <1>3, <1>7 DEF FindEmail, CountAdmins, SoftRemove, Awaits, PhotoPrepared
  <2>3. ~Mending(u)
    BY <1>2, <2>2 DEF Mending
  <2> QED BY <1>6, <2>1, <2>3 DEF LostPhoto
<1>8. CASE SaveUser(r)
  <2>1. staff' = [staff EXCEPT ![my.user] = my.row] /\ calls[r].at = "user.save"
    BY <1>8 DEF SaveUser, Awaits
  <2>2. CASE u # my.user
    <3>1. staff'[u] = staff[u]
      BY <2>1, <2>2
    <3>2. ~Mending(u)
      BY <1>2, <2>2 DEF Mending
    <3> QED BY <1>6, <3>1, <3>2 DEF LostPhoto
  <2>3. CASE u = my.user /\ "photo" \in DOMAIN my
    <3>1. staff'[u].photo = my.photo
      BY <1>3, <1>4, <2>1, <2>3 DEF PhotoPrepared
    <3> QED BY <1>3, <1>6, <2>3, <3>1 DEF PhotoChecked
  <2>4. CASE u = my.user /\ "photo" \notin DOMAIN my
    <3>1. staff'[u].photo = staff[u].photo
      BY <1>3, <1>4, <2>1, <2>4 DEF PhotoChecked, Saving
    <3>2. ~Mending(u)
      BY <1>2, <2>4 DEF Mending
    <3> QED BY <1>6, <3>1, <3>2 DEF LostPhoto
  <2> QED BY <2>2, <2>3, <2>4
<1>9. CASE FindForPhoto(r)
  <2> DEFINE row == [staff[my.user] EXCEPT !.photo = my.photo]
             locals == [user |-> my.user, photo |-> my.photo, row |-> row]
  <2>1. Awaits(r, "photo.find") /\ UNCHANGED staff
    BY <1>9 DEF FindForPhoto
  <2>2. staff[my.user].live
    BY <1>3, <2>1 DEF PhotoChecked, Awaits
  <2>3. Await(r, "user.save", locals)
    BY <1>9, <2>2 DEF FindForPhoto
  <2>4. locals.user = my.user /\ "photo" \in DOMAIN locals
    OBVIOUS
  <2> HIDE DEF row, locals
  <2>5. calls'[r].at = "user.save" /\ calls'[r].my = locals /\ OthersWait(r)
    BY <1>1, <2>3, WentOn
  <2>6. Mending(u) => Mending(u)'
    <3> SUFFICES ASSUME Mending(u)
                 PROVE  Mending(u)'
      OBVIOUS
    <3>1. my.user = u
      BY <1>2 DEF Mending
    <3>2. InFlight(r)' /\ "photo" \in DOMAIN My(r)' /\ My(r)'.user = u
      BY <2>4, <2>5, <3>1 DEF InFlight, My
    <3> QED BY <3>2 DEF Mending
  <2> QED BY <1>6, <2>1, <2>6 DEF LostPhoto
<1> QED BY <1>7, <1>8, <1>9 DEF UserCalls

\* Requests that bring no photo leave the photos and who mends them.
LEMMA RequestsMendOn ==
    ASSUME PhotoInv, NEW r \in Slots, NEW call, call # "free", NEW locals,
           Receive(r, call, locals), UNCHANGED <<staff, files>>, NEW u \in Staff, LostPhoto(u)'
    PROVE  LostPhoto(u)
<1>1. ~InFlight(r) /\ OthersWait(r)
  BY Received DEF PhotoInv, StaffInv
<1>2. Mending(u) => Mending(u)'
  BY <1>1, MendingStays DEF OthersWait
<1> QED BY <1>2 DEF LostPhoto

\* A profile is left with a photo that is not on the disk only by handlers that
\* overlapped, or by an upload that deleted the old file and could not write the
\* new one: for any number of users, photos and handlers.
THEOREM PhotosStay == UsersSpec => PhotosKept
<1>1. ASSUME PhotoInv, [UsersNext]_UserVars
      PROVE  [\A u \in Staff : LostPhoto(u)' => LostPhoto(u) \/ Raced \/ FailUpload(u)]_UserVars
  <2> SUFFICES ASSUME NEW r \in Slots, AdministrationNext(r) \/ ProfilesNext(r),
                      NEW u \in Staff, LostPhoto(u)', ~Raced, ~FailUpload(u)
               PROVE  LostPhoto(u)
    BY <1>1 DEF UsersNext
  <2>0. StaffInv
    BY <1>1 DEF PhotoInv
  <2>1. CASE UserCalls(r)
    BY <1>1, <2>1, CallsKeepTheirPhotos
  <2>2. ASSUME NEW v \in Staff, UploadPhoto(r, v) \/ DeletePhoto(r, v) \/ FailUpload(v)
        PROVE  LostPhoto(u)
    <3>1. CASE v # u
      BY <1>1, <2>2, <3>1, OthersKeepPhotos
    <3>2. CASE v = u /\ ~FailUpload(v)
      <4>1. PICK photo : Receive(r, "photo.find", [user |-> u, photo |-> photo])
        BY <2>2, <3>2 DEF UploadPhoto, DeletePhoto
      <4> DEFINE locals == [user |-> u, photo |-> photo]
      <4>2. locals.user = u /\ "photo" \in DOMAIN locals
        OBVIOUS
      <4> HIDE DEF locals
      <4>3. calls'[r].at = "photo.find" /\ calls'[r].my = locals
        BY <2>0, <4>1, Received DEF StaffInv, locals
      <4>4. Mending(u)'
        BY <4>2, <4>3 DEF Mending, InFlight, My
      <4> QED BY <4>4 DEF LostPhoto
    <3> QED BY <2>2, <3>1, <3>2
  <2>3. ASSUME NEW v \in Staff, DeleteUser(r, v)
        PROVE  LostPhoto(u)
    BY <1>1, <2>3, RequestsMendOn DEF DeleteUser
  <2>4. ASSUME NEW v \in Staff,
               \/ \E roles \in RoleLists, isActive \in {"unnamed", "true", "false"}, email \in BOOLEAN :
                     UpdateUserAdmin(r, v, roles, isActive, email)
               \/ \E role \in {Admin, "user"} : UpdateRole(r, v, role)
               \/ \E isActive \in BOOLEAN : ToggleActive(r, v, isActive)
               \/ UpdateProfile(r, v)
        PROVE  LostPhoto(u)
    <3>1. PICK row, ok : row \in UserRow /\ (Change(r, v, row, ok) \/ EmailFirst(r, v, row, ok))
      BY <2>0, <2>4, ChangesOfUsers
    <3>2. CASE Change(r, v, row, ok)
      <4> DEFINE call == IF Demotes(v, row.roles) THEN "user.count" ELSE "user.save"
      <4>1. Receive(r, call, [user |-> v, row |-> row, ok |-> ok]) /\ UNCHANGED <<staff, files>>
        BY <3>2 DEF Change
      <4>2. call # "free"
        OBVIOUS
      <4> HIDE DEF call
      <4> QED BY <1>1, <4>1, <4>2, RequestsMendOn
    <3>3. CASE EmailFirst(r, v, row, ok)
      BY <1>1, <3>3, RequestsMendOn DEF EmailFirst
    <3> QED BY <3>1, <3>2, <3>3
  <2> QED BY <1>1, <2>1, <2>2, <2>3, <2>4 DEF AdministrationNext, ProfilesNext
<1>2. UsersSpec => HandlersInit /\ UsersInit /\ [][UsersNext]_UserVars
  BY DEF UsersSpec, UsersNext
<1> QED BY <1>1, <1>2, UsersBegin, UsersStep, PTL DEF PhotosKept

-----------------------------------------------------------------------------
(* Settings: what the cache holds of a setting after an undisturbed        *)
(* request.                                                                *)

SettingPlaces == {"setting.found", "setting.save", "setting.told"}

\* What the table holds of a setting that an undisturbed handler is about to
\* put into the cache is what the handler will put there; where it has found
\* nothing to put there, the cache holds nothing either.
Informed(at, my) ==
    /\ at \in {"setting.found", "setting.told"} => settings[my.key] = my.value
    /\ at = "setting.found" => configCache[my.key] = NoSetting

SettingsInv ==
    /\ SlotInv
    /\ DOMAIN settings = Keys /\ DOMAIN configCache = Keys
    /\ \A r \in Slots : InFlight(r) =>
          /\ calls[r].at \in SettingPlaces
          /\ My(r).key \in Keys
          /\ calls[r].alone => Informed(calls[r].at, My(r))

\* A step of one handler.
LEMMA SettingsStep ==
    ASSUME SettingsInv, SlotInv', NEW r \in Slots, OthersWait(r), OthersOverlap(r),
           DOMAIN settings' = Keys, DOMAIN configCache' = Keys,
           InFlight(r)' => calls'[r].at \in SettingPlaces /\ calls'[r].my.key \in Keys,
           InFlight(r)' /\ calls'[r].alone => Informed(calls[r].at, calls[r].my)'
    PROVE  SettingsInv'
BY DEF SettingsInv, OthersWait, OthersOverlap, InFlight, My

\* A request arrives with a key and a value; a creation has inserted them.
LEMMA SettingsReceive ==
    ASSUME SettingsInv, NEW r \in Slots, NEW call \in SettingPlaces, NEW k \in Keys, NEW v,
           Receive(r, call, [key |-> k, value |-> v]), UNCHANGED configCache,
           DOMAIN settings' = Keys,
           call # "setting.save" => settings'[k] = v,
           call = "setting.found" => configCache[k] = NoSetting
    PROVE  SettingsInv'
<1> DEFINE locals == [key |-> k, value |-> v]
<1>1. locals.key = k /\ locals.value = v
  OBVIOUS
<1>2. call # "free" /\ Receive(r, call, locals)
  BY DEF SettingPlaces
<1> HIDE DEF locals
<1>3. /\ SlotInv'
      /\ calls'[r].at = call /\ calls'[r].my = locals
      /\ OthersWait(r) /\ OthersOverlap(r)
  BY <1>2, Received DEF SettingsInv
<1>4. Informed(calls[r].at, calls[r].my)'
  BY <1>1, <1>3 DEF Informed
<1> QED BY <1>1, <1>3, <1>4, SettingsStep DEF SettingsInv

\* Every action is such a step.
LEMMA SettingsActs ==
    ASSUME SettingsInv, NEW r \in Slots,
           \/ \E k \in Keys : GetValue(r, k)
           \/ \E k \in Keys, v \in Choices : UpdateValue(r, k, v) \/ InsertSetting(r, k, v)
           \/ SaveSetting(r)
           \/ SetCache(r)
    PROVE  SettingsInv'
<1>1. ASSUME NEW k \in Keys, GetValue(r, k)
      PROVE  SettingsInv'
  BY <1>1, SettingsReceive DEF GetValue, SettingPlaces, SettingsInv
<1>2. ASSUME NEW k \in Keys, NEW v \in Choices, UpdateValue(r, k, v)
      PROVE  SettingsInv'
  BY <1>2, SettingsReceive DEF UpdateValue, SettingPlaces, SettingsInv
<1>3. ASSUME NEW k \in Keys, NEW v \in Choices, InsertSetting(r, k, v)
      PROVE  SettingsInv'
  <2>1. CASE settings[k] = NoSetting
    <3>1. /\ Receive(r, "setting.told", [key |-> k, value |-> v])
          /\ settings' = [settings EXCEPT ![k] = v] /\ UNCHANGED configCache
      BY <1>3, <2>1 DEF InsertSetting
    <3>2. DOMAIN settings' = Keys /\ settings'[k] = v
      BY <3>1 DEF SettingsInv
    <3> QED BY <3>1, <3>2, SettingsReceive DEF SettingPlaces
  <2>2. CASE settings[k] # NoSetting
    <3>1. AtOnce /\ UNCHANGED <<settings, configCache>>
      BY <1>3, <2>2 DEF InsertSetting
    <3>2. /\ SlotInv'
          /\ \A s \in Slots : /\ calls'[s].at = calls[s].at /\ calls'[s].my = calls[s].my
                              /\ InFlight(s)' => ~calls'[s].alone
      BY <3>1, Overlaps DEF SettingsInv
    <3> QED BY <3>1, <3>2 DEF SettingsInv, InFlight, My
  <2> QED BY <2>1, <2>2
<1>4. CASE SaveSetting(r)
  <2>1. /\ Awaits(r, "setting.save") /\ InFlight(r) /\ AwaitNext(r, "setting.told")
        /\ settings' = [settings EXCEPT ![My(r).key] = My(r).value] /\ UNCHANGED configCache
    BY <1>4 DEF SaveSetting, Awaits, InFlight
  <2>2. /\ SlotInv'
        /\ calls'[r].at = "setting.told" /\ calls'[r].my = My(r)
        /\ OthersWait(r) /\ OthersOverlap(r)
    BY <2>1, WentNext DEF SettingsInv, My
  <2>3. /\ DOMAIN settings' = Keys /\ DOMAIN configCache' = Keys
        /\ settings'[My(r).key] = My(r).value /\ My(r).key \in Keys
    BY <2>1 DEF SettingsInv
  <2>4. Informed(calls[r].at, calls[r].my)'
    BY <2>2, <2>3 DEF Informed
  <2> QED BY <2>2, <2>3, <2>4, SettingsStep DEF SettingPlaces
<1>5. CASE SetCache(r)
  <2>1. /\ InFlight(r) /\ Answer(r) /\ UNCHANGED settings
        /\ configCache' \in {configCache, [configCache EXCEPT ![My(r).key] = My(r).value]}
    BY <1>5 DEF SetCache, InFlight
  <2>2. SlotInv' /\ ~InFlight(r)' /\ OthersWait(r) /\ OthersOverlap(r)
    BY <2>1, Answered DEF SettingsInv
  <2> QED BY <2>1, <2>2, SettingsStep DEF SettingsInv
<1> QED BY <1>1, <1>2, <1>3, <1>4, <1>5

\* The invariant holds at first,
LEMMA SettingsInvInit == HandlersInit /\ SettingsInit => SettingsInv
BY SlotsBegin DEF SettingsInit, Seeding, SettingsInv

\* and every step keeps it.
LEMMA SettingsInvNext ==
    ASSUME SettingsInv, [SettingsNext]_SettingsVars
    PROVE  SettingsInv'
<1>1. CASE UNCHANGED SettingsVars
  BY <1>1, SlotsStay DEF SettingsVars, SettingsInv, Informed, InFlight, My
<1>2. CASE RestartSettings
  <2>1. calls' = [r \in Slots |-> Free]
    BY <1>2 DEF RestartSettings
  <2>2. SlotInv' /\ \A r \in Slots : ~InFlight(r)'
    BY <2>1, SlotsRestart
  <2> QED BY <1>2, <2>2 DEF RestartSettings, Seeding, SettingsInv
<1> QED BY <1>1, <1>2, SettingsActs DEF SettingsNext

\* A setting that is written, created or looked up by a handler that overlaps
\* with nobody is the same in the cache and in the table when the handler
\* answers: for all keys and values, whatever earlier races have left.
THEOREM SettingsStay == SettingsSpec => SettingsAgree
<1>1. ASSUME SettingsInv, [SettingsNext]_SettingsVars
      PROVE  [\A r \in Slots, k \in Keys :
                 calls[r].at \in {"setting.told", "setting.found"} /\ ~InFlight(r)'
                 /\ calls[r].alone /\ My(r).key = k
                 => configCache'[k] = settings'[k]]_SettingsVars
  <2> SUFFICES ASSUME NEW r \in Slots, NEW k \in Keys, SettingsNext,
                      calls[r].at \in {"setting.told", "setting.found"}, ~InFlight(r)',
                      calls[r].alone, My(r).key = k
               PROVE  configCache'[k] = settings'[k]
    BY <1>1
  <2>1. InFlight(r)
    BY DEF InFlight
  <2>2. settings[k] = My(r).value
    BY <1>1, <2>1 DEF SettingsInv, Informed
  <2>3. CASE RestartSettings
    BY <2>3 DEF RestartSettings
  <2>4. CASE SetCache(r)
    <3>1. calls[r].at = "setting.found" => configCache[k] = NoSetting
      BY <1>1, <2>1 DEF SettingsInv, Informed
    <3>2. k \in DOMAIN configCache /\ UNCHANGED settings
      BY <1>1, <2>1, <2>4 DEF SetCache, SettingsInv
    <3>3. CASE RowFound(r)
      <4>1. configCache' = [configCache EXCEPT ![k] = My(r).value]
        BY <2>4, <3>3 DEF SetCache
      <4> QED BY <2>2, <3>2, <4>1
    <3>4. CASE ~RowFound(r)
      <4>1. calls[r].at = "setting.found" /\ My(r).value = NoSetting
        BY <3>4 DEF RowFound
      <4>2. configCache' = configCache
        BY <2>4, <3>4 DEF SetCache
      <4> QED BY <2>2, <3>1, <3>2, <4>1, <4>2
    <3> QED BY <3>3, <3>4
  <2>5. ASSUME NEW s \in Slots, s # r, SettingsInv,
               \/ \E q \in Keys : GetValue(s, q)
               \/ \E q \in Keys, v \in Choices : UpdateValue(s, q, v) \/ InsertSetting(s, q, v)
               \/ SaveSetting(s)
               \/ SetCache(s)
        PROVE  FALSE
    <3>1. CASE AtOnce
      <4>1. calls'[r].at = calls[r].at
        BY <1>1, <3>1, Overlaps DEF SettingsInv
      <4> QED BY <2>1, <4>1 DEF InFlight
    <3>2. CASE \E call, locals : call # "free" /\ Receive(s, call, locals)
      <4>1. OthersWait(s)
        BY <1>1, <3>2, Received DEF SettingsInv
      <4> QED BY <2>1, <2>5, <4>1 DEF OthersWait, InFlight
    <3>3. CASE InFlight(s) /\ (AwaitNext(s, "setting.told") \/ Answer(s))
      <4>1. OthersWait(s)
        BY <1>1, <3>3, WentNext, Answered DEF SettingsInv
      <4> QED BY <2>1, <2>5, <4>1 DEF OthersWait, InFlight
    <3>4. \/ AtOnce
          \/ \E call, locals : call # "free" /\ Receive(s, call, locals)
          \/ InFlight(s) /\ (AwaitNext(s, "setting.told") \/ Answer(s))
      BY <2>5 DEF GetValue, UpdateValue, InsertSetting, SaveSetting, SetCache, Awaits, InFlight
    <3> QED BY <3>1, <3>2, <3>3, <3>4
  <2>6. ASSUME \/ \E q \in Keys : GetValue(r, q)
               \/ \E q \in Keys, v \in Choices : UpdateValue(r, q, v) \/ InsertSetting(r, q, v)
               \/ SaveSetting(r)
        PROVE  FALSE
    BY <1>1, <2>1, <2>6, Overlaps, WentNext
    DEF GetValue, UpdateValue, InsertSetting, SaveSetting, Receive, SettingsInv, InFlight, Awaits
  <2> QED BY <1>1, <2>3, <2>4, <2>5, <2>6 DEF SettingsNext
<1> QED BY <1>1, SettingsInvInit, SettingsInvNext, PTL DEF SettingsSpec, SettingsAgree

-----------------------------------------------------------------------------
(* Translations: the cache after an undisturbed request, however long the  *)
(* list of an import is.                                                   *)

TextValues == Values \cup {Bad, "default"}
TextRow == [place : Places, value : TextValues, system : BOOLEAN, live : BOOLEAN]
TextItem == [place : Places, value : Values \cup {Bad}]

\* Key and language are unique together.
TextsUnique(table) ==
    \A i, j \in DOMAIN table :
        table[i].live /\ table[j].live /\ table[i].place = table[j].place => i = j

LiveAt(table, p) == {i \in DOMAIN table : table[i].live /\ table[i].place = p}

Importing == {"import.find", "import.save"}

\* The local variables that are set before each call; `ids' are the texts there
\* have been.
TextPrepared(at, my, ids) ==
    /\ at \in {"text.insert", "text.check", "text.save", "text.remove", "text.told",
               "texts.find", "texts.told"} \cup Importing
    /\ my.places \subseteq Places
    /\ at \in {"text.insert", "text.check", "text.save", "text.told", "import.save"}
       => my.row \in TextRow /\ my.row.live
    /\ at \in {"text.check", "text.save", "text.remove"} => my.id \in ids
    /\ at = "import.save" => my.id \in ids \cup {0}
    /\ at \in Importing => my.todo \in Seq(TextItem)
    /\ at = "import.find" => my.todo # <<>>
    /\ at = "texts.told" => DOMAIN my.found = Places

\* What a handler that has overlapped with nobody has made of the table and of
\* the cache: the places that it touched hold nothing, or what it is to put there.
TextChecked(at, my) ==
    /\ at = "text.insert" => my.places = {my.row.place}
    /\ at = "text.told" =>
          /\ \E i \in LiveAt(texts, my.row.place) : texts[i].value = my.row.value
          /\ \A p \in my.places \ {my.row.place} : cache[p] = NoText /\ LiveAt(texts, p) = {}
    /\ at = "text.check" => /\ texts[my.id].live /\ texts[my.id].place = my.was
                            /\ my.places = {my.was, my.row.place}
    /\ at = "text.save" =>
          /\ texts[my.id].live
          /\ my.places = {texts[my.id].place, my.row.place}
          /\ texts[my.id].place # my.row.place => cache[texts[my.id].place] = NoText
    /\ at = "text.remove" => /\ texts[my.id].live /\ my.places = {texts[my.id].place}
                             /\ cache[texts[my.id].place] = NoText
    /\ at = "texts.told" => my.found = Cached(texts)

TextTable == texts \in Seq(TextRow) /\ TextsUnique(texts) /\ DOMAIN cache = Places

TextsInv ==
    /\ SlotInv
    /\ TextTable
    /\ \A r \in Slots : InFlight(r) =>
          /\ TextPrepared(calls[r].at, My(r), DOMAIN texts)
          /\ calls[r].alone => TextChecked(calls[r].at, My(r))

-----------------------------------------------------------------------------
\* What the cache holds after a load, of a place with and without a text.
LEMMA CachedText ==
    ASSUME NEW table, TextsUnique(table), NEW p \in Places
    PROVE  /\ \A i \in LiveAt(table, p) : Cached(table)[p] = table[i].value
           /\ LiveAt(table, p) = {} => Cached(table)[p] = NoText
<1>1. ASSUME NEW i \in LiveAt(table, p)
      PROVE  Cached(table)[p] = table[i].value
  <2>1. i \in DOMAIN table /\ table[i].live /\ table[i].place = p
    BY DEF LiveAt
  <2> DEFINE c == CHOOSE j \in DOMAIN table : table[j].live /\ table[j].place = p
  <2>2. c \in DOMAIN table /\ table[c].live /\ table[c].place = p
    BY <2>1
  <2>3. c = i
    BY <2>1, <2>2 DEF TextsUnique
  <2>4. Cached(table)[p] = table[c].value
    BY <2>1 DEF Cached
  <2> QED BY <2>3, <2>4
<1>2. ASSUME LiveAt(table, p) = {}
      PROVE  Cached(table)[p] = NoText
  BY <1>2 DEF LiveAt, Cached
<1> QED BY <1>1, <1>2

\* A row is added, or another one takes the place of a row, where no other row
\* holds its place.
LEMMA TextPlaced ==
    ASSUME NEW table, table \in Seq(TextRow), TextsUnique(table), NEW row \in TextRow, row.live,
           NEW id, NEW next,
           \/ id = Len(table) + 1 /\ next = Append(table, row)
           \/ id \in DOMAIN table /\ next = [table EXCEPT ![id] = row],
           LiveAt(table, row.place) \subseteq {id}
    PROVE  /\ next \in Seq(TextRow) /\ TextsUnique(next)
           /\ DOMAIN table \subseteq DOMAIN next
           /\ id \in LiveAt(next, row.place) /\ next[id].value = row.value
           /\ \A p : LiveAt(next, p) \subseteq LiveAt(table, p) \cup {id}
           /\ \A p : p # row.place => LiveAt(next, p) = LiveAt(table, p) \ {id}
<1>1. /\ next \in Seq(TextRow)
      /\ DOMAIN next = DOMAIN table \cup {id}
      /\ next[id] = row
      /\ \A i \in DOMAIN table : i # id => next[i] = table[i]
  <2>1. CASE id = Len(table) + 1 /\ next = Append(table, row)
    <3>1. /\ next \in Seq(TextRow)
          /\ Len(table) \in Nat /\ DOMAIN table = 1..Len(table)
          /\ DOMAIN next = 1..(Len(table) + 1)
          /\ next[Len(table) + 1] = row
          /\ \A i \in DOMAIN table : next[i] = table[i]
      BY <2>1, Inserted
    <3> QED BY <2>1, <3>1
  <2>2. CASE id \in DOMAIN table /\ next = [table EXCEPT ![id] = row]
    <3>1. \A i \in DOMAIN table : table[i] \in TextRow
      BY ElementOfSeq, LenProperties
    <3>2. /\ DOMAIN next = DOMAIN table /\ next[id] = row
          /\ \A i \in DOMAIN table : i # id => next[i] = table[i]
          /\ next = [i \in DOMAIN table |-> next[i]]
      BY <2>2
    <3>3. \A i \in DOMAIN table : next[i] \in TextRow
      BY <3>1, <3>2
    <3>4. next \in Seq(TextRow)
      BY <3>2, <3>3, Rewritten
    <3> QED BY <2>2, <3>2, <3>4
  <2> QED BY <2>1, <2>2
<1>2. \A p : p # row.place => LiveAt(next, p) = LiveAt(table, p) \ {id}
  BY <1>1 DEF LiveAt
<1>3. id \in LiveAt(next, row.place) /\ \A p : LiveAt(next, p) \subseteq LiveAt(table, p) \cup {id}
  BY <1>1 DEF LiveAt
<1>4. TextsUnique(next)
  <2> SUFFICES ASSUME NEW i \in DOMAIN next, NEW j \in DOMAIN next,
                      next[i].live, next[j].live, next[i].place = next[j].place, i # id
               PROVE  i = j
    BY DEF TextsUnique
  <2>1. i \in DOMAIN table /\ next[i] = table[i] /\ i \notin LiveAt(table, row.place)
    BY <1>1
  <2>2. next[i].place # row.place
    BY <2>1 DEF LiveAt
  <2>3. j \in DOMAIN table /\ next[j] = table[j]
    BY <1>1, <2>2
  <2> QED BY <2>1, <2>3 DEF TextsUnique
<1> QED BY <1>1, <1>2, <1>3, <1>4

-----------------------------------------------------------------------------
\* A step of one handler: the table keeps the texts that the others are about.
LEMMA TextStep ==
    ASSUME TextsInv, NEW r \in Slots, SlotInv', OthersWait(r), OthersOverlap(r),
           TextTable', DOMAIN texts \subseteq DOMAIN texts',
           InFlight(r)' => TextPrepared(calls'[r].at, calls'[r].my, DOMAIN texts'),
           InFlight(r)' /\ calls'[r].alone => TextChecked(calls[r].at, calls[r].my)'
    PROVE  TextsInv'
<1>1. ASSUME NEW s \in Slots, s # r, InFlight(s)'
      PROVE  TextPrepared(calls'[s].at, calls'[s].my, DOMAIN texts') /\ ~calls'[s].alone
  <2>1. InFlight(s) /\ calls'[s].at = calls[s].at /\ calls'[s].my = My(s) /\ ~calls'[s].alone
    BY <1>1 DEF OthersWait, OthersOverlap, InFlight, My
  <2>2. TextPrepared(calls[s].at, My(s), DOMAIN texts)
    BY <2>1 DEF TextsInv
  <2>3. TextPrepared(calls[s].at, My(s), DOMAIN texts')
    BY <2>2 DEF TextPrepared
  <2> QED BY <2>1, <2>3
<1> QED BY <1>1 DEF TextsInv, My

\* A request arrives; it may forget an entry of the cache.
LEMMA TextReceives ==
    ASSUME TextsInv, NEW r \in Slots, NEW call, call # "free", NEW locals,
           Receive(r, call, locals), UNCHANGED texts, DOMAIN cache' = Places,
           TextPrepared(call, locals, DOMAIN texts),
           TextChecked(calls[r].at, calls[r].my)'
    PROVE  TextsInv'
<1>1. /\ SlotInv'
      /\ calls'[r].at = call /\ calls'[r].my = locals
      /\ OthersWait(r) /\ OthersOverlap(r)
  BY Received DEF TextsInv
<1>2. TextTable'
  BY DEF TextsInv, TextTable
<1> QED BY <1>1, <1>2, TextStep

\* A handler goes on without touching the table.
LEMMA TextGoesOn ==
    ASSUME TextsInv, NEW r \in Slots, InFlight(r), NEW call, call # "free", NEW locals,
           \/ Await(r, call, locals)
           \/ AwaitNext(r, call) /\ locals = calls[r].my,
           UNCHANGED texts, DOMAIN cache' = Places,
           TextPrepared(call, locals, DOMAIN texts),
           calls[r].alone => TextChecked(calls[r].at, calls[r].my)'
    PROVE  TextsInv'
<1>1. /\ SlotInv'
      /\ calls'[r].at = call /\ calls'[r].my = locals
      /\ calls'[r].alone = calls[r].alone
      /\ OthersWait(r) /\ OthersOverlap(r)
  BY WentOn, WentNext DEF TextsInv
<1>2. TextTable'
  BY DEF TextsInv, TextTable
<1> QED BY <1>1, <1>2, TextStep

\* A handler answers.
LEMMA TextAnswers ==
    ASSUME TextsInv, NEW r \in Slots, InFlight(r), Answer(r),
           TextTable', DOMAIN texts \subseteq DOMAIN texts'
    PROVE  TextsInv'
<1>1. SlotInv' /\ ~InFlight(r)' /\ OthersWait(r) /\ OthersOverlap(r)
  BY Answered DEF TextsInv
<1> QED BY <1>1, TextStep

-----------------------------------------------------------------------------
\* The requests, one after the other: a creation,
LEMMA TextCreated ==
    ASSUME TextsInv, NEW r \in Slots, NEW p \in Places, NEW v \in Values, NEW system \in BOOLEAN,
           CreateText(r, p, v, system)
    PROVE  TextsInv'
<1> DEFINE row == [place |-> p, value |-> v, system |-> system, live |-> TRUE]
           locals == [places |-> {p}, row |-> row]
<1>1. locals.places = {p} /\ locals.row = row /\ row.place = p /\ row.live /\ row \in TextRow
  BY DEF TextRow, TextValues
<1>2. Receive(r, "text.insert", locals) /\ UNCHANGED <<texts, cache>>
  BY DEF CreateText
<1> HIDE DEF row, locals
<1>3. calls'[r].at = "text.insert" /\ calls'[r].my = locals
  BY <1>2, Received DEF TextsInv
<1>4. TextPrepared("text.insert", locals, DOMAIN texts)
  BY <1>1 DEF TextPrepared, Importing, TextRow
<1>5. TextChecked(calls[r].at, calls[r].my)'
  BY <1>1, <1>3 DEF TextChecked
<1> QED BY <1>2, <1>4, <1>5, TextReceives DEF TextsInv, TextTable

\* an update,
LEMMA TextUpdated ==
    ASSUME TextsInv, NEW r \in Slots, NEW i, NEW row \in TextRow, row.live,
           NEW moves \in BOOLEAN, UpdateText(r, i, row, moves)
    PROVE  TextsInv'
<1> DEFINE call == IF moves THEN "text.check" ELSE "text.save"
           was == texts[i].place
           locals == [places |-> {was, row.place}, id |-> i, row |-> row, was |-> was]
<1>1. /\ locals.places = {was, row.place} /\ locals.id = i
      /\ locals.row = row /\ locals.was = was
  OBVIOUS
<1>2. /\ Receive(r, call, locals) /\ UNCHANGED texts
      /\ i \in DOMAIN texts /\ texts[i].live /\ (~moves => row.place = texts[i].place)
      /\ DOMAIN cache' = Places
  BY DEF UpdateText, Forget, TextsInv, TextTable
<1>3. call # "free" /\ call \in {"text.check", "text.save"}
  OBVIOUS
<1>4. moves => call = "text.check"
  OBVIOUS
<1>5. PICK given, place : given = locals /\ place = was
  OBVIOUS
<1>6. given.places = {place, row.place} /\ given.id = i /\ given.row = row /\ given.was = place
  BY <1>1, <1>5
<1> HIDE DEF call, locals, was
<1>7. calls'[r].at = call /\ calls'[r].my = given /\ Receive(r, call, given)
  BY <1>2, <1>3, <1>5, Received DEF TextsInv
<1>8. TextPrepared(call, given, DOMAIN texts)
  <2>1. texts[i] \in TextRow
    BY <1>2, Ids DEF TextsInv, TextTable
  <2>2. place \in Places /\ row.place \in Places
    BY <1>5, <2>1 DEF TextRow, was
  <2> QED BY <1>2, <1>3, <1>6, <2>2 DEF TextPrepared, Importing
<1>9. texts'[i].place = place /\ texts'[i].live
  BY <1>2, <1>5 DEF was
<1>10. call = "text.save" => row.place = place
  BY <1>2, <1>4, <1>5 DEF was
<1>11. TextChecked(calls[r].at, calls[r].my)'
  BY <1>3, <1>6, <1>7, <1>9, <1>10 DEF TextChecked
<1> QED BY <1>2, <1>3, <1>7, <1>8, <1>11, TextReceives

\* a deletion,
LEMMA TextDeleted ==
    ASSUME TextsInv, NEW r \in Slots, NEW i, DeleteText(r, i)
    PROVE  TextsInv'
<1>1. PICK given : given = [places |-> {texts[i].place}, id |-> i]
  OBVIOUS
<1>2. given.places = {texts[i].place} /\ given.id = i
  BY <1>1
<1>3. /\ Receive(r, "text.remove", given) /\ UNCHANGED texts
      /\ i \in DOMAIN texts /\ texts[i].live
      /\ cache' = [cache EXCEPT ![texts[i].place] = NoText]
  BY <1>1 DEF DeleteText, Forget
<1>4. texts[i].place \in Places
  <2>1. texts[i] \in TextRow
    BY <1>3, Ids DEF TextsInv, TextTable
  <2> QED BY <2>1 DEF TextRow
<1>5. DOMAIN cache' = Places /\ cache'[texts[i].place] = NoText
  BY <1>3, <1>4 DEF TextsInv, TextTable
<1>6. calls'[r].at = "text.remove" /\ calls'[r].my = given
  BY <1>3, Received DEF TextsInv
<1>7. TextPrepared("text.remove", given, DOMAIN texts)
  BY <1>2, <1>3, <1>4 DEF TextPrepared, Importing
<1>8. TextChecked(calls[r].at, calls[r].my)'
  BY <1>2, <1>3, <1>5, <1>6 DEF TextChecked
<1> QED BY <1>3, <1>5, <1>7, <1>8, TextReceives

\* an import,
LEMMA TextImported ==
    ASSUME TextsInv, NEW r \in Slots, NEW items \in Seq(TextItem), items # <<>>,
           ImportTexts(r, items)
    PROVE  TextsInv'
<1>1. PICK given : given = [places |-> Places, todo |-> items]
  OBVIOUS
<1>2. given.todo = items /\ given.places = Places
  BY <1>1
<1>3. Receive(r, "import.find", given) /\ UNCHANGED <<texts, cache>>
  BY <1>1 DEF ImportTexts
<1>4. calls'[r].at = "import.find" /\ calls'[r].my = given
  BY <1>3, Received DEF TextsInv
<1>5. TextPrepared("import.find", given, DOMAIN texts)
  BY <1>2 DEF TextPrepared, Importing
<1>6. TextChecked(calls[r].at, calls[r].my)'
  BY <1>4 DEF TextChecked
<1> QED BY <1>3, <1>5, <1>6, TextReceives DEF TextsInv, TextTable

\* and a reload of the cache.
LEMMA TextReload ==
    ASSUME TextsInv, NEW r \in Slots, ReloadCache(r)
    PROVE  TextsInv'
<1>1. PICK given : given = [places |-> Places]
  OBVIOUS
<1>2. Receive(r, "texts.find", given) /\ UNCHANGED <<texts, cache>>
  BY <1>1 DEF ReloadCache
<1>3. calls'[r].at = "texts.find" /\ calls'[r].my = given
  BY <1>2, Received DEF TextsInv
<1>4. TextPrepared("texts.find", given, DOMAIN texts)
  BY <1>1 DEF TextPrepared, Importing
<1>5. TextChecked(calls[r].at, calls[r].my)'
  BY <1>3 DEF TextChecked
<1> QED BY <1>2, <1>4, <1>5, TextReceives DEF TextsInv, TextTable

-----------------------------------------------------------------------------
\* The row is in the table: the handler is to put it into the cache.
LEMMA TextTold ==
    ASSUME TextsInv, NEW r \in Slots, InFlight(r), AwaitNext(r, "text.told"),
           UNCHANGED cache, NEW id,
           \/ id = Len(texts) + 1 /\ texts' = Append(texts, My(r).row)
           \/ id \in DOMAIN texts /\ texts' = [texts EXCEPT ![id] = My(r).row],
           LiveAt(texts, My(r).row.place) \subseteq {id},
           My(r).row \in TextRow, My(r).row.live,
           calls[r].alone => \A p \in My(r).places \ {My(r).row.place} :
                                 cache[p] = NoText /\ LiveAt(texts, p) \subseteq {id}
    PROVE  TextsInv'
<1>1. PICK my : my = My(r)
  OBVIOUS
<1>2. /\ SlotInv'
      /\ calls'[r].at = "text.told" /\ calls'[r].my = my
      /\ calls'[r].alone = calls[r].alone
      /\ OthersWait(r) /\ OthersOverlap(r)
  BY <1>1, WentNext DEF TextsInv, My
<1>3. texts \in Seq(TextRow) /\ TextsUnique(texts) /\ my.row \in TextRow /\ my.row.live
  BY <1>1 DEF TextsInv, TextTable
<1>4. /\ texts' \in Seq(TextRow) /\ TextsUnique(texts')
      /\ DOMAIN texts \subseteq DOMAIN texts'
      /\ id \in LiveAt(texts', my.row.place) /\ texts'[id].value = my.row.value
      /\ \A p : p # my.row.place => LiveAt(texts', p) = LiveAt(texts, p) \ {id}
  BY <1>1, <1>3, TextPlaced
<1>5. TextTable'
  BY <1>4 DEF TextsInv, TextTable
<1>6. TextPrepared("text.told", my, DOMAIN texts')
  <2>1. my.places \subseteq Places
    BY <1>1 DEF TextsInv, TextPrepared
  <2> QED BY <1>3, <2>1 DEF TextPrepared, Importing
<1>7. calls[r].alone => \A p \in my.places \ {my.row.place} :
                            cache'[p] = NoText /\ LiveAt(texts', p) = {}
  BY <1>1, <1>4
<1>8. calls'[r].alone => TextChecked(calls[r].at, calls[r].my)'
  BY <1>2, <1>4, <1>7 DEF TextChecked
<1> QED BY <1>2, <1>4, <1>5, <1>6, <1>8, TextStep

\* Then the calls: the insertion of a translation,
LEMMA TextInserted ==
    ASSUME TextsInv, NEW r \in Slots, InsertText(r)
    PROVE  TextsInv'
<1>1. InFlight(r) /\ calls[r].at = "text.insert" /\ UNCHANGED cache
  BY DEF InsertText, Awaits, InFlight
<1>2. /\ My(r).row \in TextRow /\ My(r).row.live
      /\ calls[r].alone => My(r).places = {My(r).row.place}
  BY <1>1 DEF TextsInv, TextPrepared, TextChecked, Importing
<1>3. CASE At(My(r).row.place) = {}
  <2>1. texts' = Append(texts, My(r).row) /\ AwaitNext(r, "text.told")
    BY <1>3 DEF InsertText
  <2>2. LiveAt(texts, My(r).row.place) = {}
    BY <1>3 DEF LiveAt, At
  <2>3. calls[r].alone => My(r).places \ {My(r).row.place} = {}
    BY <1>2
  <2>4. PICK id : id = Len(texts) + 1
    OBVIOUS
  <2> QED BY <1>1, <1>2, <2>1, <2>2, <2>3, <2>4, TextTold
<1>4. CASE At(My(r).row.place) # {}
  BY <1>1, <1>4, TextAnswers DEF InsertText, TextsInv, TextTable
<1> QED BY <1>3, <1>4

\* its update,
LEMMA TextSaved ==
    ASSUME TextsInv, NEW r \in Slots, SaveText(r)
    PROVE  TextsInv'
<1>1. InFlight(r) /\ calls[r].at = "text.save" /\ UNCHANGED cache
  BY DEF SaveText, Awaits, InFlight
<1>2. My(r).row \in TextRow /\ My(r).row.live /\ My(r).id \in DOMAIN texts
  BY <1>1 DEF TextsInv, TextPrepared, Importing
<1>3. CASE At(My(r).row.place) \subseteq {My(r).id}
  <2>1. texts' = [texts EXCEPT ![My(r).id] = My(r).row] /\ AwaitNext(r, "text.told")
    BY <1>3 DEF SaveText
  <2>2. LiveAt(texts, My(r).row.place) \subseteq {My(r).id}
    BY <1>3 DEF LiveAt, At
  <2>3. ASSUME calls[r].alone, NEW p \in My(r).places, p # My(r).row.place
        PROVE  cache[p] = NoText /\ LiveAt(texts, p) \subseteq {My(r).id}
    <3>1. TextChecked(calls[r].at, My(r))
      BY <1>1, <2>3 DEF TextsInv
    <3>2. /\ texts[My(r).id].live /\ p = texts[My(r).id].place
          /\ cache[p] = NoText
      BY <1>1, <2>3, <3>1 DEF TextChecked
    <3> QED BY <1>2, <3>2 DEF TextsInv, TextTable, TextsUnique, LiveAt
  <2> QED BY <1>1, <1>2, <2>1, <2>2, <2>3, TextTold
<1>4. CASE ~(At(My(r).row.place) \subseteq {My(r).id})
  BY <1>1, <1>4, TextAnswers DEF SaveText, TextsInv, TextTable
<1> QED BY <1>3, <1>4

\* the check that its new place is empty,
LEMMA TextChecks ==
    ASSUME TextsInv, NEW r \in Slots, CheckText(r)
    PROVE  TextsInv'
<1>1. InFlight(r) /\ calls[r].at = "text.check" /\ UNCHANGED texts
  BY DEF CheckText, Awaits, InFlight
<1>2. /\ My(r).row \in TextRow /\ My(r).row.live /\ My(r).id \in DOMAIN texts
      /\ My(r).places \subseteq Places
  BY <1>1 DEF TextsInv, TextPrepared, Importing
<1>3. CASE At(My(r).row.place) \subseteq {My(r).id}
  <2>1. /\ cache' = [cache EXCEPT ![My(r).was] = NoText] /\ AwaitNext(r, "text.save")
    BY <1>3 DEF CheckText, Forget
  <2>2. PICK my : my = My(r)
    OBVIOUS
  <2>3. calls'[r].at = "text.save" /\ calls'[r].my = my /\ calls'[r].alone = calls[r].alone
    BY <1>1, <2>1, <2>2, WentNext DEF TextsInv, My
  <2>4. DOMAIN cache' = Places
    BY <2>1 DEF TextsInv, TextTable
  <2>5. TextPrepared("text.save", my, DOMAIN texts)
    BY <1>2, <2>2 DEF TextPrepared, Importing
  <2>6. ASSUME calls[r].alone
        PROVE  TextChecked(calls[r].at, calls[r].my)'
    <3>1. /\ texts[my.id].live /\ texts[my.id].place = my.was
          /\ my.places = {my.was, my.row.place}
      BY <1>1, <2>2, <2>6 DEF TextsInv, TextChecked
    <3>2. texts[my.id].place \in Places
      <4>1. texts[my.id] \in TextRow
        BY <1>2, <2>2, Ids DEF TextsInv, TextTable
      <4> QED BY <4>1 DEF TextRow
    <3>3. cache'[my.was] = NoText
      BY <2>1, <2>2, <3>1, <3>2 DEF TextsInv, TextTable
    <3>4. texts'[my.id] = texts[my.id]
      BY <1>1
    <3> QED BY <2>3, <3>1, <3>3, <3>4 DEF TextChecked
  <2>7. my = calls[r].my
    BY <2>2 DEF My
  <2> QED BY <1>1, <2>1, <2>4, <2>5, <2>6, <2>7, TextGoesOn
<1>4. CASE ~(At(My(r).row.place) \subseteq {My(r).id})
  BY <1>1, <1>4, TextAnswers DEF CheckText, TextsInv, TextTable
<1> QED BY <1>3, <1>4

\* the two that write to the cache,
LEMMA TextTells ==
    ASSUME TextsInv, NEW r \in Slots, TellText(r) \/ LoadTexts(r)
    PROVE  TextsInv'
<1>1. InFlight(r) /\ Answer(r) /\ UNCHANGED texts
  BY DEF TellText, LoadTexts, Awaits, InFlight
<1>2. DOMAIN cache' = Places
  <2>1. CASE TellText(r)
    BY <2>1 DEF TellText, TextsInv, TextTable
  <2>2. CASE LoadTexts(r)
    BY <1>1, <2>2 DEF LoadTexts, Awaits, TextsInv, TextPrepared
  <2> QED BY <2>1, <2>2
<1> QED BY <1>1, <1>2, TextAnswers DEF TextsInv, TextTable

\* the deletion, which leaves only the others of its place,
LEMMA TextRemoved ==
    ASSUME TextsInv, NEW r \in Slots, RemoveText(r)
    PROVE  TextsInv' /\ LiveAt(texts', texts[My(r).id].place) = LiveAt(texts, texts[My(r).id].place) \ {My(r).id}
<1>1. /\ InFlight(r) /\ calls[r].at = "text.remove" /\ Answer(r) /\ UNCHANGED cache
      /\ texts' = [texts EXCEPT ![My(r).id].live = FALSE]
  BY DEF RemoveText, Awaits, InFlight
<1>2. My(r).id \in DOMAIN texts
  BY <1>1 DEF TextsInv, TextPrepared
<1>3. \A i \in DOMAIN texts : texts[i] \in TextRow
  BY Ids DEF TextsInv, TextTable
<1>4. /\ texts' = [i \in DOMAIN texts |-> texts'[i]]
      /\ \A i \in DOMAIN texts : i # My(r).id => texts'[i] = texts[i]
      /\ texts'[My(r).id] = [texts[My(r).id] EXCEPT !.live = FALSE]
  BY <1>1, <1>2
<1>5. texts'[My(r).id] \in TextRow /\ ~texts'[My(r).id].live
  BY <1>2, <1>3, <1>4 DEF TextRow
<1>6. \A i \in DOMAIN texts : texts'[i] \in TextRow
  BY <1>3, <1>4, <1>5
<1>7. texts' \in Seq(TextRow) /\ DOMAIN texts' = DOMAIN texts
  BY <1>4, <1>6, Rewritten DEF TextsInv, TextTable
<1>8. TextsUnique(texts')
  BY <1>4, <1>5, <1>7 DEF TextsInv, TextTable, TextsUnique
<1>9. \A p : LiveAt(texts', p) = LiveAt(texts, p) \ {My(r).id}
  BY <1>4, <1>5, <1>7 DEF LiveAt
<1> QED BY <1>1, <1>7, <1>8, <1>9, TextAnswers DEF TextsInv, TextTable

\* The row of a default text, and of an imported one.
LEMMA SeedRow ==
    ASSUME NEW p \in Places
    PROVE  /\ SeedText(p) \in TextRow /\ SeedText(p).place = p /\ SeedText(p).live
           /\ [SeedText(p) EXCEPT !.system = FALSE] \in TextRow
           /\ [SeedText(p) EXCEPT !.system = FALSE].live
<1>1. "default" \in TextValues
  BY DEF TextValues
<1>2. SeedText(p) \in TextRow
  BY <1>1 DEF SeedText, TextRow
<1>3. SeedText(p).place = p /\ SeedText(p).live
  BY DEF SeedText
<1> QED BY <1>2, <1>3 DEF TextRow

\* The item that is next finds its text, or a new row for it.
LEMMA TextFound ==
    ASSUME TextsInv, NEW r \in Slots, FindImported(r)
    PROVE  TextsInv'
<1> DEFINE item == Head(My(r).todo)
           found == At(item.place)
           id == IF found = {} THEN 0 ELSE CHOOSE i \in found : TRUE
           row == IF id = 0 THEN [SeedText(item.place) EXCEPT !.system = FALSE] ELSE texts[id]
           written == [row EXCEPT !.value = item.value]
           locals == [places |-> Places, todo |-> Tail(My(r).todo), id |-> id, row |-> written]
<1>1. /\ InFlight(r) /\ calls[r].at = "import.find"
      /\ Await(r, "import.save", locals) /\ UNCHANGED <<texts, cache>>
  BY DEF FindImported, Awaits, InFlight
<1>2. My(r).todo \in Seq(TextItem) /\ My(r).todo # <<>>
  BY <1>1 DEF TextsInv, TextPrepared, Importing
<1>3. item \in TextItem /\ Tail(My(r).todo) \in Seq(TextItem)
  BY <1>2, HeadTailProperties
<1>4. /\ locals.todo = Tail(My(r).todo) /\ locals.id = id /\ locals.row = written
      /\ locals.places = Places
  OBVIOUS
<1>5. id \in found \cup {0}
  OBVIOUS
<1>6. id # 0 => id \in found
  OBVIOUS
<1> HIDE DEF locals, item
<1>7. row \in TextRow /\ row.live
  <2>1. CASE id = 0
    <3>1. item.place \in Places /\ row = [SeedText(item.place) EXCEPT !.system = FALSE]
      BY <1>3, <2>1 DEF TextItem
    <3> QED BY <3>1, SeedRow
  <2>2. CASE id # 0
    <3>1. id \in DOMAIN texts /\ texts[id].live
      BY <1>6, <2>2 DEF At
    <3>2. texts[id] \in TextRow
      BY <3>1, Ids DEF TextsInv, TextTable
    <3>3. row = texts[id]
      BY <2>2
    <3> QED BY <3>1, <3>2, <3>3
  <2> QED BY <2>1, <2>2
<1> HIDE DEF row
<1>8. written \in TextRow /\ written.live
  BY <1>3, <1>7 DEF TextRow, TextItem, TextValues
<1>9. id \in DOMAIN texts \cup {0}
  BY <1>5 DEF At
<1> HIDE DEF written, id, found
<1>10. PICK given : given = locals
  OBVIOUS
<1>11. TextPrepared("import.save", given, DOMAIN texts)
  BY <1>3, <1>4, <1>8, <1>9, <1>10 DEF TextPrepared, Importing
<1>12. calls'[r].at = "import.save"
  BY <1>1, WentOn DEF TextsInv
<1>13. TextChecked(calls[r].at, calls[r].my)'
  BY <1>12 DEF TextChecked
<1> QED BY <1>1, <1>10, <1>11, <1>13, TextGoesOn DEF TextsInv, TextTable

\* the update of an imported translation,
LEMMA TextImportSaved ==
    ASSUME TextsInv, NEW r \in Slots, SaveImported(r)
    PROVE  TextsInv'
<1>1. InFlight(r) /\ calls[r].at = "import.save" /\ UNCHANGED cache
  BY DEF SaveImported, Awaits, InFlight
<1>2. /\ My(r).row \in TextRow /\ My(r).row.live /\ My(r).id \in DOMAIN texts \cup {0}
      /\ My(r).todo \in Seq(TextItem)
  BY <1>1 DEF TextsInv, TextPrepared, Importing
<1> DEFINE refused == My(r).row.value = Bad \/ ~(At(My(r).row.place) \subseteq {My(r).id})
           call == IF My(r).todo = <<>> THEN "texts.find" ELSE "import.find"
<1>3. CASE refused
  BY <1>1, <1>3, TextAnswers DEF SaveImported, TextsInv, TextTable
<1>4. CASE ~refused
  <2>1. PICK given : given = [places |-> Places, todo |-> My(r).todo]
    OBVIOUS
  <2>2. given.todo = My(r).todo /\ given.places = Places
    BY <2>1
  <2>3. /\ texts' = IF My(r).id = 0 THEN Append(texts, My(r).row)
                                    ELSE [texts EXCEPT ![My(r).id] = My(r).row]
        /\ Await(r, call, given)
    BY <1>4, <2>1 DEF SaveImported
  <2>4. LiveAt(texts, My(r).row.place) \subseteq {My(r).id}
    BY <1>4 DEF LiveAt, At
  <2> HIDE DEF refused
  <2>5. DOMAIN texts = 1..Len(texts) /\ Len(texts) \in Nat
    BY Ids DEF TextsInv, TextTable
  <2>6. texts' \in Seq(TextRow) /\ TextsUnique(texts') /\ DOMAIN texts \subseteq DOMAIN texts'
    <3>1. texts \in Seq(TextRow) /\ TextsUnique(texts)
      BY DEF TextsInv, TextTable
    <3>2. CASE My(r).id = 0
      <4>1. LiveAt(texts, My(r).row.place) = {}
        BY <2>4, <2>5, <3>2 DEF LiveAt
      <4>2. PICK id, row : id = Len(texts) + 1 /\ row = My(r).row
        OBVIOUS
      <4>3. /\ row \in TextRow /\ row.live
            /\ LiveAt(texts, row.place) \subseteq {id}
        BY <1>2, <3>2, <4>1, <4>2
      <4>4. \/ id = Len(texts) + 1 /\ texts' = Append(texts, row)
            \/ id \in DOMAIN texts /\ texts' = [texts EXCEPT ![id] = row]
        BY <2>3, <3>2, <4>2
      <4>5. PICK next : next = texts'
        OBVIOUS
      <4>6. next \in Seq(TextRow) /\ TextsUnique(next) /\ DOMAIN texts \subseteq DOMAIN next
        BY <3>1, <4>3, <4>4, <4>5, TextPlaced
      <4> QED BY <4>5, <4>6
    <3>3. CASE My(r).id # 0
      <4>1. PICK id, row : id = My(r).id /\ row = My(r).row
        OBVIOUS
      <4>2. /\ row \in TextRow /\ row.live /\ texts' = [texts EXCEPT ![id] = row]
            /\ LiveAt(texts, row.place) \subseteq {id} /\ id \in DOMAIN texts
        BY <1>2, <2>3, <2>4, <3>3, <4>1
      <4> QED BY <3>1, <4>2, TextPlaced
    <3> QED BY <3>2, <3>3
  <2>7. TextTable'
    BY <1>1, <2>6 DEF TextsInv, TextTable
  <2>8. call # "free" /\ call \in {"texts.find", "import.find"}
        /\ (call = "import.find" => My(r).todo # <<>>)
    OBVIOUS
  <2> HIDE DEF call
  <2>9. /\ SlotInv'
        /\ calls'[r].at = call /\ calls'[r].my = given
        /\ OthersWait(r) /\ OthersOverlap(r)
    BY <1>1, <2>3, <2>8, WentOn DEF TextsInv
  <2>10. TextPrepared(call, given, DOMAIN texts')
    BY <1>2, <2>2, <2>8 DEF TextPrepared, Importing
  <2>11. TextChecked(calls[r].at, calls[r].my)'
    BY <2>8, <2>9 DEF TextChecked
  <2> QED BY <2>6, <2>7, <2>9, <2>10, <2>11, TextStep
<1> QED BY <1>3, <1>4

\* and the query for all of them.
LEMMA TextsRead ==
    ASSUME TextsInv, NEW r \in Slots, ReadTexts(r)
    PROVE  TextsInv'
<1>1. PICK given : given = [places |-> Places, found |-> Cached(texts)]
  OBVIOUS
<1>2. given.found = Cached(texts) /\ given.places = Places
  BY <1>1
<1>3. /\ InFlight(r) /\ Await(r, "texts.told", given) /\ UNCHANGED <<texts, cache>>
  BY <1>1 DEF ReadTexts, Awaits, InFlight
<1>4. calls'[r].at = "texts.told" /\ calls'[r].my = given
  BY <1>3, WentOn DEF TextsInv
<1>5. TextPrepared("texts.told", given, DOMAIN texts)
  BY <1>2 DEF TextPrepared, Importing, Cached
<1>6. TextChecked(calls[r].at, calls[r].my)'
  BY <1>2, <1>3, <1>4 DEF TextChecked
<1> QED BY <1>3, <1>5, <1>6, TextGoesOn DEF TextsInv, TextTable

-----------------------------------------------------------------------------
\* The texts that are inserted for the places that miss theirs, in some order.
SeedsOf(missing, order, seeds) ==
    /\ order \in [1..Cardinality(missing) -> missing]
    /\ \A p \in missing : \E i \in DOMAIN order : order[i] = p
    /\ seeds = [i \in DOMAIN order |-> SeedText(order[i])]

\* Each place gets one.
LEMMA TextsSeeded ==
    ASSUME NEW missing, missing \subseteq Places, IsFiniteSet(missing),
           NEW order, NEW seeds, SeedsOf(missing, order, seeds)
    PROVE  /\ seeds \in Seq(TextRow) /\ Len(seeds) \in Nat /\ DOMAIN seeds = 1..Len(seeds)
           /\ \A i \in DOMAIN seeds : seeds[i].place \in missing
           /\ \A i, j \in DOMAIN seeds : seeds[i].place = seeds[j].place => i = j
<1> DEFINE n == Cardinality(missing)
<1>1. n \in Nat
  BY FS_CardinalityType
<1>2. DOMAIN order = 1..n /\ \A i \in 1..n : order[i] \in missing
  BY DEF SeedsOf
<1>3. IsFiniteSet(1..n) /\ Cardinality(1..n) = n
  <2> HIDE DEF n
  <2>1. 1 \in Int /\ n \in Int /\ n - 1 + 1 = n /\ (1 > n => n = 0)
    BY <1>1
  <2> QED BY <2>1, FS_Interval
<1>4. \A i, j \in 1..n : order[i] = order[j] => i = j
  <2>1. order \in Surjection(1..n, missing)
    BY <1>2 DEF Surjection, SeedsOf
  <2>2. order \in Injection(1..n, missing)
    BY <1>3, <2>1, FS_SurjSameCardinalityImpliesInj
  <2> QED BY <1>2, <2>2 DEF Injection, IsInjective
<1> HIDE DEF n
<1>5. DOMAIN seeds = 1..n /\ \A i \in 1..n : seeds[i] = SeedText(order[i])
  BY <1>2 DEF SeedsOf
<1>6. \A p \in Places : SeedText(p) \in TextRow /\ SeedText(p).place = p
  BY SeedRow
<1>7. seeds \in [1..n -> TextRow]
  BY <1>2, <1>5, <1>6 DEF SeedsOf
<1>8. seeds \in Seq(TextRow) /\ DOMAIN seeds = 1..n
  <2>1. \A k \in Nat : [1..k -> TextRow] \subseteq Seq(TextRow)
    BY SeqDef
  <2> QED BY <1>1, <1>7, <2>1
<1>9. Len(seeds) = n
  BY <1>1, <1>8, LenProperties
<1> QED BY <1>1, <1>2, <1>4, <1>5, <1>6, <1>8, <1>9

\* The invariant holds at first,
LEMMA TextsInvInit == HandlersInit /\ TextsInit => TextsInv
<1> SUFFICES ASSUME HandlersInit, TextsInit PROVE TextsInv
  OBVIOUS
<1>1. PICK order \in [1..Cardinality(Seeded) -> Seeded] :
         /\ \A p \in Seeded : \E i \in DOMAIN order : order[i] = p
         /\ texts = [i \in DOMAIN order |-> SeedText(order[i])]
  BY DEF TextsInit
<1>2. Seeded \subseteq Places /\ IsFiniteSet(Seeded)
  BY TextsAssumption
<1>3. texts \in Seq(TextRow) /\ \A i, j \in DOMAIN texts : texts[i].place = texts[j].place => i = j
  <2>1. IsFiniteSet(Seeded) /\ Seeded \subseteq Places
    BY <1>2
  <2>2. PICK seeds : seeds = [i \in DOMAIN order |-> SeedText(order[i])]
    OBVIOUS
  <2>3. /\ seeds \in Seq(TextRow)
        /\ \A i, j \in DOMAIN seeds : seeds[i].place = seeds[j].place => i = j
    <3>1. SeedsOf(Seeded, order, seeds)
      BY <1>1, <2>2 DEF SeedsOf
    <3> QED BY <2>1, <3>1, TextsSeeded
  <2> QED BY <1>1, <2>2, <2>3
<1> QED BY <1>3, SlotsBegin DEF TextsInit, TextsInv, TextTable, TextsUnique

\* A restart resets texts in place and inserts those that are missing.
LEMMA TextsRestart ==
    ASSUME TextsInv, RestartTexts
    PROVE  TextsInv' /\ cache' = Cached(texts') /\ \A r \in Slots : ~InFlight(r)'
<1> DEFINE missing == {p \in Seeded : At(p) = {}}
           kept == [i \in DOMAIN texts |->
                       IF texts[i].system /\ texts[i].place \in Seeded
                       THEN [texts[i] EXCEPT !.value = "default"] ELSE texts[i]]
<1>1. calls' = [r \in Slots |-> Free] /\ cache' = Cached(texts')
  BY DEF RestartTexts
<1>2. SlotInv' /\ \A r \in Slots : ~InFlight(r)'
  BY <1>1, SlotsRestart
<1>3. PICK order \in [1..Cardinality(missing) -> missing] :
         /\ \A p \in missing : \E i \in DOMAIN order : order[i] = p
         /\ texts' = kept \o [i \in DOMAIN order |-> SeedText(order[i])]
  BY DEF RestartTexts
<1>4. PICK seeds : seeds = [i \in DOMAIN order |-> SeedText(order[i])]
  OBVIOUS
<1>5. missing \subseteq Places /\ IsFiniteSet(missing)
  BY TextsAssumption, FS_Subset
<1>6. \A p \in missing, i \in DOMAIN texts : texts[i].live => texts[i].place # p
  BY DEF At
<1>7. /\ DOMAIN kept = DOMAIN texts
      /\ \A i \in DOMAIN texts : /\ kept[i] \in TextRow
                                 /\ kept[i].live = texts[i].live
                                 /\ kept[i].place = texts[i].place
  <2>1. \A i \in DOMAIN texts : texts[i] \in TextRow
    BY Ids DEF TextsInv, TextTable
  <2>2. \A i \in DOMAIN texts : kept[i] = texts[i] \/ kept[i] = [texts[i] EXCEPT !.value = "default"]
    OBVIOUS
  <2>3. DOMAIN kept = DOMAIN texts
    OBVIOUS
  <2> HIDE DEF kept
  <2>4. "default" \in TextValues
    BY DEF TextValues
  <2> QED BY <2>1, <2>2, <2>3, <2>4 DEF TextRow
<1>8. kept = [i \in DOMAIN texts |-> kept[i]]
  OBVIOUS
<1> HIDE DEF missing
<1>9. /\ seeds \in Seq(TextRow) /\ Len(seeds) \in Nat /\ DOMAIN seeds = 1..Len(seeds)
      /\ \A i \in DOMAIN seeds : seeds[i].place \in missing
      /\ \A i, j \in DOMAIN seeds : seeds[i].place = seeds[j].place => i = j
  <2>1. SeedsOf(missing, order, seeds)
    BY <1>3, <1>4 DEF SeedsOf
  <2> QED BY <1>5, <2>1, TextsSeeded
<1>10. texts' = kept \o seeds
  BY <1>3, <1>4
<1> HIDE DEF kept
<1>11. kept \in Seq(TextRow) /\ Len(kept) = Len(texts) /\ Len(texts) \in Nat
       /\ DOMAIN texts = 1..Len(texts)
  BY <1>7, <1>8, Rewritten, Ids DEF TextsInv, TextTable
<1>12. PICK next : next = texts'
  OBVIOUS
<1>13. /\ next \in Seq(TextRow)
       /\ Len(next) = Len(texts) + Len(seeds)
       /\ \A i \in 1..(Len(texts) + Len(seeds)) :
             next[i] = IF i <= Len(texts) THEN kept[i] ELSE seeds[i - Len(texts)]
  BY <1>9, <1>10, <1>11, <1>12, ConcatProperties
<1>14. DOMAIN next = 1..(Len(texts) + Len(seeds))
  BY <1>13, Ids
<1>15. \A i \in DOMAIN next : \/ i \in DOMAIN texts /\ next[i] = kept[i]
                              \/ /\ i - Len(texts) \in DOMAIN seeds
                                 /\ i \notin DOMAIN texts
                                 /\ next[i] = seeds[i - Len(texts)]
  BY <1>9, <1>11, <1>13, <1>14
<1>16. TextsUnique(next)
  <2> SUFFICES ASSUME NEW i \in DOMAIN next, NEW j \in DOMAIN next,
                      next[i].live, next[j].live, next[i].place = next[j].place
               PROVE  i = j
    BY DEF TextsUnique
  <2>1. CASE i \in DOMAIN texts /\ j \in DOMAIN texts
    <3>1. next[i] = kept[i] /\ next[j] = kept[j]
      BY <1>15, <2>1
    <3>2. texts[i].live /\ texts[j].live /\ texts[i].place = texts[j].place
      BY <1>7, <2>1, <3>1
    <3> QED BY <2>1, <3>2 DEF TextsInv, TextTable, TextsUnique
  <2>2. CASE i \in DOMAIN texts /\ j \notin DOMAIN texts
    <3>1. next[i] = kept[i] /\ next[j].place \in missing
      BY <1>9, <1>15, <2>2
    <3> QED BY <1>6, <1>7, <2>2, <3>1 DEF missing
  <2>3. CASE i \notin DOMAIN texts /\ j \in DOMAIN texts
    <3>1. next[j] = kept[j] /\ next[i].place \in missing
      BY <1>9, <1>15, <2>3
    <3> QED BY <1>6, <1>7, <2>3, <3>1 DEF missing
  <2>4. CASE i \notin DOMAIN texts /\ j \notin DOMAIN texts
    <3>1. /\ i - Len(texts) \in DOMAIN seeds /\ next[i] = seeds[i - Len(texts)]
          /\ j - Len(texts) \in DOMAIN seeds /\ next[j] = seeds[j - Len(texts)]
      BY <1>15, <2>4
    <3>2. i - Len(texts) = j - Len(texts)
      BY <1>9, <3>1
    <3> QED BY <1>9, <1>11, <1>14, <3>2
  <2> QED BY <2>1, <2>2, <2>3, <2>4
<1>17. TextTable'
  BY <1>1, <1>12, <1>13, <1>16 DEF TextTable, Cached
<1> QED BY <1>1, <1>2, <1>17 DEF TextsInv

\* Every step of the translations is of one of these kinds.
LEMMA TextSteps ==
    ASSUME TextsNext
    PROVE  \/ RestartTexts
           \/ \E r \in Slots : TextCalls(r)
           \/ \E r \in Slots, p \in Places, v \in Values, system \in BOOLEAN : CreateText(r, p, v, system)
           \/ \E r \in Slots, i \in DOMAIN texts, moves \in BOOLEAN, row \in TextRow :
                 row.live /\ UpdateText(r, i, row, moves)
           \/ \E r \in Slots, i \in DOMAIN texts : DeleteText(r, i)
           \/ \E r \in Slots, items \in Seq(TextItem) : items # <<>> /\ ImportTexts(r, items)
           \/ \E r \in Slots : ReloadCache(r)
<1>1. ASSUME NEW r \in Slots, NEW p \in Places, NEW v \in Values, NEW system \in BOOLEAN,
             NEW i \in DOMAIN texts, NEW moves \in BOOLEAN,
             UpdateText(r, i, [place |-> p, value |-> v, system |-> system, live |-> TRUE], moves)
      PROVE  \E row \in TextRow : row.live /\ UpdateText(r, i, row, moves)
  <2>1. PICK row : row = [place |-> p, value |-> v, system |-> system, live |-> TRUE]
    OBVIOUS
  <2>2. row \in TextRow /\ row.live
    BY <2>1 DEF TextRow, TextValues
  <2> QED BY <1>1, <2>1, <2>2
<1>2. ASSUME NEW r \in Slots, NEW items \in Imports, ImportTexts(r, items)
      PROVE  items \in Seq(TextItem) /\ items # <<>>
  BY TextsAssumption DEF TextItem
<1>3. CASE RestartTexts
  BY <1>3
<1>4. CASE ~RestartTexts
  <2>1. PICK r \in Slots :
          \/ \E p \in Places, v \in Values, system \in BOOLEAN :
                \/ CreateText(r, p, v, system)
                \/ \E i \in DOMAIN texts, moves \in BOOLEAN :
                      UpdateText(r, i, [place |-> p, value |-> v, system |-> system, live |-> TRUE], moves)
          \/ \E i \in DOMAIN texts : DeleteText(r, i)
          \/ \E items \in Imports : ImportTexts(r, items)
          \/ ReloadCache(r)
          \/ TextCalls(r)
    BY <1>4 DEF TextsNext
  <2>2. CASE \E p \in Places, v \in Values, system \in BOOLEAN, i \in DOMAIN texts, moves \in BOOLEAN :
                UpdateText(r, i, [place |-> p, value |-> v, system |-> system, live |-> TRUE], moves)
    BY <1>1, <2>2
  <2>3. CASE \E items \in Imports : ImportTexts(r, items)
    BY <1>2, <2>3
  <2> QED BY <2>1, <2>2, <2>3
<1> QED BY <1>3, <1>4

\* and every step keeps it.
LEMMA TextsInvNext ==
    ASSUME TextsInv, [TextsNext]_TextVars
    PROVE  TextsInv'
<1>1. CASE UNCHANGED TextVars
  <2>1. SlotInv'
    BY <1>1, SlotsStay DEF TextVars, TextsInv
  <2>2. \A r \in Slots : TextChecked(calls[r].at, My(r)) => TextChecked(calls[r].at, My(r))'
    BY <1>1 DEF TextVars, TextChecked, My
  <2> QED BY <1>1, <2>1, <2>2 DEF TextVars, TextsInv, TextTable, InFlight, My
<1>2. ASSUME NEW r \in Slots, TextCalls(r)
      PROVE  TextsInv'
  BY <1>2, TextInserted, TextChecks, TextSaved, TextTells, TextRemoved, TextFound,
     TextImportSaved, TextsRead DEF TextCalls
<1> QED BY <1>1, <1>2, TextSteps, TextsRestart, TextCreated, TextUpdated, TextDeleted,
           TextImported, TextReload

\* A handler that ends in a step is the one that takes it, unless a restart
\* ends them all.
LEMMA TextEnds ==
    ASSUME TextsInv, TextsNext, NEW r \in Slots, InFlight(r), ~InFlight(r)'
    PROVE  RestartTexts \/ TextCalls(r)
<1>1. ASSUME NEW s \in Slots, NEW call, call # "free", NEW locals, Receive(s, call, locals)
      PROVE  FALSE
  BY <1>1, Received DEF TextsInv, OthersWait, InFlight
<1>2. ASSUME NEW s \in Slots, TextCalls(s)
      PROVE  s = r
  <2>1. InFlight(s)
    BY <1>2 DEF TextCalls, InsertText, CheckText, SaveText, TellText, RemoveText, FindImported,
                SaveImported, ReadTexts, LoadTexts, Awaits, InFlight
  <2>2. \/ Answer(s)
        \/ \E call, locals : call # "free" /\ (Await(s, call, locals) \/ AwaitNext(s, call))
    BY <1>2 DEF TextCalls, InsertText, CheckText, SaveText, TellText, RemoveText, FindImported,
                SaveImported, ReadTexts, LoadTexts
  <2>3. OthersWait(s)
    BY <2>1, <2>2, Answered, WentOn, WentNext DEF TextsInv
  <2> QED BY <2>3 DEF OthersWait, InFlight
<1>3. ASSUME NEW s \in Slots, NEW i, NEW row, NEW moves \in BOOLEAN, UpdateText(s, i, row, moves)
      PROVE  FALSE
  BY <1>1, <1>3 DEF UpdateText
<1>4. ASSUME NEW s \in Slots, \/ \E p, v, system : CreateText(s, p, v, system)
                              \/ \E i : DeleteText(s, i)
                              \/ \E items : ImportTexts(s, items)
                              \/ ReloadCache(s)
      PROVE  FALSE
  BY <1>1, <1>4 DEF CreateText, DeleteText, ImportTexts, ReloadCache
<1> QED BY <1>2, <1>3, <1>4, TextSteps

\* A request for a translation that overlaps with nobody leaves the cache as
\* the table says for every key and language that it touched, and an import or
\* a reload for all of them: for all texts, lists of items and handlers.
THEOREM TextsStay == TextsSpec => TextsAgree
<1>1. ASSUME TextsInv, [TextsNext]_TextVars
      PROVE  [\A r \in Slots :
                 /\ calls[r].at \in {"text.told", "text.remove", "texts.told"}
                 /\ calls[r].alone /\ ~InFlight(r)'
                 => \A p \in My(r).places : cache'[p] = Cached(texts')[p]]_TextVars
  <2> SUFFICES ASSUME NEW r \in Slots, TextsNext,
                      calls[r].at \in {"text.told", "text.remove", "texts.told"},
                      calls[r].alone, ~InFlight(r)', NEW p \in My(r).places
               PROVE  cache'[p] = Cached(texts')[p]
    BY <1>1
  <2>1. /\ InFlight(r) /\ TextChecked(calls[r].at, My(r))
        /\ TextPrepared(calls[r].at, My(r), DOMAIN texts) /\ p \in Places
    BY <1>1 DEF InFlight, TextsInv, TextPrepared
  <2>2. TextsInv'
    BY <1>1, TextsInvNext
  <2>3. TextsUnique(texts) /\ TextsUnique(texts') /\ DOMAIN cache = Places
    BY <1>1, <2>2 DEF TextsInv, TextTable
  <2>4. CASE RestartTexts
    BY <1>1, <2>4, TextsRestart
  <2>5. CASE TellText(r)
    <3>1. /\ calls[r].at = "text.told" /\ UNCHANGED texts
          /\ cache' = [cache EXCEPT ![My(r).row.place] = My(r).row.value]
      BY <2>5 DEF TellText, Awaits
    <3>2. My(r).row.place \in Places
      BY <2>1, <3>1 DEF TextPrepared, TextRow
    <3>3. PICK i \in LiveAt(texts, My(r).row.place) : texts[i].value = My(r).row.value
      BY <2>1, <3>1 DEF TextChecked
    <3>4. CASE p = My(r).row.place
      <4>1. cache'[p] = texts[i].value
        BY <2>3, <3>1, <3>2, <3>3, <3>4
      <4>2. Cached(texts)[p] = texts[i].value
        BY <2>3, <3>2, <3>3, <3>4, CachedText
      <4> QED BY <3>1, <4>1, <4>2
    <3>5. CASE p # My(r).row.place /\ p \in Places
      <4>1. cache[p] = NoText /\ LiveAt(texts, p) = {}
        BY <2>1, <3>1, <3>5 DEF TextChecked
      <4>2. cache'[p] = NoText
        BY <2>3, <3>1, <3>5, <4>1
      <4>3. Cached(texts)[p] = NoText
        BY <2>3, <3>5, <4>1, CachedText
      <4> QED BY <3>1, <4>2, <4>3
    <3>6. p \in Places
      BY <2>1
    <3> QED BY <3>4, <3>5, <3>6
  <2>6. CASE RemoveText(r)
    <3>1. calls[r].at = "text.remove" /\ UNCHANGED cache
      BY <2>6 DEF RemoveText, Awaits
    <3>2. My(r).id \in DOMAIN texts /\ texts[My(r).id] \in TextRow
      BY <1>1, <2>1, <3>1, Ids DEF TextPrepared, TextsInv, TextTable
    <3>3. /\ texts[My(r).id].live /\ p = texts[My(r).id].place
          /\ cache[p] = NoText
      BY <2>1, <3>1 DEF TextChecked
    <3>4. p \in Places
      BY <3>2, <3>3 DEF TextRow
    <3>5. LiveAt(texts', p) = LiveAt(texts, p) \ {My(r).id}
      BY <1>1, <2>6, <3>3, TextRemoved
    <3>6. LiveAt(texts, p) \subseteq {My(r).id}
      BY <2>3, <3>2, <3>3 DEF TextsUnique, LiveAt
    <3>7. LiveAt(texts', p) = {}
      BY <3>5, <3>6
    <3>8. Cached(texts')[p] = NoText
      BY <2>3, <3>4, <3>7, CachedText
    <3> QED BY <3>1, <3>3, <3>8
  <2>7. CASE LoadTexts(r)
    <3>1. calls[r].at = "texts.told" /\ UNCHANGED texts /\ cache' = My(r).found
      BY <2>7 DEF LoadTexts, Awaits
    <3>2. cache' = Cached(texts)
      BY <2>1, <3>1 DEF TextChecked
    <3> QED BY <3>1, <3>2
  <2>8. TextCalls(r) => TellText(r) \/ RemoveText(r) \/ LoadTexts(r)
    BY DEF TextCalls, InsertText, CheckText, SaveText, FindImported, SaveImported, ReadTexts, Awaits
  <2> QED BY <1>1, <2>1, <2>4, <2>5, <2>6, <2>7, <2>8, TextEnds
<1> QED BY <1>1, TextsInvInit, TextsInvNext, PTL DEF TextsSpec, TextsAgree

-----------------------------------------------------------------------------
(* Storage: an undisturbed activation, from the table to the client.       *)

ConfFields == {"provider", "active", "configured", "version", "secret"}
IsConf(row) == DOMAIN row = ConfFields /\ row.provider \in Providers
ConfOf(row, p) == IsConf(row) /\ row.provider = p

Purposes == {"read", "update", "switch", "test", "activate", "ready"}

\* What a handler has at hand at the calls of this module.
WithConf == {"conf.save", "conf.clear", "conf.activate", "provider.test", "provider.ready",
             "active.found", "active.save"}
Equipped(at, my) ==
    /\ at \in WithConf \cup {"conf.find", "conf.found", "conf.result", "active.find", "active.local"}
    /\ at \in WithConf => IsConf(my.row)
    /\ at \in {"conf.find", "conf.found"} =>
          /\ DOMAIN my = {"then", "row", "for", "asked"}
          /\ my.then \in Purposes /\ my.for \in Providers
    /\ at = "conf.found" => ConfOf(my.row, my.for)
    /\ at = "conf.result" => my.for \in Providers
    /\ at \in {"active.find", "active.local"} => DOMAIN my = {"row", "asked"}

\* p is the only active provider.
Taken(p) ==
    /\ p \in Providers /\ rows[p].active = TRUE
    /\ \A q \in Providers : q # p => rows[q].active = FALSE

\* What the table and the caches hold while an undisturbed activation is on
\* its way, between the update of all rows and the client.
Uncached == activeCopy = NoCopy /\ \A p \in Providers : copies[p] = NoCopy
Renewing(p) == Taken(p) /\ activeCopy \in {NoCopy, rows[p]} /\ p \notin ready
OnItsWay(at, my) ==
    /\ at = "conf.activate" => \A q \in Providers : rows[q].active = FALSE
    /\ at \in {"active.local", "active.save"} => my.asked = "none"
    /\ at = "active.find" /\ my.asked # "none" => Taken(my.asked) /\ Uncached
    /\ at = "active.found" /\ my.asked # "none" =>
          Taken(my.asked) /\ Uncached /\ my.row = rows[my.asked]
    /\ at \in {"conf.find", "conf.found"} /\ my.asked # "none" =>
          Renewing(my.asked) /\ my.for = my.asked /\ my.then = "ready"
    /\ at = "conf.found" /\ my.asked # "none" => my.row = rows[my.asked]
    /\ at = "provider.ready" /\ my.asked # "none" =>
          Renewing(my.asked) /\ my.row = rows[my.asked]

ConfTables ==
    /\ DOMAIN rows = Providers /\ \A p \in Providers : ConfOf(rows[p], p)
    /\ DOMAIN copies = Providers
    /\ \A p \in Providers : copies[p] = NoCopy \/ ConfOf(copies[p], p)
    /\ activeCopy = NoCopy \/ IsConf(activeCopy)
    /\ DOMAIN clients = Providers

StorageInv ==
    /\ SlotInv
    /\ ConfTables
    /\ \A r \in Slots : InFlight(r) =>
          /\ Equipped(calls[r].at, My(r))
          /\ calls[r].alone => OnItsWay(calls[r].at, My(r))

-----------------------------------------------------------------------------
\* A step of one handler.
LEMMA StorageStep ==
    ASSUME StorageInv, SlotInv', NEW r \in Slots, OthersWait(r), OthersOverlap(r), ConfTables',
           InFlight(r)' => Equipped(calls'[r].at, calls'[r].my),
           InFlight(r)' /\ calls'[r].alone => OnItsWay(calls[r].at, calls[r].my)'
    PROVE  StorageInv'
BY DEF StorageInv, OthersWait, OthersOverlap, InFlight, My

\* A handler's place after a step: it has answered, or it awaits a call of this
\* module.
Placed(place) == place = Finished \/ Equipped(place.at, place.my)

\* Who has something at hand is in flight.
LEMMA EquippedInFlight ==
    ASSUME NEW at, NEW my, Equipped(at, my)
    PROVE  at # "free"
BY DEF Equipped, WithConf

\* What Go does to the slots,
LEMMA Went ==
    ASSUME SlotInv, NEW r \in Slots, InFlight(r), NEW place, Placed(place), Go(r, place)
    PROVE  /\ SlotInv' /\ OthersWait(r) /\ OthersOverlap(r)
           /\ \/ place = Finished /\ ~InFlight(r)'
              \/ /\ place # Finished /\ calls'[r].at = place.at /\ calls'[r].my = place.my
                 /\ calls'[r].alone = calls[r].alone
<1>1. CASE place = Finished
  <2>1. Answer(r)
    BY <1>1 DEF Go, Answer
  <2> QED BY <1>1, <2>1, Answered
<1>2. CASE place # Finished
  <2>1. \E call, locals : call = place.at /\ locals = place.my
    OBVIOUS
  <2>2. PICK call, locals : call = place.at /\ locals = place.my
    BY <2>1
  <2>3. Await(r, call, locals) /\ call # "free"
    BY <1>2, <2>2, EquippedInFlight DEF Go, Await, Placed
  <2> QED BY <1>2, <2>2, <2>3, WentOn
<1> QED BY <1>1, <1>2

\* Where a handler goes that has the configuration it asked for.
LEMMA Using ==
    ASSUME NEW then \in Purposes, NEW p \in Providers, NEW row, ConfOf(row, p), NEW asked,
           NEW place, place = UseConfig(then, p, row, asked), place # Finished
    PROVE  /\ Equipped(place.at, place.my)
           /\ \/ place.at \in {"conf.save", "conf.clear", "provider.test"}
              \/ /\ place.at = "provider.ready" /\ then = "ready"
                 /\ place.my.row = row /\ place.my.asked = asked
<1>1. CASE then = "update" \/ then = "switch"
  <2>1. \E at \in {"conf.save", "conf.clear"} : place = [at |-> at, my |-> [row |-> row]]
    BY <1>1 DEF UseConfig
  <2> QED BY <2>1 DEF Equipped, WithConf, ConfOf
<1>2. CASE then \in {"test", "activate"}
  <2>1. place = [at |-> "provider.test", my |-> [then |-> then, row |-> row]]
    BY <1>2 DEF UseConfig
  <2> QED BY <2>1 DEF Equipped, WithConf, ConfOf
<1>3. CASE then = "ready"
  <2>1. place = [at |-> "provider.ready", my |-> [row |-> row, asked |-> asked]]
    BY <1>3 DEF UseConfig
  <2> QED BY <1>3, <2>1 DEF Equipped, WithConf, ConfOf
<1>4. CASE then = "read"
  BY <1>4 DEF UseConfig
<1> QED BY <1>1, <1>2, <1>3, <1>4 DEF Purposes

\* Where a handler goes that needs a configuration.
LEMMA Needing ==
    ASSUME ConfTables, NEW then \in Purposes, NEW p \in Providers, NEW asked,
           NEW place, place = NeedConfig(then, p, asked), place # Finished
    PROVE  /\ Equipped(place.at, place.my)
           /\ \/ place.at \in {"conf.save", "conf.clear", "provider.test"}
              \/ /\ place.at = "provider.ready" /\ then = "ready" /\ copies[p] # NoCopy
                 /\ place.my.row = copies[p] /\ place.my.asked = asked
              \/ /\ place.at = "conf.find" /\ place.my.then = then
                 /\ place.my.for = p /\ place.my.asked = asked
<1>1. CASE Known(p)
  <2>1. \E row : row = copies[p]
    OBVIOUS
  <2>2. PICK row : row = copies[p]
    BY <2>1
  <2>3. ConfOf(row, p) /\ place = UseConfig(then, p, row, asked)
    BY <1>1, <2>2 DEF Known, ConfTables, NeedConfig
  <2> QED BY <1>1, <2>2, <2>3, Using DEF Known
<1>2. CASE ~Known(p)
  <2>1. place = [at |-> "conf.find",
                 my |-> [then |-> then, row |-> NoCopy, for |-> p, asked |-> asked]]
    BY <1>2 DEF NeedConfig
  <2> QED BY <2>1 DEF Equipped, WithConf
<1> QED BY <1>1, <1>2

\* Before an activation reaches the table nothing is asked of the tables.
Idle(at, my) ==
    \/ at \in {"conf.save", "conf.clear", "provider.test", "conf.result"}
    \/ at # "conf.activate" /\ my.asked = "none"

\* and Arrive.
LEMMA Arrived ==
    ASSUME StorageInv, NEW r \in Slots, NEW place, Arrive(r, place), Placed(place),
           place # Finished => Idle(place.at, place.my), UNCHANGED <<confVars, clients, ready>>
    PROVE  StorageInv'
<1>1. \E call, locals : call = place.at /\ locals = place.my
  OBVIOUS
<1>2. PICK call, locals : call = place.at /\ locals = place.my
  BY <1>1
<1>3. Receive(r, call, locals) /\ Equipped(call, locals) /\ Idle(call, locals)
  BY <1>2 DEF Arrive, Placed
<1>4. call # "free"
  BY <1>3, EquippedInFlight
<1>5. /\ SlotInv'
      /\ calls'[r].at = call /\ calls'[r].my = locals
      /\ OthersWait(r) /\ OthersOverlap(r)
  BY <1>3, <1>4, Received DEF StorageInv
<1>6. ConfTables'
  BY DEF StorageInv, ConfTables, confVars
<1>7. OnItsWay(calls[r].at, calls[r].my)'
  BY <1>3, <1>5 DEF Idle, OnItsWay
<1> QED BY <1>3, <1>5, <1>6, <1>7, StorageStep

\* A request for the configuration of a provider.
LEMMA Requested ==
    ASSUME StorageInv, NEW r \in Slots, NEW p \in Providers,
           NEW then \in {"read", "update", "test", "activate", "ready"},
           Arrive(r, NeedConfig(then, p, "none")), UNCHANGED <<confVars, clients, ready>>
    PROVE  StorageInv'
<1>1. \E place : place = NeedConfig(then, p, "none")
  OBVIOUS
<1>2. PICK place : place = NeedConfig(then, p, "none")
  BY <1>1
<1>3. place # Finished /\ Arrive(r, place)
  BY <1>2 DEF Arrive
<1>4. /\ Equipped(place.at, place.my)
      /\ \/ place.at \in {"conf.save", "conf.clear", "provider.test"}
         \/ place.at = "provider.ready" /\ place.my.asked = "none"
         \/ place.at = "conf.find" /\ place.my.asked = "none"
  BY <1>2, <1>3, Needing DEF StorageInv, Purposes
<1>5. Idle(place.at, place.my)
  BY <1>4 DEF Idle
<1> QED BY <1>3, <1>4, <1>5, Arrived DEF Placed

\* The requests that are not asked for an activation.
LEMMA StorageArrives ==
    ASSUME StorageInv, NEW r \in Slots,
           \/ \E p \in Providers :
                 \/ ReadConfig(r, p) \/ UpdateConfig(r, p)
                 \/ TestProvider(r, p, "test") \/ TestProvider(r, p, "activate")
           \/ UseStorage(r)
    PROVE  StorageInv'
<1>1. CASE \E p \in Providers :
              \/ ReadConfig(r, p) \/ UpdateConfig(r, p)
              \/ TestProvider(r, p, "test") \/ TestProvider(r, p, "activate")
  BY <1>1, Requested DEF ReadConfig, UpdateConfig, TestProvider
<1>2. CASE UseStorage(r) /\ activeCopy = NoCopy
  <2> DEFINE locals == [row |-> NoCopy, asked |-> "none"]
             place == [at |-> "active.find", my |-> locals]
  <2>1. Arrive(r, place) /\ UNCHANGED <<confVars, clients, ready>>
    BY <1>2 DEF UseStorage
  <2>2. place.at = "active.find" /\ place.my = locals
    OBVIOUS
  <2>3. DOMAIN locals = {"row", "asked"} /\ locals.asked = "none"
    OBVIOUS
  <2> HIDE DEF locals, place
  <2>4. Equipped(place.at, place.my) /\ Idle(place.at, place.my)
    BY <2>2, <2>3 DEF Equipped, WithConf, Idle
  <2> QED BY <2>1, <2>4, Arrived DEF Placed
<1>3. CASE UseStorage(r) /\ activeCopy # NoCopy
  <2>1. IsConf(activeCopy)
    BY <1>3 DEF StorageInv, ConfTables
  <2>2. Arrive(r, NeedConfig("ready", activeCopy.provider, "none"))
    BY <1>3 DEF UseStorage, MakeReady, Arrive
  <2> QED BY <1>3, <2>1, <2>2, Requested DEF UseStorage, IsConf
<1> QED BY <1>1, <1>2, <1>3

-----------------------------------------------------------------------------
\* A handler answers,
LEMMA ConfAnswers ==
    ASSUME StorageInv, NEW r \in Slots, InFlight(r), Answer(r), ConfTables'
    PROVE  StorageInv'
<1>1. SlotInv' /\ ~InFlight(r)' /\ OthersWait(r) /\ OthersOverlap(r)
  BY Answered DEF StorageInv
<1> QED BY <1>1, StorageStep

\* or awaits another call,
LEMMA ConfAwaits ==
    ASSUME StorageInv, NEW r \in Slots, InFlight(r), NEW call, NEW locals,
           Await(r, call, locals), Equipped(call, locals), ConfTables',
           calls[r].alone => OnItsWay(call, locals)'
    PROVE  StorageInv'
<1>1. /\ SlotInv'
      /\ calls'[r].at = call /\ calls'[r].my = locals /\ calls'[r].alone = calls[r].alone
      /\ OthersWait(r) /\ OthersOverlap(r)
  BY WentOn, EquippedInFlight DEF StorageInv
<1>2. calls[r].alone => OnItsWay(calls[r].at, calls[r].my)'
  BY <1>1 DEF OnItsWay
<1> QED BY <1>1, <1>2, StorageStep

\* or goes where a helper sends it,
LEMMA ConfGoes ==
    ASSUME StorageInv, NEW r \in Slots, InFlight(r), NEW place, Placed(place), Go(r, place),
           ConfTables', calls[r].alone /\ place # Finished => OnItsWay(place.at, place.my)'
    PROVE  StorageInv'
<1>1. CASE place = Finished
  BY <1>1, Went, StorageStep DEF StorageInv
<1>2. CASE place # Finished
  <2>1. \E call, locals : call = place.at /\ locals = place.my
    OBVIOUS
  <2>2. PICK call, locals : call = place.at /\ locals = place.my
    BY <2>1
  <2>3. Await(r, call, locals) /\ Equipped(call, locals)
    BY <1>2, <2>2 DEF Go, Await, Placed
  <2>4. calls[r].alone => OnItsWay(call, locals)'
    BY <1>2, <2>2
  <2> QED BY <2>3, <2>4, ConfAwaits
<1> QED BY <1>1, <1>2

\* or awaits another call with the same local variables.
LEMMA ConfNext ==
    ASSUME StorageInv, NEW r \in Slots, InFlight(r), NEW call,
           AwaitNext(r, call), Equipped(call, My(r)), ConfTables',
           calls[r].alone => OnItsWay(call, My(r))'
    PROVE  StorageInv'
<1>1. /\ SlotInv'
      /\ calls'[r].at = call /\ calls'[r].my = My(r) /\ calls'[r].alone = calls[r].alone
      /\ OthersWait(r) /\ OthersOverlap(r)
  BY WentNext, EquippedInFlight DEF StorageInv, My
<1>2. calls[r].alone => OnItsWay(calls[r].at, calls[r].my)'
  BY <1>1 DEF OnItsWay, My
<1> QED BY <1>1, <1>2, StorageStep

\* The calls, one after the other.
LEMMA FindsConfig ==
    ASSUME StorageInv, NEW r \in Slots, FindConfig(r)
    PROVE  StorageInv'
<1>1. PICK my : my = My(r)
  OBVIOUS
<1>2. /\ InFlight(r) /\ Equipped("conf.find", my)
      /\ calls[r].alone => OnItsWay("conf.find", my)
  BY <1>1 DEF FindConfig, Awaits, InFlight, StorageInv
<1>3. PICK locals : locals = [my EXCEPT !.row = rows[my.for]]
  OBVIOUS
<1>4. /\ DOMAIN locals = {"then", "row", "for", "asked"} /\ locals.row = rows[my.for]
      /\ locals.then = my.then /\ locals.for = my.for /\ locals.asked = my.asked
  BY <1>2, <1>3 DEF Equipped
<1>5. Await(r, "conf.found", locals) /\ UNCHANGED <<confVars, ready, clients>>
  BY <1>1, <1>3 DEF FindConfig
<1>6. Equipped("conf.found", locals)
  BY <1>2, <1>4 DEF Equipped, WithConf, StorageInv, ConfTables
<1>7. calls[r].alone => OnItsWay("conf.found", locals)'
  BY <1>2, <1>4, <1>5 DEF OnItsWay, Renewing, Taken, confVars
<1>8. ConfTables'
  BY <1>5 DEF StorageInv, ConfTables, confVars
<1> QED BY <1>2, <1>5, <1>6, <1>7, <1>8, ConfAwaits

LEMMA GotsConfig ==
    ASSUME StorageInv, NEW r \in Slots, GotConfig(r)
    PROVE  StorageInv'
<1>1. PICK my : my = My(r)
  OBVIOUS
<1>2. /\ InFlight(r) /\ Equipped("conf.found", my)
      /\ calls[r].alone => OnItsWay("conf.found", my)
  BY <1>1 DEF GotConfig, Awaits, InFlight, StorageInv
<1>3. my.then \in Purposes /\ my.for \in Providers /\ ConfOf(my.row, my.for)
  BY <1>2 DEF Equipped
<1>4. PICK place : place = UseConfig(my.then, my.for, my.row, my.asked)
  OBVIOUS
<1>5. /\ Go(r, place) /\ copies' = [copies EXCEPT ![my.for] = my.row]
      /\ UNCHANGED <<rows, activeCopy, clients, ready>>
  BY <1>1, <1>4 DEF GotConfig
<1>6. place # Finished =>
         /\ Equipped(place.at, place.my)
         /\ \/ place.at \in {"conf.save", "conf.clear", "provider.test"}
            \/ /\ place.at = "provider.ready" /\ my.then = "ready"
               /\ place.my.row = my.row /\ place.my.asked = my.asked
  BY <1>3, <1>4, Using
<1>7. calls[r].alone /\ place # Finished => OnItsWay(place.at, place.my)'
  BY <1>2, <1>5, <1>6 DEF OnItsWay, Renewing, Taken
<1>8. ConfTables'
  BY <1>3, <1>5 DEF StorageInv, ConfTables
<1> QED BY <1>2, <1>5, <1>6, <1>7, <1>8, ConfGoes DEF Placed

LEMMA SavesConfig ==
    ASSUME StorageInv, NEW r \in Slots, SaveConfig(r)
    PROVE  StorageInv'
<1>1. PICK row : row = My(r).row
  OBVIOUS
<1>2. InFlight(r) /\ IsConf(row) /\ Answer(r)
  BY <1>1 DEF SaveConfig, Awaits, InFlight, StorageInv, Equipped, WithConf
<1>3. PICK complete \in BOOLEAN, part \in Parts :
         rows' = [rows EXCEPT ![row.provider] =
                     [row EXCEPT !.version = @ + 1, !.configured = complete,
                                 !.secret = Encrypted(row, part)]]
  BY <1>1 DEF SaveConfig
<1>4. PICK written : written = [row EXCEPT !.version = @ + 1, !.configured = complete,
                                           !.secret = Encrypted(row, part)]
  OBVIOUS
<1>5. ConfOf(written, row.provider)
  BY <1>2, <1>4 DEF IsConf, ConfOf, ConfFields
<1>6. rows' = [rows EXCEPT ![row.provider] = written]
  BY <1>3, <1>4
<1>7. ConfTables'
  BY <1>1, <1>2, <1>5, <1>6 DEF SaveConfig, Invalidated, StorageInv, ConfTables, IsConf
<1> QED BY <1>2, <1>7, ConfAnswers

LEMMA FindsActive ==
    ASSUME StorageInv, NEW r \in Slots, FindActive(r)
    PROVE  StorageInv'
<1>1. PICK my : my = My(r)
  OBVIOUS
<1>2. /\ InFlight(r) /\ Equipped("active.find", my)
      /\ calls[r].alone => OnItsWay("active.find", my)
      /\ UNCHANGED <<confVars, clients, ready>>
  BY <1>1 DEF FindActive, Awaits, InFlight, StorageInv
<1>3. ConfTables'
  BY <1>2 DEF StorageInv, ConfTables, confVars
<1>4. ASSUME NEW p \in ActiveRows, Await(r, "active.found", [my EXCEPT !.row = rows[p]])
      PROVE  StorageInv'
  <2>1. PICK locals : locals = [my EXCEPT !.row = rows[p]]
    OBVIOUS
  <2>2. locals.row = rows[p] /\ locals.asked = my.asked
    BY <1>2, <2>1 DEF Equipped
  <2>3. Equipped("active.found", locals)
    BY <1>4, <2>2 DEF Equipped, WithConf, ActiveRows, StorageInv, ConfTables, ConfOf
  <2>4. calls[r].alone /\ my.asked # "none" => p = my.asked
    BY <1>2, <1>4 DEF OnItsWay, Taken, ActiveRows
  <2>5. calls[r].alone => OnItsWay("active.found", locals)'
    BY <1>2, <2>2, <2>4 DEF OnItsWay, Taken, Uncached, confVars
  <2>6. Await(r, "active.found", locals)
    BY <1>4, <2>1
  <2> QED BY <1>2, <1>3, <2>3, <2>5, <2>6, ConfAwaits
<1>5. ASSUME ActiveRows = {}, AwaitNext(r, "active.local")
      PROVE  StorageInv'
  <2>1. Equipped("active.local", my)
    BY <1>2 DEF Equipped, WithConf
  <2>2. calls[r].alone => my.asked = "none"
    BY <1>2, <1>5 DEF OnItsWay, Taken, ActiveRows
  <2>3. My(r)' = my
    BY <1>1, <1>2, <1>5, WentNext DEF StorageInv, My
  <2>4. calls[r].alone => OnItsWay("active.local", My(r))'
    BY <2>2, <2>3 DEF OnItsWay
  <2> QED BY <1>1, <1>2, <1>3, <1>5, <2>1, <2>4, ConfNext
<1> QED BY <1>1, <1>4, <1>5 DEF FindActive

LEMMA FindsLocal ==
    ASSUME StorageInv, NEW r \in Slots, FindLocal(r)
    PROVE  StorageInv'
<1>1. PICK my : my = My(r)
  OBVIOUS
<1>2. /\ InFlight(r) /\ Equipped("active.local", my)
      /\ calls[r].alone => OnItsWay("active.local", my)
      /\ UNCHANGED <<confVars, clients, ready>>
  BY <1>1 DEF FindLocal, Awaits, InFlight, StorageInv
<1>3. PICK row : row = [rows[Local] EXCEPT !.active = TRUE]
  OBVIOUS
<1>4. PICK locals : locals = [my EXCEPT !.row = row]
  OBVIOUS
<1>5. locals.row = row /\ locals.asked = my.asked
  BY <1>2, <1>4 DEF Equipped
<1>6. IsConf(row)
  BY <1>3, LocalAssumption DEF StorageInv, ConfTables, ConfOf, IsConf, ConfFields
<1>7. Equipped("active.save", locals)
  BY <1>5, <1>6 DEF Equipped, WithConf
<1>8. calls[r].alone => OnItsWay("active.save", locals)'
  BY <1>2, <1>5 DEF OnItsWay
<1>9. ConfTables'
  BY <1>2 DEF StorageInv, ConfTables, confVars
<1>10. Await(r, "active.save", locals)
  BY <1>1, <1>3, <1>4 DEF FindLocal
<1> QED BY <1>2, <1>7, <1>8, <1>9, <1>10, ConfAwaits

LEMMA GotsActive ==
    ASSUME StorageInv, NEW r \in Slots, GotActive(r)
    PROVE  StorageInv'
<1>1. PICK my : my = My(r)
  OBVIOUS
<1>2. /\ InFlight(r) /\ Equipped(calls[r].at, my)
      /\ calls[r].at \in {"active.found", "active.save"}
      /\ calls[r].alone => OnItsWay(calls[r].at, my)
  BY <1>1 DEF GotActive, InFlight, StorageInv
<1>3. PICK p : p = my.row.provider
  OBVIOUS
<1>4. IsConf(my.row) /\ p \in Providers
  BY <1>2, <1>3 DEF Equipped, WithConf, IsConf
<1>5. PICK place :
         place = IF p \in ready /\ my.asked = "none" THEN Finished ELSE NeedConfig("ready", p, my.asked)
  OBVIOUS
<1>6. /\ rows' = IF Awaits(r, "active.save") THEN [rows EXCEPT ![p] = my.row] ELSE rows
      /\ activeCopy' = my.row
      /\ ready' = IF my.asked # "none" THEN ready \ {p} ELSE ready
      /\ Go(r, place) /\ UNCHANGED <<copies, clients>>
  BY <1>1, <1>3, <1>5 DEF GotActive
<1>7. ConfTables'
  BY <1>3, <1>4, <1>6 DEF StorageInv, ConfTables, ConfOf
<1>8. place # Finished =>
         /\ Equipped(place.at, place.my)
         /\ \/ place.at \in {"conf.save", "conf.clear", "provider.test"}
            \/ /\ place.at = "provider.ready" /\ copies[p] # NoCopy
               /\ place.my.row = copies[p] /\ place.my.asked = my.asked
            \/ /\ place.at = "conf.find" /\ place.my.then = "ready"
               /\ place.my.for = p /\ place.my.asked = my.asked
  BY <1>4, <1>5, Needing DEF StorageInv, Purposes
<1>9. ASSUME calls[r].alone, place # Finished
      PROVE  OnItsWay(place.at, place.my)'
  <2>1. CASE my.asked = "none"
    BY <1>8, <1>9, <2>1 DEF OnItsWay
  <2>2. CASE my.asked # "none"
    <3>1. Taken(my.asked) /\ Uncached /\ my.row = rows[my.asked] /\ rows' = rows
      BY <1>2, <1>6, <1>9, <2>2 DEF OnItsWay, Awaits
    <3>2. p = my.asked
      BY <1>3, <3>1 DEF Taken, StorageInv, ConfTables, ConfOf
    <3>3. Renewing(my.asked)'
      BY <1>1, <1>6, <2>2, <3>1, <3>2 DEF Renewing, Taken
    <3>4. copies[p] = NoCopy
      BY <3>1, <3>2 DEF Uncached, Taken
    <3> QED BY <1>8, <1>9, <3>2, <3>3, <3>4 DEF OnItsWay
  <2> QED BY <2>1, <2>2
<1> QED BY <1>2, <1>6, <1>7, <1>8, <1>9, ConfGoes DEF Placed

LEMMA FinishesReady ==
    ASSUME StorageInv, NEW r \in Slots, FinishReady(r)
    PROVE  StorageInv'
<1>1. InFlight(r) /\ Answer(r) /\ UNCHANGED confVars
  BY DEF FinishReady, Awaits, InFlight
<1>2. DOMAIN clients' = DOMAIN clients
  BY DEF FinishReady
<1>3. ConfTables'
  BY <1>1, <1>2 DEF StorageInv, ConfTables, confVars
<1> QED BY <1>1, <1>3, ConfAnswers

LEMMA TriesProvider ==
    ASSUME StorageInv, NEW r \in Slots, TryProvider(r)
    PROVE  StorageInv'
<1>1. PICK my : my = My(r)
  OBVIOUS
<1>2. InFlight(r) /\ IsConf(my.row) /\ UNCHANGED confVars
  BY <1>1 DEF TryProvider, Awaits, InFlight, StorageInv, Equipped, WithConf
<1>3. PICK good : Await(r, "conf.result", [then |-> my.then, for |-> my.row.provider, good |-> good])
  BY <1>1 DEF TryProvider
<1>4. PICK locals : locals = [then |-> my.then, for |-> my.row.provider, good |-> good]
  OBVIOUS
<1>5. Await(r, "conf.result", locals) /\ locals.for \in Providers
  BY <1>2, <1>3, <1>4 DEF IsConf
<1>6. Equipped("conf.result", locals)
  BY <1>5 DEF Equipped, WithConf
<1>7. OnItsWay("conf.result", locals)'
  BY DEF OnItsWay
<1>8. DOMAIN clients' = DOMAIN clients
  BY DEF TryProvider
<1>9. ConfTables'
  BY <1>2, <1>8 DEF StorageInv, ConfTables, confVars
<1> QED BY <1>2, <1>5, <1>6, <1>7, <1>9, ConfAwaits

LEMMA SavesResult ==
    ASSUME StorageInv, NEW r \in Slots, SaveResult(r)
    PROVE  StorageInv'
<1>1. PICK my : my = My(r)
  OBVIOUS
<1>2. InFlight(r) /\ my.for \in Providers
  BY <1>1 DEF SaveResult, Awaits, InFlight, StorageInv, Equipped
<1>3. PICK locals : locals = [then |-> "switch", row |-> NoCopy, for |-> my.for, asked |-> "none"]
  OBVIOUS
<1>4. PICK place : place = IF my.then = "activate" /\ my.good
                           THEN [at |-> "conf.find", my |-> locals] ELSE Finished
  OBVIOUS
<1>5. /\ rows' = [rows EXCEPT ![my.for].configured = my.good]
      /\ Invalidated({my.for}) /\ UNCHANGED clients /\ Go(r, place)
  BY <1>1, <1>3, <1>4 DEF SaveResult
<1>6. place # Finished => place.at = "conf.find" /\ place.my = locals
  BY <1>4
<1>7. /\ DOMAIN locals = {"then", "row", "for", "asked"} /\ locals.then = "switch"
      /\ locals.for = my.for /\ locals.asked = "none"
  BY <1>3
<1>8. Equipped("conf.find", locals) /\ OnItsWay("conf.find", locals)'
  BY <1>2, <1>7 DEF Equipped, WithConf, Purposes, OnItsWay
<1>9. ConfTables'
  BY <1>2, <1>5 DEF Invalidated, StorageInv, ConfTables, ConfOf, IsConf, ConfFields
<1> QED BY <1>2, <1>5, <1>6, <1>8, <1>9, ConfGoes DEF Placed

LEMMA ClearsActive ==
    ASSUME StorageInv, NEW r \in Slots, ClearActive(r)
    PROVE  StorageInv'
<1>1. PICK my : my = My(r)
  OBVIOUS
<1>2. InFlight(r) /\ IsConf(my.row) /\ UNCHANGED <<copies, activeCopy, clients, ready>>
  BY <1>1 DEF ClearActive, Awaits, InFlight, StorageInv, Equipped, WithConf
<1>3. CASE Answer(r) /\ UNCHANGED rows
  BY <1>2, <1>3, ConfAnswers DEF StorageInv, ConfTables
<1>4. CASE /\ rows' = [p \in Providers |-> [rows[p] EXCEPT !.active = FALSE]]
           /\ AwaitNext(r, "conf.activate")
  <2>1. \A p \in Providers : ConfOf(rows'[p], p) /\ rows'[p].active = FALSE
    BY <1>4 DEF StorageInv, ConfTables, ConfOf, IsConf, ConfFields
  <2>2. ConfTables'
    BY <1>2, <1>4, <2>1 DEF StorageInv, ConfTables
  <2>3. Equipped("conf.activate", my)
    BY <1>2 DEF Equipped, WithConf
  <2>4. OnItsWay("conf.activate", My(r))'
    BY <2>1 DEF OnItsWay
  <2> QED BY <1>1, <1>2, <1>4, <2>2, <2>3, <2>4, ConfNext
<1> QED BY <1>3, <1>4 DEF ClearActive

LEMMA Activates ==
    ASSUME StorageInv, NEW r \in Slots, Activate(r)
    PROVE  StorageInv'
<1>1. PICK row : row = My(r).row
  OBVIOUS
<1>2. InFlight(r) /\ IsConf(row) /\ UNCHANGED <<clients, ready>>
  BY <1>1 DEF Activate, Awaits, InFlight, StorageInv, Equipped, WithConf
<1>3. calls[r].alone => \A q \in Providers : rows[q].active = FALSE
  BY <1>2 DEF Activate, Awaits, StorageInv, OnItsWay
<1>4. PICK p : p = row.provider
  OBVIOUS
<1>5. PICK written : written = [row EXCEPT !.active = TRUE]
  OBVIOUS
<1>6. ConfOf(written, p) /\ written.active = TRUE /\ p \in Providers
  BY <1>2, <1>4, <1>5 DEF IsConf, ConfOf, ConfFields
<1>7. rows' = [rows EXCEPT ![p] = written] /\ Invalidated(Providers)
  BY <1>1, <1>4, <1>5 DEF Activate
<1>8. ConfTables'
  BY <1>2, <1>6, <1>7 DEF Invalidated, StorageInv, ConfTables
<1>9. PICK locals : locals = [row |-> NoCopy, asked |-> p]
  OBVIOUS
<1>10. Await(r, "active.find", locals)
  BY <1>1, <1>4, <1>9 DEF Activate
<1>11. DOMAIN locals = {"row", "asked"} /\ locals.asked = p
  BY <1>9
<1>12. Equipped("active.find", locals)
  BY <1>11 DEF Equipped, WithConf
<1>13. Uncached'
  BY <1>7 DEF Invalidated, Uncached
<1>14. calls[r].alone => Taken(p)'
  BY <1>3, <1>6, <1>7 DEF Taken, StorageInv, ConfTables
<1>15. calls[r].alone => OnItsWay("active.find", locals)'
  BY <1>11, <1>13, <1>14 DEF OnItsWay
<1> QED BY <1>2, <1>8, <1>10, <1>12, <1>15, ConfAwaits

-----------------------------------------------------------------------------
\* The invariant holds at first,
LEMMA StorageInvInit == HandlersInit /\ StorageInit => StorageInv
<1> SUFFICES ASSUME HandlersInit, StorageInit PROVE StorageInv
  OBVIOUS
<1>1. \A p \in Providers : ConfOf(Default(p), p)
  BY DEF Default, ConfOf, IsConf, ConfFields
<1>2. ConfTables
  BY <1>1 DEF StorageInit, ConfTables
<1> QED BY <1>2, SlotsBegin DEF StorageInv

\* and every step keeps it.
LEMMA StorageInvNext ==
    ASSUME StorageInv, [StorageNext]_StorageVars
    PROVE  StorageInv'
<1>1. CASE UNCHANGED StorageVars
  <2>1. SlotInv' /\ ConfTables'
    BY <1>1, SlotsStay DEF StorageVars, confVars, StorageInv, ConfTables
  <2> QED BY <1>1, <2>1 DEF StorageVars, confVars, StorageInv, OnItsWay, Renewing, Taken,
                            Uncached, InFlight, My
<1>2. CASE RestartStorage
  <2>1. SlotInv' /\ \A r \in Slots : ~InFlight(r)'
    BY <1>2, SlotsRestart DEF RestartStorage
  <2>2. ConfTables'
    BY <1>2 DEF RestartStorage, StorageInv, ConfTables
  <2> QED BY <2>1, <2>2 DEF StorageInv
<1>3. CASE ExpireActive \/ \E p \in Providers : ExpireCopy(p)
  <2>1. /\ SlotInv' /\ UNCHANGED <<calls, rows, clients, ready>>
        /\ activeCopy' \in {activeCopy, NoCopy}
        /\ \A p \in Providers : copies'[p] \in {copies[p], NoCopy}
        /\ DOMAIN copies' = DOMAIN copies
    BY <1>3, SlotsStay DEF ExpireActive, ExpireCopy, StorageInv, ConfTables
  <2>2. ConfTables'
    BY <2>1 DEF StorageInv, ConfTables
  <2> QED BY <2>1, <2>2 DEF StorageInv, OnItsWay, Renewing, Taken, Uncached, InFlight, My
<1>4. ASSUME NEW r \in Slots, StorageCalls(r)
      PROVE  StorageInv'
  BY <1>4, FindsConfig, GotsConfig, SavesConfig, FindsActive, FindsLocal, GotsActive,
     FinishesReady, TriesProvider, SavesResult, ClearsActive, Activates DEF StorageCalls
<1> QED BY <1>1, <1>2, <1>3, <1>4, StorageArrives DEF StorageNext

\* A request that arrives leaves the other handlers where they are.
LEMMA OthersUntouched ==
    ASSUME StorageInv, NEW s \in Slots, NEW r \in Slots, InFlight(r),
           NEW call, NEW locals, Receive(s, call, locals)
    PROVE  calls'[r].at = calls[r].at
BY OverlappedShape DEF Receive, StorageInv

\* An activation that overlaps with nothing makes its provider the only active
\* one, for the table, the cache and the client, for all providers and however
\* many handlers there are, whatever has happened before.
THEOREM ActivationsTakeEffect == StorageSpec => ActivationTakesEffect
<1>1. ASSUME StorageInv, [StorageNext]_StorageVars
      PROVE  [\A r \in Slots :
                 Awaits(r, "provider.ready") /\ ~InFlight(r)' /\ calls[r].alone
                 /\ My(r).asked # "none" /\ My(r).row.provider \in ready'
                 => LET p == My(r).asked
                    IN  /\ \A q \in Providers : rows'[q].active <=> q = p
                        /\ activeCopy' \in {NoCopy, rows'[p]}
                        /\ clients'[p] = rows'[p].version]_StorageVars
  <2> SUFFICES ASSUME NEW r \in Slots, StorageNext, Awaits(r, "provider.ready"), ~InFlight(r)',
                      calls[r].alone, My(r).asked # "none", My(r).row.provider \in ready'
               PROVE  /\ \A q \in Providers : rows'[q].active <=> q = My(r).asked
                      /\ activeCopy' \in {NoCopy, rows'[My(r).asked]}
                      /\ clients'[My(r).asked] = rows'[My(r).asked].version
    BY <1>1
  <2>1. PICK p : p = My(r).asked
    OBVIOUS
  <2>2. Renewing(p) /\ My(r).row = rows[p]
    BY <1>1, <2>1 DEF StorageInv, OnItsWay, Awaits, InFlight
  <2>3. p \in Providers /\ rows[p].provider = p /\ p \notin ready
    BY <1>1, <2>2 DEF Renewing, Taken, StorageInv, ConfTables, ConfOf
  <2>4. CASE RestartStorage
    BY <2>4 DEF RestartStorage
  <2>5. CASE FinishReady(r)
    <3>1. clients' = [clients EXCEPT ![p] = rows[p].version] /\ UNCHANGED confVars
      BY <2>2, <2>3, <2>5 DEF FinishReady
    <3>2. /\ clients'[p] = rows[p].version
          /\ rows' = rows /\ activeCopy' = activeCopy
      BY <1>1, <2>3, <3>1 DEF confVars, StorageInv, ConfTables
    <3> QED BY <2>1, <2>2, <3>2 DEF Renewing, Taken
  <2>6. CASE ~RestartStorage /\ ~FinishReady(r)
    <3>1. calls'[r].at = calls[r].at
      <4>1. \A s \in Slots : InFlight(s) => s = r
        BY <1>1 DEF StorageInv, SlotInv, AloneInv, Awaits, InFlight
      <4>2. ASSUME NEW s \in Slots, StorageCalls(s)
            PROVE  FALSE
        <5>1. s = r
          BY <4>1, <4>2 DEF StorageCalls, FindConfig, GotConfig, SaveConfig, FindActive, FindLocal,
                            GotActive, FinishReady, TryProvider, SaveResult, ClearActive, Activate,
                            Awaits, InFlight
        <5> QED BY <2>6, <4>2, <5>1 DEF StorageCalls, FindConfig, GotConfig, SaveConfig, FindActive,
                            FindLocal, GotActive, TryProvider, SaveResult, ClearActive, Activate,
                            Awaits
      <4>3. ASSUME NEW s \in Slots, NEW place, Arrive(s, place)
            PROVE  calls'[r].at = calls[r].at
        BY <1>1, <4>3, OthersUntouched DEF Arrive, Awaits, InFlight
      <4>4. \/ UNCHANGED calls
            \/ \E s \in Slots : StorageCalls(s) \/ \E place : Arrive(s, place)
        BY <2>6 DEF StorageNext, ReadConfig, UpdateConfig, TestProvider, UseStorage, ExpireCopy,
                    ExpireActive
      <4> QED BY <4>2, <4>3, <4>4
    <3> QED BY <3>1 DEF InFlight, Awaits
  <2> QED BY <2>4, <2>5, <2>6
<1> QED BY <1>1, StorageInvInit, StorageInvNext, PTL DEF StorageSpec, ActivationTakesEffect

-----------------------------------------------------------------------------
(* The tree of projects keeps its two levels: a step that breaks them is   *)
(* made while some handler has overlapped with another one.                *)

TreePlaces == {"free", "tree.insert", "tree.parent", "tree.count", "tree.save", "tree.remove"}
TreeLocals == {<<>>} \cup [parent : Nat] \cup [id : Nat] \cup [id : Nat, parent : Nat]
TreeRow == [parent : Nat, live : BOOLEAN]

\* The local variables that are set before each call.
TreePrepared(r) ==
    /\ Awaits(r, "tree.insert") => My(r).parent \in Nat
    /\ calls[r].at \in {"tree.parent", "tree.count", "tree.save"} =>
          My(r).id \in DOMAIN tree /\ My(r).parent \in Nat
    /\ Awaits(r, "tree.remove") => My(r).id \in DOMAIN tree

TreeTyped ==
    /\ calls \in [Slots -> [at : TreePlaces, alone : BOOLEAN, my : TreeLocals]]
    /\ tree \in Seq(TreeRow)
    /\ \A r \in Slots : TreePrepared(r)

\* The save leaves the parent as it is, or no live project is below this one
\* and the new parent, if any, is another project that has none.
MayMove(r) ==
    \/ tree[My(r).id].live /\ My(r).parent = tree[My(r).id].parent
    \/ My(r).parent = 0
    \/ /\ My(r).parent # My(r).id
       /\ IsRoot(My(r).parent)
       /\ ~\E c \in SubProjects(My(r).id) : tree[c].live

\* What a handler has read and checked before each of its calls.
TreeChecked(r) ==
    /\ Awaits(r, "tree.insert") => My(r).parent = 0 \/ IsRoot(My(r).parent)
    /\ Awaits(r, "tree.parent") => My(r).parent # My(r).id
    /\ Awaits(r, "tree.count") => My(r).parent # My(r).id /\ IsRoot(My(r).parent)
    /\ Awaits(r, "tree.save") => MayMove(r)

TreeCheckedInv == \A r \in Slots : InFlight(r) /\ calls[r].alone => TreeChecked(r)

TreeInv == TreeTyped /\ AloneInv /\ TreeCheckedInv

-----------------------------------------------------------------------------
(* The slots.                                                              *)

\* A request arrives: it is the only handler that can be alone.
LEMMA ReceiveKeeps ==
    ASSUME TreeInv, NEW r \in Slots, NEW call \in TreePlaces \ {"free"}, NEW locals \in TreeLocals,
           Receive(r, call, locals), UNCHANGED tree, TreePrepared(r)', TreeChecked(r)'
    PROVE  TreeInv'
<1>1. \A s \in Slots : calls'[s] = IF s = r
                                   THEN [at |-> call, my |-> locals,
                                         alone |-> \A t \in Slots : ~InFlight(t)]
                                   ELSE Overlapped(s)
  BY DEF Receive
<1>2. \A s \in Slots : s # r =>
         calls'[s].at = calls[s].at /\ calls'[s].my = calls[s].my
  BY <1>1 DEF Overlapped, TreeInv, TreeTyped
<1>3. \A s \in Slots : s # r /\ InFlight(s)' => ~calls'[s].alone
  BY <1>1, <1>2 DEF Overlapped, InFlight, TreeInv, TreeTyped
<1>4. calls'[r].alone => \A t \in Slots : ~InFlight(t)
  <2> DEFINE nobody == \A t \in Slots : ~InFlight(t)
  <2>1. calls'[r] = [at |-> call, my |-> locals, alone |-> nobody]
    BY <1>1
  <2> HIDE DEF nobody
  <2>2. calls'[r].alone = nobody
    BY <2>1
  <2> QED BY <2>2 DEF nobody
<1>5. calls' \in [Slots -> [at : TreePlaces, alone : BOOLEAN, my : TreeLocals]]
  <2>1. (\A t \in Slots : ~InFlight(t)) \in BOOLEAN
    OBVIOUS
  <2>2. \A s \in Slots : Overlapped(s) \in [at : TreePlaces, alone : BOOLEAN, my : TreeLocals]
    BY DEF Overlapped, TreeInv, TreeTyped
  <2> QED BY <2>1, <2>2 DEF Receive
<1>6. \A s \in Slots : TreePrepared(s)'
  BY <1>2 DEF TreePrepared, Awaits, My, TreeInv, TreeTyped
<1>7. AloneInv'
  BY <1>2, <1>3, <1>4 DEF AloneInv, InFlight
<1>8. TreeCheckedInv'
  BY <1>3 DEF TreeCheckedInv
<1> QED BY <1>5, <1>6, <1>7, <1>8 DEF TreeInv, TreeTyped

\* A handler goes on to its next call: nobody else is alone meanwhile.
LEMMA AwaitKeeps ==
    ASSUME TreeInv, NEW r \in Slots, InFlight(r), NEW call \in TreePlaces \ {"free"},
           AwaitNext(r, call), UNCHANGED tree, TreePrepared(r)', calls[r].alone => TreeChecked(r)'
    PROVE  TreeInv'
<1>1. calls' \in [Slots -> [at : TreePlaces, alone : BOOLEAN, my : TreeLocals]]
  BY DEF AwaitNext, TreeInv, TreeTyped
<1>2. /\ calls'[r].alone = calls[r].alone
      /\ \A s \in Slots : s # r => calls'[s] = calls[s]
  BY DEF AwaitNext, TreeInv, TreeTyped
<1>3. \A s \in Slots : InFlight(s)' => InFlight(s)
  BY <1>2 DEF InFlight
<1>4. \A s \in Slots : TreePrepared(s)'
  BY <1>2 DEF TreePrepared, Awaits, My, TreeInv, TreeTyped
<1>5. AloneInv'
  BY <1>2, <1>3 DEF AloneInv, TreeInv
<1>6. \A s \in Slots : s # r /\ InFlight(s)' => ~calls'[s].alone
  BY <1>2, <1>3 DEF AloneInv, TreeInv
<1>7. TreeCheckedInv'
  BY <1>2, <1>6 DEF TreeCheckedInv
<1> QED BY <1>1, <1>4, <1>5, <1>7 DEF TreeInv, TreeTyped

\* A handler answers: whatever it has done to the rows, nobody alone is left.
LEMMA AnswerKeeps ==
    ASSUME TreeInv, NEW r \in Slots, InFlight(r), Answer(r),
           tree' \in Seq(TreeRow), DOMAIN tree \subseteq DOMAIN tree'
    PROVE  TreeInv'
<1>1. calls' \in [Slots -> [at : TreePlaces, alone : BOOLEAN, my : TreeLocals]]
  BY DEF Answer, Free, TreePlaces, TreeLocals, TreeInv, TreeTyped
<1>2. ~InFlight(r)' /\ \A s \in Slots : s # r => calls'[s] = calls[s]
  BY DEF Answer, Free, InFlight, TreeInv, TreeTyped
<1>3. \A s \in Slots : InFlight(s)' => s # r /\ InFlight(s) /\ ~calls'[s].alone
  BY <1>2 DEF AloneInv, InFlight, TreeInv
<1>4. \A s \in Slots : TreePrepared(s)'
  BY <1>2 DEF TreePrepared, Awaits, My, InFlight, TreeInv, TreeTyped
<1>5. AloneInv' /\ TreeCheckedInv'
  BY <1>3 DEF AloneInv, TreeCheckedInv
<1> QED BY <1>1, <1>4, <1>5 DEF TreeInv, TreeTyped

-----------------------------------------------------------------------------
(* The rows.                                                               *)

\* The ids are the places of the table.
LEMMA TreeIds == ASSUME TreeTyped
             PROVE  /\ Len(tree) \in Nat
                    /\ DOMAIN tree = 1..Len(tree)
                    /\ \A p \in DOMAIN tree : tree[p] \in TreeRow
BY LenProperties, ElementOfSeq DEF TreeTyped

\* An insertion adds one row at the end.
LEMMA InsertTyped ==
    ASSUME TreeTyped, NEW r \in Slots, InsertInTree(r)
    PROVE  /\ tree' \in Seq(TreeRow)
           /\ DOMAIN tree' = 1..(Len(tree) + 1)
           /\ \A p \in DOMAIN tree : tree'[p] = tree[p]
           /\ tree'[Len(tree) + 1] = [parent |-> My(r).parent, live |-> TRUE]
<1> DEFINE row == [parent |-> My(r).parent, live |-> TRUE]
<1>1. row \in TreeRow
  BY DEF InsertInTree, TreeTyped, TreePrepared, TreeRow
<1>2. tree \in Seq(TreeRow) /\ tree' = Append(tree, row)
  BY DEF InsertInTree, TreeTyped
<1> HIDE DEF row
<1>3. /\ tree' \in Seq(TreeRow)
      /\ Len(tree') = Len(tree) + 1
      /\ \A p \in 1..Len(tree) : tree'[p] = tree[p]
      /\ tree'[Len(tree) + 1] = row
  BY <1>1, <1>2, AppendProperties
<1>4. DOMAIN tree' = 1..Len(tree')
  BY <1>3, LenProperties
<1> QED BY <1>3, <1>4, TreeIds DEF row

\* A save replaces one row.
LEMMA SaveTyped ==
    ASSUME TreeTyped, NEW r \in Slots, SaveInTree(r)
    PROVE  /\ tree' \in Seq(TreeRow)
           /\ DOMAIN tree' = DOMAIN tree
           /\ My(r).id \in DOMAIN tree
           /\ tree'[My(r).id] = [parent |-> My(r).parent, live |-> TRUE]
           /\ \A p \in DOMAIN tree : p # My(r).id => tree'[p] = tree[p]
<1> DEFINE row == [parent |-> My(r).parent, live |-> TRUE]
<1>1. row \in TreeRow /\ My(r).id \in DOMAIN tree
  BY DEF SaveInTree, Awaits, TreeTyped, TreePrepared, TreeRow
<1>2. tree \in Seq(TreeRow) /\ tree' = [tree EXCEPT ![My(r).id] = row]
  BY DEF SaveInTree, TreeTyped
<1> HIDE DEF row
<1>3. tree' \in Seq(TreeRow)
  BY <1>1, <1>2, TreeIds, ExceptSeq
<1> QED BY <1>1, <1>2, <1>3 DEF row

\* A removal changes rows in place.
LEMMA RemoveTyped ==
    ASSUME TreeTyped, NEW r \in Slots, OrphanAndDelete(r)
    PROVE  /\ tree' \in Seq(TreeRow)
           /\ DOMAIN tree' = DOMAIN tree
           /\ ~tree'[My(r).id].live
           /\ \A p \in DOMAIN tree :
                 p # My(r).id =>
                    IF p \in SubProjects(My(r).id) THEN tree'[p].parent = 0
                                                   ELSE tree'[p] = tree[p]
<1>1. My(r).id \in DOMAIN tree
  BY DEF OrphanAndDelete, TreeTyped, TreePrepared
<1>2. \A p \in DOMAIN tree : tree'[p] = IF p = My(r).id THEN [tree[p] EXCEPT !.live = FALSE]
                                         ELSE IF p \in SubProjects(My(r).id)
                                              THEN [tree[p] EXCEPT !.parent = 0]
                                              ELSE tree[p]
  BY DEF OrphanAndDelete
<1>3. \A p \in DOMAIN tree : tree'[p] \in TreeRow
  <2>1. \A row \in TreeRow : /\ [row EXCEPT !.live = FALSE] \in TreeRow
                            /\ [row EXCEPT !.parent = 0] \in TreeRow
    BY DEF TreeRow
  <2> QED BY <1>2, <2>1, TreeIds
<1>4. tree' \in [1..Len(tree) -> TreeRow] /\ DOMAIN tree' = DOMAIN tree
  BY <1>3, TreeIds DEF OrphanAndDelete
<1>5. tree' \in Seq(TreeRow)
  BY <1>4, TreeIds, SeqDef
<1>6. ~tree'[My(r).id].live
  BY <1>1, <1>2, TreeIds DEF TreeRow
<1>7. \A p \in DOMAIN tree : p \in SubProjects(My(r).id) /\ p # My(r).id => tree'[p].parent = 0
  BY <1>2, TreeIds DEF TreeRow
<1> QED BY <1>2, <1>4, <1>5, <1>6, <1>7

-----------------------------------------------------------------------------
(* The invariant.                                                          *)

\* The invariant holds at first,
LEMMA TreeInvInit == HandlersInit /\ TreeInit => TreeInv
<1> SUFFICES ASSUME HandlersInit, TreeInit
             PROVE  TreeInv
  OBVIOUS
<1>1. \A r \in Slots : calls[r] = Free
  BY DEF HandlersInit
<1>2. \A r \in Slots : ~InFlight(r) /\ TreePrepared(r)
  BY <1>1 DEF Free, InFlight, TreePrepared, Awaits
<1>3. calls \in [Slots -> [at : TreePlaces, alone : BOOLEAN, my : TreeLocals]]
  BY DEF HandlersInit, Free, TreePlaces, TreeLocals
<1>4. tree \in Seq(TreeRow)
  BY EmptySeq DEF TreeInit
<1> QED BY <1>2, <1>3, <1>4 DEF TreeInv, TreeTyped, AloneInv, TreeCheckedInv

\* A root keeps being one while no row changes.
LEMMA ArrivalKeeps ==
    ASSUME TreeInv, NEW r \in Slots,
           \/ \E parent \in 0..Len(tree) : CreateInTree(r, parent)
           \/ \E p \in DOMAIN tree, parent \in 0..Len(tree) : MoveInTree(r, p, parent)
           \/ \E p \in DOMAIN tree : EditInTree(r, p)
           \/ \E p \in DOMAIN tree : RemoveFromTree(r, p)
    PROVE  TreeInv'
<1>0. /\ Len(tree) \in Nat
      /\ DOMAIN tree = 1..Len(tree)
      /\ \A p \in DOMAIN tree : tree[p] \in TreeRow
  BY TreeIds DEF TreeInv
<1>1. ASSUME NEW call, NEW locals, Receive(r, call, locals)
      PROVE  calls'[r].at = call /\ calls'[r].my = locals
  BY <1>1 DEF Receive
<1>2. CASE \E parent \in 0..Len(tree) : CreateInTree(r, parent)
  <2> PICK parent \in 0..Len(tree) : CreateInTree(r, parent)
    BY <1>2
  <2>1. Receive(r, "tree.insert", [parent |-> parent]) /\ UNCHANGED tree
    BY DEF CreateInTree
  <2>2. calls'[r].at = "tree.insert" /\ calls'[r].my.parent = parent
    BY <1>1, <2>1
  <2>3. TreePrepared(r)'
    BY <1>0, <2>2 DEF TreePrepared, Awaits, My
  <2>4. TreeChecked(r)'
    BY <2>1, <2>2 DEF CreateInTree, TreeChecked, Awaits, My, IsRoot, LiveProject
  <2>5. [parent |-> parent] \in TreeLocals
    BY <1>0 DEF TreeLocals
  <2> QED BY <2>1, <2>3, <2>4, <2>5, ReceiveKeeps DEF TreePlaces
<1>3. CASE \E p \in DOMAIN tree, parent \in 0..Len(tree) : MoveInTree(r, p, parent)
  <2> PICK p \in DOMAIN tree, parent \in 0..Len(tree) : MoveInTree(r, p, parent)
    BY <1>3
  <2> DEFINE call == IF parent = 0 THEN "tree.save" ELSE "tree.parent"
  <2>1. Receive(r, call, [id |-> p, parent |-> parent]) /\ parent # p /\ UNCHANGED tree
    BY DEF MoveInTree
  <2>2. /\ calls'[r].at = call
        /\ calls'[r].my.id = p /\ calls'[r].my.parent = parent
    BY <1>1, <2>1
  <2>3. TreePrepared(r)'
    BY <1>0, <2>1, <2>2 DEF TreePrepared, Awaits, My
  <2>4. TreeChecked(r)'
    BY <2>1, <2>2 DEF TreeChecked, Awaits, My, MayMove
  <2>5. [id |-> p, parent |-> parent] \in TreeLocals /\ call \in TreePlaces \ {"free"}
    BY <1>0 DEF TreeLocals, TreePlaces
  <2> QED BY <2>1, <2>3, <2>4, <2>5, ReceiveKeeps
<1>4. CASE \E p \in DOMAIN tree : EditInTree(r, p)
  <2> PICK p \in DOMAIN tree : EditInTree(r, p)
    BY <1>4
  <2>1. /\ Receive(r, "tree.save", [id |-> p, parent |-> tree[p].parent])
        /\ tree[p].live /\ UNCHANGED tree
    BY DEF EditInTree, LiveProject
  <2>2. /\ calls'[r].at = "tree.save"
        /\ calls'[r].my.id = p /\ calls'[r].my.parent = tree[p].parent
    BY <1>1, <2>1
  <2>3. TreePrepared(r)'
    BY <1>0, <2>1, <2>2 DEF TreePrepared, Awaits, My, TreeRow
  <2>4. TreeChecked(r)'
    BY <2>1, <2>2 DEF TreeChecked, Awaits, My, MayMove
  <2>5. [id |-> p, parent |-> tree[p].parent] \in TreeLocals
    BY <1>0 DEF TreeLocals, TreeRow
  <2> QED BY <2>1, <2>3, <2>4, <2>5, ReceiveKeeps DEF TreePlaces
<1>5. CASE \E p \in DOMAIN tree : RemoveFromTree(r, p)
  <2> PICK p \in DOMAIN tree : RemoveFromTree(r, p)
    BY <1>5
  <2>1. Receive(r, "tree.remove", [id |-> p]) /\ UNCHANGED tree
    BY DEF RemoveFromTree
  <2>2. calls'[r].at = "tree.remove" /\ calls'[r].my.id = p
    BY <1>1, <2>1
  <2>3. TreePrepared(r)'
    BY <1>0, <2>1, <2>2 DEF TreePrepared, Awaits, My
  <2>4. TreeChecked(r)'
    BY <2>2 DEF TreeChecked, Awaits
  <2>5. [id |-> p] \in TreeLocals
    BY <1>0 DEF TreeLocals
  <2> QED BY <2>1, <2>3, <2>4, <2>5, ReceiveKeeps DEF TreePlaces
<1> QED BY <1>2, <1>3, <1>4, <1>5

\* A check leads to the next call or ends the handler.
LEMMA CheckKeeps ==
    ASSUME TreeInv, NEW r \in Slots, FindNewParent(r) \/ CountSubProjects(r)
    PROVE  TreeInv'
<1>1. ASSUME Answer(r), UNCHANGED tree, InFlight(r)
      PROVE  TreeInv'
  BY <1>1, AnswerKeeps DEF TreeInv, TreeTyped
<1>2. ASSUME NEW call, AwaitNext(r, call)
      PROVE  calls'[r].at = call /\ calls'[r].my = calls[r].my
  BY <1>2 DEF AwaitNext, TreeInv, TreeTyped
<1>3. CASE FindNewParent(r)
  <2>1. Awaits(r, "tree.parent") /\ InFlight(r) /\ UNCHANGED tree
    BY <1>3 DEF FindNewParent, Awaits, InFlight
  <2>2. CASE IsRoot(My(r).parent)
    <3>1. AwaitNext(r, "tree.count")
      BY <1>3, <2>2 DEF FindNewParent, Demand
    <3>2. calls'[r].at = "tree.count" /\ calls'[r].my = calls[r].my
      BY <1>2, <3>1
    <3>3. TreePrepared(r)'
      BY <2>1, <3>2 DEF TreePrepared, Awaits, My, TreeInv, TreeTyped
    <3>4. calls[r].alone => TreeChecked(r)'
      BY <2>1, <2>2, <3>2 DEF TreeChecked, TreeCheckedInv, Awaits, My, IsRoot, LiveProject, TreeInv
    <3> QED BY <2>1, <3>1, <3>3, <3>4, AwaitKeeps DEF TreePlaces
  <2> QED BY <1>1, <1>3, <2>1, <2>2 DEF FindNewParent, Demand
<1>4. CASE CountSubProjects(r)
  <2>1. Awaits(r, "tree.count") /\ InFlight(r) /\ UNCHANGED tree
    BY <1>4 DEF CountSubProjects, Awaits, InFlight
  <2>2. CASE ~\E c \in SubProjects(My(r).id) : tree[c].live
    <3>1. AwaitNext(r, "tree.save")
      BY <1>4, <2>2 DEF CountSubProjects, Demand
    <3>2. calls'[r].at = "tree.save" /\ calls'[r].my = calls[r].my
      BY <1>2, <3>1
    <3>3. TreePrepared(r)'
      BY <2>1, <3>2 DEF TreePrepared, Awaits, My, TreeInv, TreeTyped
    <3>4. calls[r].alone => TreeChecked(r)'
      BY <2>1, <2>2, <3>2
      DEF TreeChecked, TreeCheckedInv, MayMove, Awaits, My, IsRoot, LiveProject, SubProjects, TreeInv
    <3> QED BY <2>1, <3>1, <3>3, <3>4, AwaitKeeps DEF TreePlaces
  <2> QED BY <1>1, <1>4, <2>1, <2>2 DEF CountSubProjects, Demand
<1> QED BY <1>3, <1>4

\* A handler that writes answers at once.
LEMMA WriteKeeps ==
    ASSUME TreeInv, NEW r \in Slots, InsertInTree(r) \/ SaveInTree(r) \/ OrphanAndDelete(r)
    PROVE  TreeInv'
<1>1. Answer(r) /\ InFlight(r)
  BY DEF InsertInTree, SaveInTree, OrphanAndDelete, Awaits, InFlight
<1>2. tree' \in Seq(TreeRow) /\ DOMAIN tree \subseteq DOMAIN tree'
  <2>0. /\ TreeTyped
        /\ DOMAIN tree = 1..Len(tree) /\ Len(tree) \in Nat
    BY TreeIds DEF TreeInv
  <2>1. CASE InsertInTree(r)
    <3>1. tree' \in Seq(TreeRow) /\ DOMAIN tree' = 1..(Len(tree) + 1)
      BY <2>0, <2>1, InsertTyped
    <3> QED BY <2>0, <3>1
  <2>2. CASE SaveInTree(r)
    BY <2>0, <2>2, SaveTyped
  <2>3. CASE OrphanAndDelete(r)
    BY <2>0, <2>3, RemoveTyped
  <2> QED BY <2>1, <2>2, <2>3
<1> QED BY <1>1, <1>2, AnswerKeeps

\* and every step keeps it.
LEMMA TreeInvNext ==
    ASSUME TreeInv, [\E r \in Slots : TreeNext(r)]_<<calls, tree>>
    PROVE  TreeInv'
<1>1. CASE UNCHANGED <<calls, tree>>
  BY <1>1 DEF TreeInv, TreeTyped, AloneInv, TreeCheckedInv, TreePrepared, TreeChecked, MayMove, IsRoot,
              LiveProject, SubProjects, Awaits, My, InFlight
<1>2. ASSUME NEW r \in Slots, TreeNext(r)
      PROVE  TreeInv'
  BY <1>2, ArrivalKeeps, CheckKeeps, WriteKeeps DEF TreeNext, TreeCalls
<1> QED BY <1>1, <1>2

-----------------------------------------------------------------------------
(* The two levels.                                                         *)

\* The handler that acts has checked what it relies on if none has raced.
LEMMA NobodyRaced ==
    ASSUME TreeInv, ~Raced, NEW r \in Slots, InFlight(r)
    PROVE  TreeChecked(r)
BY DEF Raced, TreeInv, TreeCheckedInv, TreeTyped

\* The three writes of an undisturbed handler: an insertion,
LEMMA InsertKeepsLevels ==
    ASSUME TreeInv, ~Raced, TwoLevels, NEW r \in Slots, InsertInTree(r)
    PROVE  TwoLevels'
<1> DEFINE above == My(r).parent
           RootAfter(q) == q \in DOMAIN tree' /\ tree'[q].live /\ tree'[q].parent = 0
<1>1. above = 0 \/ IsRoot(above)
  BY NobodyRaced DEF InsertInTree, Awaits, InFlight, TreeChecked
<1>2. /\ DOMAIN tree' = 1..(Len(tree) + 1)
      /\ \A p \in DOMAIN tree : tree'[p] = tree[p]
      /\ tree'[Len(tree) + 1] = [parent |-> above, live |-> TRUE]
  <2>1. TreeTyped
    BY DEF TreeInv
  <2> QED BY <2>1, InsertTyped
<1>3. DOMAIN tree = 1..Len(tree) /\ Len(tree) \in Nat
  BY TreeIds DEF TreeInv
<1> HIDE DEF above
<1>4. \A q : IsRoot(q) => RootAfter(q)
  BY <1>2, <1>3 DEF IsRoot, LiveProject
<1>5. ASSUME NEW p \in DOMAIN tree', tree'[p].live, tree'[p].parent # 0
      PROVE  RootAfter(tree'[p].parent)
  <2>1. CASE p \in DOMAIN tree
    <3>1. IsRoot(tree[p].parent) /\ tree'[p] = tree[p]
      BY <1>2, <1>5, <2>1 DEF TwoLevels
    <3> QED BY <1>4, <3>1
  <2>2. CASE p = Len(tree) + 1
    <3>1. tree'[p].parent = above
      BY <1>2, <2>2
    <3> QED BY <1>1, <1>4, <1>5, <3>1
  <2> QED BY <1>2, <1>3, <2>1, <2>2
<1> QED BY <1>5 DEF TwoLevels, IsRoot, LiveProject

\* an update,
LEMMA SaveKeepsLevels ==
    ASSUME TreeInv, ~Raced, TwoLevels, NEW r \in Slots, SaveInTree(r)
    PROVE  TwoLevels'
<1> DEFINE me == My(r).id
           above == My(r).parent
           RootAfter(q) == q \in DOMAIN tree' /\ tree'[q].live /\ tree'[q].parent = 0
<1>1. \/ tree[me].live /\ above = tree[me].parent
      \/ above = 0
      \/ above # me /\ IsRoot(above) /\ ~\E c \in SubProjects(me) : tree[c].live
  BY NobodyRaced DEF SaveInTree, Awaits, InFlight, TreeChecked, MayMove
<1>2. /\ DOMAIN tree' = DOMAIN tree /\ me \in DOMAIN tree
      /\ tree'[me].parent = above /\ tree'[me].live
      /\ \A p \in DOMAIN tree : p # me => tree'[p] = tree[p]
  <2>1. TreeTyped
    BY DEF TreeInv
  <2>2. /\ DOMAIN tree' = DOMAIN tree /\ me \in DOMAIN tree
        /\ tree'[me] = [parent |-> above, live |-> TRUE]
        /\ \A p \in DOMAIN tree : p # me => tree'[p] = tree[p]
    BY <2>1, SaveTyped
  <2> QED BY <2>2
<1> HIDE DEF me, above
<1>3. \A q : IsRoot(q) /\ q # me => RootAfter(q)
  BY <1>2 DEF IsRoot, LiveProject
<1>4. above = 0 => RootAfter(me)
  BY <1>2
<1>5. ASSUME NEW p \in DOMAIN tree', tree'[p].live, tree'[p].parent # 0
      PROVE  RootAfter(tree'[p].parent)
  <2>1. CASE p = me
    <3>1. tree'[p].parent = above /\ above # 0
      BY <1>2, <1>5, <2>1
    <3>2. CASE tree[me].live /\ above = tree[me].parent
      <4>1. IsRoot(above)
        BY <1>2, <3>1, <3>2 DEF TwoLevels
      <4>2. above # me
        BY <3>1, <3>2, <4>1 DEF IsRoot
      <4> QED BY <1>3, <3>1, <4>1, <4>2
    <3>3. CASE above # me /\ IsRoot(above)
      BY <1>3, <3>1, <3>3
    <3> QED BY <1>1, <3>1, <3>2, <3>3
  <2>2. CASE p # me
    <3>1. tree'[p] = tree[p] /\ p \in SubProjects(tree[p].parent)
      BY <1>2, <1>5, <2>2 DEF SubProjects
    <3>2. IsRoot(tree[p].parent)
      BY <1>2, <1>5, <3>1 DEF TwoLevels
    <3>3. CASE tree[p].parent = me
      <4>1. above = 0
        BY <1>1, <1>5, <3>1, <3>2, <3>3 DEF IsRoot
      <4> QED BY <1>4, <3>1, <3>3, <4>1
    <3> QED BY <1>3, <3>1, <3>2, <3>3
  <2> QED BY <2>1, <2>2
<1> QED BY <1>5 DEF TwoLevels, IsRoot, LiveProject

\* and a deletion.
LEMMA RemoveKeepsLevels ==
    ASSUME TreeInv, TwoLevels, NEW r \in Slots, OrphanAndDelete(r)
    PROVE  TwoLevels'
<1> DEFINE me == My(r).id
           RootAfter(q) == q \in DOMAIN tree' /\ tree'[q].live /\ tree'[q].parent = 0
<1>1. /\ DOMAIN tree' = DOMAIN tree
      /\ ~tree'[me].live
      /\ \A p \in DOMAIN tree :
            p # me => IF p \in SubProjects(me) THEN tree'[p].parent = 0
                                              ELSE tree'[p] = tree[p]
  <2>1. TreeTyped
    BY DEF TreeInv
  <2> QED BY <2>1, RemoveTyped
<1>2. me # 0
  <2>1. me \in DOMAIN tree
    BY DEF OrphanAndDelete, TreeInv, TreeTyped, TreePrepared
  <2> QED BY <2>1, TreeIds DEF TreeInv
<1> HIDE DEF me
<1>3. \A q : IsRoot(q) /\ q # me => RootAfter(q)
  BY <1>1, <1>2 DEF IsRoot, LiveProject, SubProjects
<1>4. ASSUME NEW p \in DOMAIN tree', tree'[p].live, tree'[p].parent # 0
      PROVE  RootAfter(tree'[p].parent)
  <2>1. p # me /\ p \notin SubProjects(me) /\ tree'[p] = tree[p]
    BY <1>1, <1>4
  <2>2. IsRoot(tree[p].parent) /\ tree[p].parent # me
    BY <1>1, <1>4, <2>1 DEF TwoLevels, SubProjects
  <2> QED BY <1>3, <2>1, <2>2
<1> QED BY <1>4 DEF TwoLevels, IsRoot, LiveProject

\* Only three calls write the table.
LEMMA ReadsKeepLevels ==
    ASSUME TwoLevels, UNCHANGED tree
    PROVE  TwoLevels'
BY DEF TwoLevels, IsRoot, LiveProject

\* A request that overlaps with no other one keeps every live sub-project
\* under a live project without a parent, in a table of any length, reached
\* in any way, and with any number of handlers.
THEOREM TreeLevels == TreeSpec => TreeKeepsTwoLevels
<1>1. ASSUME TreeInv, [\E r \in Slots : TreeNext(r)]_<<calls, tree>>
      PROVE  [TwoLevels /\ ~TwoLevels' => Raced]_<<calls, tree>>
  <2> SUFFICES ASSUME TwoLevels, ~Raced, NEW r \in Slots, TreeNext(r)
               PROVE  TwoLevels'
    BY <1>1
  <2>1. CASE InsertInTree(r)
    BY <1>1, <2>1, InsertKeepsLevels
  <2>2. CASE SaveInTree(r)
    BY <1>1, <2>2, SaveKeepsLevels
  <2>3. CASE OrphanAndDelete(r)
    BY <1>1, <2>3, RemoveKeepsLevels
  <2>4. CASE UNCHANGED tree
    BY <2>4, ReadsKeepLevels
  <2> QED BY <2>1, <2>2, <2>3, <2>4
          DEF TreeNext, TreeCalls, CreateInTree, MoveInTree, EditInTree, RemoveFromTree,
              FindNewParent, CountSubProjects
<1> QED BY <1>1, TreeInvInit, TreeInvNext, PTL DEF TreeSpec, TreeKeepsTwoLevels

-----------------------------------------------------------------------------
(* The trees of modules. WithinLevels is a recursive function: that the    *)
(* way up exists follows from a counterexample of least length             *)
(* (LeastNumber).                                                          *)

ModRow == [site : Sites, parent : Nat, live : BOOLEAN]
ModCreation == [site : Sites, parent : Nat, above : Nat, depth : 0..Levels]

\* `up' goes from module a to its parent and on, n - 1 times.
Climbs(up, a, n) == up = [k \in 1..n |-> IF k = 1 THEN a ELSE Up(up[k - 1])]

\* The way up from module a: what WithinLevels follows.
Ups(a) == CHOOSE up : up = [k \in 1..Levels |-> IF k = 1 THEN a ELSE Up(up[k - 1])]

\* The local variables that are set before each call.
ModPrepared(at, my) ==
    /\ at \in {"mod.depth", "mod.insert", "mod.save", "mod.children", "mod.delete"}
    /\ at \in {"mod.depth", "mod.insert"} => my \in ModCreation
    /\ at = "mod.save" => my.row \in ModRow

\* How far an undisturbed handler has followed the tree: up from the parent, or
\* down from the module that it is to delete.
ModChecked(at, my) ==
    /\ at = "mod.depth" /\ my.depth + 2 <= Levels => Ups(my.parent)[my.depth + 2] = my.above
    /\ at = "mod.insert" => Ups(my.parent)[Levels] = 0
    /\ at = "mod.children" => \A m \in my.found \ my.todo : Submodules(m) \subseteq my.found
    /\ at = "mod.delete" => \A m \in my.found : Submodules(m) \subseteq my.found

ModInv ==
    /\ SlotInv
    /\ modules \in Seq(ModRow)
    /\ \A r \in Slots : InFlight(r) =>
          /\ ModPrepared(calls[r].at, My(r))
          /\ calls[r].alone => ModChecked(calls[r].at, My(r))

-----------------------------------------------------------------------------
\* A set of natural numbers that is not empty has a least one.
LEMMA LeastNumber ==
    ASSUME NEW T, T \subseteq Nat, T # {}
    PROVE  \E n \in T : \A k \in T : ~(k < n)
<1>1. IsWellFoundedOn(OpToRel(<, Nat), Nat)
  BY NatLessThanWellFounded
<1>2. PICK n \in T : \A k \in T : ~(<<k, n>> \in OpToRel(<, Nat))
  BY <1>1, WFMin
<1>3. \A k \in T : <<k, n>> \in OpToRel(<, Nat) <=> k < n
  BY DEF OpToRel
<1> QED BY <1>2, <1>3

\* There is a way up, of every length.
LEMMA ClimbExists ==
    ASSUME NEW a, NEW n \in Nat
    PROVE  \E up : Climbs(up, a, n)
<1> USE DEF Climbs
<1> DEFINE T == {l \in Nat : ~\E up : Climbs(up, a, l)}
<1>1. SUFFICES ASSUME T # {} PROVE FALSE
  OBVIOUS
<1>2. PICK l \in T : \A k \in T : ~(k < l)
  <2>1. T \subseteq Nat
    OBVIOUS
  <2> HIDE DEF T
  <2> QED BY <1>1, <2>1, LeastNumber
<1>3. CASE l = 0
  <2>1. Climbs([k \in {} |-> 0], a, 0)
    <3>1. 1..0 = {}
      OBVIOUS
    <3> QED BY <3>1
  <2> QED BY <1>3, <2>1
<1>4. CASE l # 0
  <2>1. l \in Nat /\ l - 1 \in Nat /\ l - 1 < l
    BY <1>4
  <2>2. PICK up : Climbs(up, a, l - 1)
    BY <1>2, <2>1
  <2> DEFINE next == [k \in 1..l |-> IF k = l THEN (IF k = 1 THEN a ELSE Up(up[k - 1])) ELSE up[k]]
  <2>3. \A k \in 1..l : next[k] = IF k = 1 THEN a ELSE Up(next[k - 1])
    <3>1. \A k \in 1..(l - 1) : up[k] = IF k = 1 THEN a ELSE Up(up[k - 1])
      BY <2>2
    <3>2. \A k \in 1..l : k # l => k \in 1..(l - 1) /\ next[k] = up[k]
      BY <2>1
    <3>3. \A k \in 1..l : k # 1 => k - 1 \in 1..l /\ k - 1 # l
      BY <2>1
    <3>4. \A k \in 1..l : k # 1 => next[k - 1] = up[k - 1]
      BY <3>2, <3>3
    <3>5. \A k \in 1..l : k = l => next[k] = IF k = 1 THEN a ELSE Up(up[k - 1])
      OBVIOUS
    <3> HIDE DEF next
    <3> QED BY <3>1, <3>2, <3>4, <3>5
  <2>4. next = [k \in 1..l |-> next[k]]
    OBVIOUS
  <2> HIDE DEF next
  <2>5. Climbs(next, a, l)
    BY <2>3, <2>4
  <2> QED BY <2>5
<1> QED BY <1>3, <1>4

\* The way up starts at a and goes from parent to parent.
LEMMA Climb ==
    ASSUME NEW a
    PROVE  /\ Ups(a)[1] = a
           /\ \A k \in 2..Levels : Ups(a)[k] = Up(Ups(a)[k - 1])
<1>1. Levels \in Nat /\ Levels >= 2
  BY LevelsAssumption
<1>2. \E up : Climbs(up, a, Levels)
  BY <1>1, ClimbExists
<1>3. Ups(a) = [k \in 1..Levels |-> IF k = 1 THEN a ELSE Up(Ups(a)[k - 1])]
  BY <1>2 DEF Ups, Climbs
<1>4. 1 \in 1..Levels /\ \A k \in 2..Levels : k \in 1..Levels /\ k # 1
  BY <1>1
<1> QED BY <1>3, <1>4

\* Once it is above the last module it stays there.
LEMMA ClimbEnds ==
    ASSUME modules \in Seq(ModRow), NEW a, NEW j \in 1..Levels, Ups(a)[j] = 0
    PROVE  Ups(a)[Levels] = 0
<1> DEFINE T == {k \in j..Levels : Ups(a)[k] # 0}
<1>1. SUFFICES ASSUME T # {} PROVE FALSE
  BY LevelsAssumption
<1>2. PICK k \in T : \A i \in T : ~(i < k)
  <2>1. T \subseteq Nat
    BY LevelsAssumption
  <2> HIDE DEF T
  <2> QED BY <1>1, <2>1, LeastNumber
<1>3. k # j
  OBVIOUS
<1>4. k \in 2..Levels /\ k - 1 \in j..Levels /\ k - 1 < k
  BY <1>3, LevelsAssumption
<1>5. Ups(a)[k - 1] = 0
  BY <1>2, <1>4
<1>6. Up(0) = 0
  BY Ids DEF Up, LiveModule
<1>7. Ups(a)[k] = 0
  BY <1>4, <1>5, <1>6, Climb
<1> QED BY <1>7

\* What is asked of an unchanged table is unchanged.
LEMMA ModulesSame ==
    ASSUME UNCHANGED modules
    PROVE  \A at, my : ModChecked(at, my)' <=> ModChecked(at, my)
<1>1. ASSUME NEW m PROVE Submodules(m)' = Submodules(m)
  BY DEF Submodules
<1>2. ASSUME NEW m PROVE Up(m)' = Up(m)
  BY DEF Up, LiveModule
<1>3. ASSUME NEW a PROVE Ups(a)' = Ups(a)
  BY <1>2 DEF Ups
<1> QED BY <1>1, <1>3 DEF ModChecked

-----------------------------------------------------------------------------
\* A step of one handler.
LEMMA ModStep ==
    ASSUME ModInv, NEW r \in Slots, SlotInv', OthersWait(r), OthersOverlap(r),
           modules' \in Seq(ModRow),
           InFlight(r)' => ModPrepared(calls'[r].at, calls'[r].my),
           InFlight(r)' /\ calls'[r].alone => ModChecked(calls[r].at, calls[r].my)'
    PROVE  ModInv'
BY DEF ModInv, OthersWait, OthersOverlap, InFlight, My

\* A request arrives or goes on, with the local variables given.
LEMMA ModGoes ==
    ASSUME ModInv, NEW r \in Slots, NEW call, call # "free", NEW locals,
           \/ Receive(r, call, locals)
           \/ InFlight(r) /\ Await(r, call, locals)
           \/ InFlight(r) /\ AwaitNext(r, call) /\ locals = calls[r].my,
           UNCHANGED modules, ModPrepared(call, locals),
           Receive(r, call, locals) \/ calls[r].alone => ModChecked(call, locals)
    PROVE  ModInv'
<1>1. /\ SlotInv'
      /\ calls'[r].at = call /\ calls'[r].my = locals
      /\ OthersWait(r) /\ OthersOverlap(r)
      /\ Receive(r, call, locals) \/ calls'[r].alone = calls[r].alone
  BY Received, WentOn, WentNext DEF ModInv
<1>2. ModChecked(call, locals) => ModChecked(calls[r].at, calls[r].my)'
  BY <1>1, ModulesSame DEF ModChecked
<1> QED BY <1>1, <1>2, ModStep DEF ModInv

\* A handler answers.
LEMMA ModAnswers ==
    ASSUME ModInv, NEW r \in Slots, InFlight(r), Answer(r), modules' \in Seq(ModRow)
    PROVE  ModInv'
<1>1. SlotInv' /\ ~InFlight(r)' /\ OthersWait(r) /\ OthersOverlap(r)
  BY Answered DEF ModInv
<1> QED BY <1>1, ModStep

-----------------------------------------------------------------------------
\* A creation begins;
LEMMA ModCreated ==
    ASSUME ModInv, NEW r \in Slots, NEW site \in Sites, NEW parent \in Nat,
           CreateModule(r, site, parent)
    PROVE  ModInv'
<1> DEFINE over == IF parent = 0 THEN 0 ELSE modules[parent].parent
<1>1. PICK above : above = over
  OBVIOUS
<1>2. PICK given, call :
         /\ given = [site |-> site, parent |-> parent, above |-> above, depth |-> 0]
         /\ call = IF above = 0 THEN "mod.insert" ELSE "mod.depth"
  OBVIOUS
<1>3. /\ parent # 0 => LiveModule(parent)
      /\ Receive(r, call, given) /\ UNCHANGED modules
  BY <1>1, <1>2 DEF CreateModule
<1>4. Levels \in Nat /\ Levels >= 2
  BY LevelsAssumption
<1>5. parent # 0 => above = Up(parent) /\ above \in Nat
  <2>1. \A m \in DOMAIN modules : modules[m] \in ModRow
    BY Ids DEF ModInv
  <2> QED BY <1>1, <1>3, <2>1 DEF LiveModule, Up, ModRow
<1>6. parent = 0 => above = 0
  BY <1>1
<1>7. given \in ModCreation
  <2>1. 0 \in 0..Levels /\ above \in Nat
    BY <1>4, <1>5, <1>6
  <2> QED BY <1>2, <2>1 DEF ModCreation
<1>8. given.parent = parent /\ given.above = above /\ given.depth = 0
  BY <1>2
<1>9. ModPrepared(call, given)
  BY <1>2, <1>7 DEF ModPrepared
<1>10. Ups(parent)[1] = parent /\ Ups(parent)[2] = Up(parent)
  <2>1. 2 \in 2..Levels /\ 2 - 1 = 1
    BY <1>4
  <2> QED BY <2>1, Climb
<1>11. ModChecked(call, given)
  <2>1. CASE above = 0
    <3>1. 1 \in 1..Levels /\ 2 \in 1..Levels
      BY <1>4
    <3>2. Ups(parent)[1] = 0 \/ Ups(parent)[2] = 0
      BY <1>5, <1>10, <2>1
    <3>3. Ups(parent)[Levels] = 0
      BY <3>1, <3>2, ClimbEnds DEF ModInv
    <3> QED BY <1>2, <1>8, <2>1, <3>3 DEF ModChecked
  <2>2. CASE above # 0
    <3>1. Ups(parent)[0 + 2] = above
      BY <1>5, <1>6, <1>10, <2>2
    <3> QED BY <1>2, <1>8, <2>2, <3>1 DEF ModChecked
  <2> QED BY <2>1, <2>2
<1>12. call # "free"
  BY <1>2
<1> QED BY <1>3, <1>9, <1>11, <1>12, ModGoes

\* its handler walks up,
LEMMA ModWalked ==
    ASSUME ModInv, NEW r \in Slots, WalkUp(r)
    PROVE  ModInv'
<1>1. InFlight(r) /\ calls[r].at = "mod.depth" /\ UNCHANGED modules
  BY DEF WalkUp, Awaits, InFlight
<1>2. PICK my, alone : my = My(r) /\ alone = calls[r].alone
  OBVIOUS
<1>3. /\ my \in ModCreation
      /\ alone /\ my.depth + 2 <= Levels => Ups(my.parent)[my.depth + 2] = my.above
  BY <1>1, <1>2 DEF ModInv, ModPrepared, ModChecked
<1>4. PICK above, depth : /\ above = Up(my.above)
                          /\ depth = IF my.depth = Levels THEN Levels ELSE my.depth + 1
  OBVIOUS
<1>5. IF above # 0
      THEN Await(r, "mod.depth", [my EXCEPT !.above = above, !.depth = depth])
      ELSE IF DepthAllowed(depth) THEN AwaitNext(r, "mod.insert") ELSE Answer(r)
  BY <1>2, <1>4 DEF WalkUp, Up
<1>6. Levels \in Nat /\ Levels >= 2
  BY LevelsAssumption
<1>7. above \in Nat
  <2>1. \A m \in DOMAIN modules : modules[m] \in ModRow
    BY Ids DEF ModInv
  <2> QED BY <1>4, <2>1 DEF Up, LiveModule, ModRow
<1>8. my.depth \in 0..Levels /\ my.depth \in Nat /\ depth \in 0..Levels
  BY <1>3, <1>4, <1>6 DEF ModCreation
<1>9. \* one level further up
      ASSUME alone, my.depth + 3 <= Levels
      PROVE  Ups(my.parent)[my.depth + 3] = above /\ depth = my.depth + 1
  <2>1. /\ my.depth + 3 \in 2..Levels /\ my.depth + 2 <= Levels
        /\ (my.depth + 3) - 1 = my.depth + 2 /\ my.depth # Levels
    BY <1>6, <1>8, <1>9
  <2>2. Ups(my.parent)[my.depth + 3] = Up(Ups(my.parent)[my.depth + 2])
    BY <2>1, Climb
  <2> QED BY <1>3, <1>4, <1>9, <2>1, <2>2
<1>10. CASE above # 0
  <2>1. PICK given : given = [my EXCEPT !.above = above, !.depth = depth]
    OBVIOUS
  <2>2. given \in ModCreation
    BY <1>3, <1>7, <1>8, <2>1 DEF ModCreation
  <2>3. given.parent = my.parent /\ given.above = above /\ given.depth = depth
    BY <1>3, <2>1 DEF ModCreation
  <2>4. ModPrepared("mod.depth", given)
    BY <2>2 DEF ModPrepared
  <2>5. ASSUME alone, depth + 2 <= Levels
        PROVE  Ups(my.parent)[depth + 2] = above
    <3>1. depth = my.depth + 1 /\ my.depth + 3 <= Levels /\ depth + 2 = my.depth + 3
      BY <1>4, <1>6, <1>8, <2>5
    <3> QED BY <1>9, <2>5, <3>1
  <2>6. alone => ModChecked("mod.depth", given)
    BY <2>3, <2>5 DEF ModChecked
  <2>7. Await(r, "mod.depth", given) /\ ~Receive(r, "mod.depth", given)
    BY <1>1, <1>5, <1>10, <2>1 DEF Receive
  <2> QED BY <1>1, <1>2, <2>4, <2>6, <2>7, ModGoes
<1>11. CASE above = 0 /\ DepthAllowed(depth)
  <2>1. AwaitNext(r, "mod.insert") /\ my = calls[r].my
    BY <1>2, <1>5, <1>11 DEF My
  <2>2. ModPrepared("mod.insert", my)
    BY <1>3 DEF ModPrepared
  <2>3. my.depth + 3 <= Levels /\ my.depth + 3 \in 1..Levels
    BY <1>4, <1>6, <1>8, <1>11 DEF DepthAllowed
  <2>4. ASSUME alone
        PROVE  Ups(my.parent)[Levels] = 0
    <3>1. Ups(my.parent)[my.depth + 3] = 0
      BY <1>9, <1>11, <2>3, <2>4
    <3> QED BY <2>3, <3>1, ClimbEnds DEF ModInv
  <2>5. alone => ModChecked("mod.insert", my)
    BY <2>4 DEF ModChecked
  <2>6. ~Receive(r, "mod.insert", my)
    BY <1>1 DEF Receive
  <2> QED BY <1>1, <1>2, <2>1, <2>2, <2>5, <2>6, ModGoes
<1>12. CASE above = 0 /\ ~DepthAllowed(depth)
  BY <1>1, <1>5, <1>12, ModAnswers DEF ModInv
<1> QED BY <1>10, <1>11, <1>12

\* and inserts the module, which is the last row from then on.
LEMMA ModInserted ==
    ASSUME ModInv, NEW r \in Slots, InsertModule(r)
    PROVE  /\ ModInv'
           /\ DOMAIN modules' = DOMAIN modules \cup {Len(modules) + 1}
           /\ modules'[Len(modules) + 1].parent = My(r).parent
<1>1. InFlight(r) /\ calls[r].at = "mod.insert" /\ Answer(r)
  BY DEF InsertModule, Awaits, InFlight
<1>2. PICK row : row = [site |-> My(r).site, parent |-> My(r).parent, live |-> TRUE]
  OBVIOUS
<1>3. My(r) \in ModCreation
  BY <1>1 DEF ModInv, ModPrepared
<1>4. row \in ModRow /\ row.parent = My(r).parent
  BY <1>2, <1>3 DEF ModCreation, ModRow
<1>5. modules' = Append(modules, row)
  BY <1>2 DEF InsertModule
<1>6. /\ modules' \in Seq(ModRow)
      /\ Len(modules) \in Nat /\ DOMAIN modules = 1..Len(modules)
      /\ DOMAIN modules' = 1..(Len(modules) + 1)
      /\ modules'[Len(modules) + 1] = row
  BY <1>4, <1>5, Inserted DEF ModInv
<1>7. DOMAIN modules' = DOMAIN modules \cup {Len(modules) + 1}
  BY <1>6
<1> QED BY <1>1, <1>4, <1>6, <1>7, ModAnswers

\* A deletion takes the modules that it found and changes no other one.
LEMMA ModDeleted ==
    ASSUME ModInv, NEW r \in Slots, DeleteModules(r)
    PROVE  /\ ModInv'
           /\ DOMAIN modules' = DOMAIN modules
           /\ \A m \in DOMAIN modules :
                 modules'[m].live => m \notin My(r).found /\ modules'[m] = modules[m]
<1>1. InFlight(r) /\ Answer(r)
  BY DEF DeleteModules, Awaits, InFlight
<1>2. /\ modules' = [m \in DOMAIN modules |-> modules'[m]]
      /\ \A m \in DOMAIN modules : m \notin My(r).found => modules'[m] = modules[m]
      /\ \A m \in DOMAIN modules : m \in My(r).found => modules'[m] = [modules[m] EXCEPT !.live = FALSE]
  BY DEF DeleteModules
<1>3. \A m \in DOMAIN modules : modules[m] \in ModRow
  BY Ids DEF ModInv
<1>4. \A m \in DOMAIN modules : /\ modules'[m] \in ModRow
                                /\ m \in My(r).found => ~modules'[m].live
  BY <1>2, <1>3 DEF ModRow
<1>5. modules' \in Seq(ModRow) /\ DOMAIN modules' = DOMAIN modules
  BY <1>2, <1>4, Rewritten DEF ModInv
<1> QED BY <1>1, <1>2, <1>4, <1>5, ModAnswers

\* Every action of a handler keeps the invariant.
LEMMA ModActs ==
    ASSUME ModInv, NEW r \in Slots, ModNext(r)
    PROVE  ModInv'
<1>1. ASSUME NEW site \in Sites, NEW parent \in 0..Len(modules), CreateModule(r, site, parent)
      PROVE  ModInv'
  BY <1>1, ModCreated, Ids DEF ModInv
<1>2. ASSUME NEW m \in DOMAIN modules, NEW parent \in 0..Len(modules), UpdateModule(r, m, parent)
      PROVE  ModInv'
  <2>1. PICK row : row = [modules[m] EXCEPT !.parent = parent]
    OBVIOUS
  <2>2. PICK given : given = [id |-> m, row |-> row]
    OBVIOUS
  <2>3. Receive(r, "mod.save", given) /\ UNCHANGED modules
    BY <1>2, <2>1, <2>2 DEF UpdateModule
  <2>4. parent \in Nat /\ modules[m] \in ModRow
    BY Ids DEF ModInv
  <2>5. row \in ModRow /\ given.row = row
    BY <2>1, <2>2, <2>4 DEF ModRow
  <2>6. ModPrepared("mod.save", given) /\ ModChecked("mod.save", given)
    BY <2>5 DEF ModPrepared, ModChecked
  <2> QED BY <2>3, <2>6, ModGoes
<1>3. ASSUME NEW m, RemoveModule(r, m)
      PROVE  ModInv'
  <2>1. PICK given : given = [found |-> {m}, todo |-> {m}]
    OBVIOUS
  <2>2. given.found = {m} /\ given.todo = {m}
    BY <2>1
  <2>3. Receive(r, "mod.children", given) /\ UNCHANGED modules
    BY <1>3, <2>1 DEF RemoveModule
  <2>4. ModPrepared("mod.children", given) /\ ModChecked("mod.children", given)
    BY <2>2 DEF ModPrepared, ModChecked
  <2> QED BY <2>3, <2>4, ModGoes
<1>4. CASE SaveModule(r)
  <2>1. /\ InFlight(r) /\ calls[r].at = "mod.save" /\ Answer(r)
        /\ modules' = [modules EXCEPT ![My(r).id] = My(r).row]
    BY <1>4 DEF SaveModule, Awaits, InFlight
  <2>2. My(r).row \in ModRow
    BY <2>1 DEF ModInv, ModPrepared
  <2>3. \A m \in DOMAIN modules : modules[m] \in ModRow
    BY Ids DEF ModInv
  <2>4. /\ modules' = [m \in DOMAIN modules |-> modules'[m]]
        /\ \A m \in DOMAIN modules : modules'[m] \in ModRow
    BY <2>1, <2>2, <2>3
  <2>5. modules' \in Seq(ModRow)
    BY <2>4, Rewritten DEF ModInv
  <2> QED BY <2>1, <2>5, ModAnswers
<1>5. CASE ReadChildren(r)
  <2>1. InFlight(r) /\ calls[r].at = "mod.children" /\ UNCHANGED modules
    BY <1>5 DEF ReadChildren, Awaits, InFlight
  <2>2. PICK my, alone : my = My(r) /\ alone = calls[r].alone
    OBVIOUS
  <2>3. PICK m \in my.todo :
           LET todo == (my.todo \ {m}) \cup Submodules(m)
           IN  Await(r, IF todo = {} THEN "mod.delete" ELSE "mod.children",
                     [found |-> my.found \cup Submodules(m), todo |-> todo])
    BY <1>5, <2>2 DEF ReadChildren
  <2>4. PICK todo, found, call : /\ todo = (my.todo \ {m}) \cup Submodules(m)
                                 /\ found = my.found \cup Submodules(m)
                                 /\ call = IF todo = {} THEN "mod.delete" ELSE "mod.children"
    OBVIOUS
  <2>5. PICK given : given = [found |-> found, todo |-> todo]
    OBVIOUS
  <2>6. given.found = found /\ given.todo = todo
    BY <2>5
  <2>7. Await(r, call, given)
    BY <2>3, <2>4, <2>5
  <2>8. ModPrepared(call, given)
    BY <2>4 DEF ModPrepared
  <2>9. ASSUME alone
        PROVE  \A c \in found \ todo : Submodules(c) \subseteq found
    <3>1. \A c \in my.found \ my.todo : Submodules(c) \subseteq my.found
      BY <2>1, <2>2, <2>9 DEF ModInv, ModChecked
    <3> QED BY <2>4, <3>1
  <2>10. alone => ModChecked(call, given)
    BY <2>4, <2>6, <2>9 DEF ModChecked
  <2>11. call # "free" /\ ~Receive(r, call, given)
    BY <2>1, <2>4 DEF Receive
  <2> QED BY <2>1, <2>2, <2>7, <2>8, <2>10, <2>11, ModGoes
<1> QED BY <1>1, <1>2, <1>3, <1>4, <1>5, ModWalked, ModInserted, ModDeleted DEF ModNext, ModCalls

\* The invariant holds at first,
LEMMA ModInvInit == HandlersInit /\ ModInit => ModInv
BY SlotsBegin, EmptySeq DEF ModInit, ModInv

\* and every step keeps it.
LEMMA ModInvNext ==
    ASSUME ModInv, [\E r \in Slots : ModNext(r)]_ModVars
    PROVE  ModInv'
<1>1. CASE UNCHANGED ModVars
  <2>1. SlotInv' /\ UNCHANGED <<calls, modules>>
    BY <1>1, SlotsStay DEF ModInv, ModVars
  <2>2. \A r \in Slots : ModChecked(calls[r].at, My(r)) => ModChecked(calls[r].at, My(r))'
    BY <2>1, ModulesSame DEF ModChecked, My
  <2> QED BY <2>1, <2>2 DEF ModInv, InFlight, My
<1> QED BY <1>1, ModActs

\* Whoever is in flight and not where it was has taken the step.
LEMMA ModTakes ==
    ASSUME ModInv, NEW r \in Slots, NEW s \in Slots, InFlight(r),
           calls'[r].at # calls[r].at, ModNext(s)
    PROVE  s = r
<1>1. \/ \E call, locals : call # "free" /\ Receive(s, call, locals)
      \/ InFlight(s) /\ \/ Answer(s)
                        \/ \E call, locals : call # "free" /\ Await(s, call, locals)
                        \/ \E call : call # "free" /\ AwaitNext(s, call)
  BY DEF ModNext, ModCalls, CreateModule, UpdateModule, RemoveModule, WalkUp, InsertModule,
         SaveModule, ReadChildren, DeleteModules, Awaits, InFlight
<1>2. OthersWait(s)
  BY <1>1, Received, WentOn, WentNext, Answered DEF ModInv
<1> QED BY <1>2 DEF OthersWait

\* A creation that overlaps with nobody puts no module on a level below the
\* last, and such a deletion leaves no live module under one that it deleted,
\* however deep the tree: for all modules, levels and handlers.
THEOREM ModulesStay == ModSpec => ModulesInOrder
<1>1. ASSUME ModInv, [\E r \in Slots : ModNext(r)]_ModVars
      PROVE  [\A r \in Slots :
                 /\ Leaves(r, "mod.delete", LAMBDA m : modules'[m].parent \notin My(r).found)
                 /\ Leaves(r, "mod.insert", LAMBDA m : m \in DOMAIN modules \/ WithinLevels(m))]_ModVars
  <2>1. ASSUME NEW r \in Slots, NEW s \in Slots, ModNext(s), Awaits(r, "mod.delete"),
               ~Awaits(r, "mod.delete")', calls[r].alone, NEW m \in DOMAIN modules', modules'[m].live
        PROVE  modules'[m].parent \notin My(r).found
    <3>1. InFlight(r) /\ calls[r].at = "mod.delete" /\ ModNext(r)
      BY <1>1, <2>1, ModTakes DEF Awaits, InFlight
    <3>2. DeleteModules(r)
      BY <3>1 DEF ModNext, ModCalls, CreateModule, UpdateModule, RemoveModule, WalkUp, InsertModule,
                  SaveModule, ReadChildren, Receive, Awaits, InFlight
    <3>3. \A c \in My(r).found : Submodules(c) \subseteq My(r).found
      BY <1>1, <2>1, <3>1 DEF ModInv, ModChecked
    <3>4. m \in DOMAIN modules /\ modules'[m] = modules[m] /\ m \notin My(r).found
      BY <1>1, <2>1, <3>2, ModDeleted
    <3>5. m \in Submodules(modules[m].parent)
      BY <2>1, <3>4 DEF Submodules
    <3> QED BY <3>3, <3>4, <3>5
  <2>2. ASSUME NEW r \in Slots, NEW s \in Slots, ModNext(s), Awaits(r, "mod.insert"),
               ~Awaits(r, "mod.insert")', calls[r].alone, NEW m \in DOMAIN modules',
               m \notin DOMAIN modules
        PROVE  WithinLevels(m)
    <3>1. InFlight(r) /\ calls[r].at = "mod.insert" /\ ModNext(r)
      BY <1>1, <2>2, ModTakes DEF Awaits, InFlight
    <3>2. InsertModule(r)
      BY <3>1 DEF ModNext, ModCalls, CreateModule, UpdateModule, RemoveModule, WalkUp, DeleteModules,
                  SaveModule, ReadChildren, Receive, Awaits, InFlight
    <3>3. Ups(My(r).parent)[Levels] = 0
      BY <1>1, <2>2, <3>1 DEF ModInv, ModChecked
    <3>4. modules'[m].parent = My(r).parent
      BY <1>1, <2>2, <3>2, ModInserted
    <3> DEFINE up[k \in 1..Levels] == IF k = 1 THEN modules'[m].parent ELSE Up(up[k - 1])
    <3>5. WithinLevels(m) <=> up[Levels] = 0
      BY DEF WithinLevels
    <3>6. up = Ups(modules'[m].parent)
      BY DEF up, Ups
    <3> QED BY <3>3, <3>4, <3>5, <3>6
  <2> QED BY <1>1, <2>1, <2>2 DEF Leaves
<1> QED BY <1>1, ModInvInit, ModInvNext, PTL DEF ModSpec, ModulesInOrder

-----------------------------------------------------------------------------
(* Feature flags: the answer of an undisturbed check.                      *)

WrittenFlag == [key : {row.key : row \in FlagRows}, on : {row.on : row \in FlagRows},
                needs : {row.needs : row \in FlagRows}, live : BOOLEAN]

\* The local variables that are set before each call.
FlagPrepared(at, my) ==
    /\ at \in {"flag.insert", "flag.taken", "flag.save", "flag.remove", "flag.find", "flag.answer"}
    /\ at \in {"flag.insert", "flag.taken", "flag.save"} => my.row \in FlagRows
    /\ at \in {"flag.find", "flag.answer"} => my.asked \in FlagKeys
    /\ at = "flag.find" => my.next \in FlagKeys

\* What an undisturbed check has found on its way along dependsOn: of the flags
\* that the one asked for depends on, all that it has left behind are on.
FlagChecked(at, my) ==
    /\ at = "flag.find" => /\ Chain(my.next) \subseteq Chain(my.asked)
                           /\ \A k \in Chain(my.asked) : On(k) \/ k \in Chain(my.next)
    /\ at = "flag.answer" => (my.enabled <=> \A k \in Chain(my.asked) : On(k))

FlagsInv ==
    /\ SlotInv
    /\ flags \in Seq(WrittenFlag)
    /\ \A r \in Slots : InFlight(r) =>
          /\ FlagPrepared(calls[r].at, My(r))
          /\ calls[r].alone => FlagChecked(calls[r].at, My(r))

-----------------------------------------------------------------------------
\* What a flag depends on is a key that somebody has written.
LEMMA NeedsWritten ==
    ASSUME flags \in Seq(WrittenFlag), NEW key
    PROVE  Needs(key) \in FlagKeys \cup {NoKey}
<1>1. CASE Named(key) = {}
  BY <1>1 DEF Needs
<1>2. CASE Named(key) # {}
  <2>1. PICK f \in Named(key) : Needs(key) = flags[f].needs
    BY <1>2 DEF Needs
  <2>2. flags[f] \in WrittenFlag
    BY <2>1, Ids DEF Named
  <2> QED BY <2>1, <2>2 DEF WrittenFlag, FlagKeys
<1> QED BY <1>1, <1>2

\* A flag's chain holds itself and, if it depends on another one, that one's
\* chain; nothing else.
LEMMA ChainStep ==
    ASSUME flags \in Seq(WrittenFlag), NEW key \in FlagKeys
    PROVE  /\ key \in Chain(key)
           /\ Needs(key) = NoKey => Chain(key) = {key}
           /\ Needs(key) # NoKey => /\ Needs(key) \in FlagKeys
                                    /\ Chain(Needs(key)) \subseteq Chain(key)
                                    /\ Chain(key) \subseteq {key} \cup Chain(Needs(key))
<1> DEFINE Closed(s, k) == k \in s /\ \A c \in s : Needs(c) \in s \cup {NoKey}
<1>1. \A k, c : c \in Chain(k) <=> c \in FlagKeys /\ \A s \in SUBSET FlagKeys : Closed(s, k) => c \in s
  BY DEF Chain
<1>2. \A c : Needs(c) \in FlagKeys \cup {NoKey}
  BY NeedsWritten
<1>3. key \in Chain(key)
  BY <1>1
<1>4. ASSUME Needs(key) = NoKey
      PROVE  Chain(key) = {key}
  <2>1. Closed({key}, key) /\ {key} \in SUBSET FlagKeys
    BY <1>4
  <2> HIDE DEF Closed
  <2>2. \A c \in Chain(key) : c \in {key}
    BY <1>1, <2>1
  <2> QED BY <1>3, <2>2
<1>5. ASSUME Needs(key) # NoKey
      PROVE  /\ Needs(key) \in FlagKeys
             /\ Chain(Needs(key)) \subseteq Chain(key)
             /\ Chain(key) \subseteq {key} \cup Chain(Needs(key))
  <2> DEFINE n == Needs(key)
             rest == Chain(n)
  <2>1. n \in FlagKeys
    BY <1>2, <1>5
  <2>2. \A s : Closed(s, key) => Closed(s, n)
    BY <1>5
  <2>3. rest \subseteq Chain(key)
    BY <1>1, <2>2
  <2>4. n \in rest /\ rest \subseteq FlagKeys
    BY <1>1, <2>1
  <2>5. \A c \in rest : Needs(c) \in rest \cup {NoKey}
    <3> SUFFICES ASSUME NEW c \in rest, Needs(c) # NoKey, NEW s \in SUBSET FlagKeys, Closed(s, n)
                 PROVE  Needs(c) \in s
      BY <1>1, <1>2
    <3>1. c \in s
      BY <1>1
    <3> QED BY <3>1
  <2> HIDE DEF n, rest
  <2>6. {key} \cup rest \in SUBSET FlagKeys
    BY <2>4
  <2>7. Closed({key} \cup rest, key)
    BY <2>4, <2>5 DEF n
  <2>8. Chain(key) \subseteq {key} \cup rest
    BY <1>1, <2>6, <2>7
  <2> QED BY <2>1, <2>3, <2>8 DEF n, rest
<1> QED BY <1>3, <1>4, <1>5

-----------------------------------------------------------------------------
\* What is asked of an unchanged table is unchanged.
LEMMA FlagsSame ==
    ASSUME UNCHANGED flags
    PROVE  \A at, my : FlagChecked(at, my)' <=> FlagChecked(at, my)
<1>1. ASSUME NEW key PROVE Named(key)' = Named(key)
  BY DEF Named
<1>2. ASSUME NEW key PROVE On(key)' = On(key)
  BY <1>1 DEF On
<1>3. ASSUME NEW key PROVE Needs(key)' = Needs(key)
  BY DEF Needs, Named
<1>4. ASSUME NEW key PROVE Chain(key)' = Chain(key)
  BY <1>3 DEF Chain, FlagKeys
<1> QED BY <1>2, <1>4 DEF FlagChecked

\* A step of one handler.
LEMMA FlagStep ==
    ASSUME FlagsInv, NEW r \in Slots, SlotInv', OthersWait(r), OthersOverlap(r),
           flags' \in Seq(WrittenFlag),
           InFlight(r)' => FlagPrepared(calls'[r].at, calls'[r].my),
           InFlight(r)' /\ calls'[r].alone => FlagChecked(calls[r].at, calls[r].my)'
    PROVE  FlagsInv'
BY DEF FlagsInv, OthersWait, OthersOverlap, InFlight, My

\* A request arrives or goes on, with the local variables given.
LEMMA FlagGoes ==
    ASSUME FlagsInv, NEW r \in Slots, NEW call, call # "free", NEW locals,
           \/ Receive(r, call, locals)
           \/ InFlight(r) /\ Await(r, call, locals)
           \/ InFlight(r) /\ AwaitNext(r, call) /\ locals = calls[r].my,
           UNCHANGED flags, FlagPrepared(call, locals),
           Receive(r, call, locals) \/ calls[r].alone => FlagChecked(call, locals)
    PROVE  FlagsInv'
<1>1. /\ SlotInv'
      /\ calls'[r].at = call /\ calls'[r].my = locals
      /\ OthersWait(r) /\ OthersOverlap(r)
      /\ Receive(r, call, locals) \/ calls'[r].alone = calls[r].alone
  BY Received, WentOn, WentNext DEF FlagsInv
<1>2. FlagChecked(call, locals) => FlagChecked(calls[r].at, calls[r].my)'
  BY <1>1, FlagsSame DEF FlagChecked
<1> QED BY <1>1, <1>2, FlagStep DEF FlagsInv

\* A handler answers.
LEMMA FlagAnswers ==
    ASSUME FlagsInv, NEW r \in Slots, InFlight(r), Answer(r), flags' \in Seq(WrittenFlag)
    PROVE  FlagsInv'
<1>1. SlotInv' /\ ~InFlight(r)' /\ OthersWait(r) /\ OthersOverlap(r)
  BY Answered DEF FlagsInv
<1> QED BY <1>1, FlagStep

\* The local variables and the next call of a check that has found the flag
\* `key'; what it has found before is `before'.
LEMMA FlagJudged ==
    ASSUME flags \in Seq(WrittenFlag), NEW asked \in FlagKeys, NEW key \in FlagKeys,
           NEW before, before => /\ Chain(key) \subseteq Chain(asked)
                                 /\ \A k \in Chain(asked) : On(k) \/ k \in Chain(key)
    PROVE  /\ FlagPrepared(AfterFlag(key), Found(asked, key))
           /\ before => FlagChecked(AfterFlag(key), Found(asked, key))
<1> DEFINE my == Found(asked, key)
<1>1. my.asked = asked /\ my.next = Needs(key) /\ my.enabled = On(key)
  BY DEF Found
<1> HIDE DEF my
<1>2. CASE On(key) /\ Needs(key) # NoKey
  <2>1. AfterFlag(key) = "flag.find"
    BY <1>2 DEF AfterFlag
  <2>2. /\ Needs(key) \in FlagKeys
        /\ Chain(Needs(key)) \subseteq Chain(key)
        /\ Chain(key) \subseteq {key} \cup Chain(Needs(key))
    BY <1>2, ChainStep
  <2>3. FlagPrepared("flag.find", my)
    BY <1>1, <2>2 DEF FlagPrepared
  <2>4. before => FlagChecked("flag.find", my)
    BY <1>1, <1>2, <2>2 DEF FlagChecked
  <2> QED BY <2>1, <2>3, <2>4 DEF my
<1>3. CASE ~(On(key) /\ Needs(key) # NoKey)
  <2>1. AfterFlag(key) = "flag.answer"
    BY <1>3 DEF AfterFlag
  <2>2. FlagPrepared("flag.answer", my)
    BY <1>1 DEF FlagPrepared
  <2>3. ASSUME before PROVE On(key) <=> \A k \in Chain(asked) : On(k)
    <3>1. key \in Chain(key) /\ (Needs(key) = NoKey => Chain(key) = {key})
      BY ChainStep
    <3> QED BY <1>3, <2>3, <3>1
  <2>4. before => FlagChecked("flag.answer", my)
    BY <1>1, <2>3 DEF FlagChecked
  <2> QED BY <2>1, <2>2, <2>4 DEF my
<1> QED BY <1>2, <1>3

-----------------------------------------------------------------------------
\* A row that is written is a flag.
LEMMA FlagWritten ==
    ASSUME NEW row \in FlagRows
    PROVE  FlagRow(row) \in WrittenFlag
BY DEF FlagRow, WrittenFlag

\* Every action of a handler keeps the invariant.
LEMMA FlagsActs ==
    ASSUME FlagsInv, NEW r \in Slots, FlagsNext(r)
    PROVE  FlagsInv'
<1>1. ASSUME NEW row \in FlagRows, CreateFlag(r, row)
      PROVE  FlagsInv'
  <2>1. PICK given : given = [row |-> row]
    OBVIOUS
  <2>2. given.row = row
    BY <2>1
  <2>3. Receive(r, "flag.insert", given) /\ UNCHANGED flags
    BY <1>1, <2>1 DEF CreateFlag
  <2>4. FlagPrepared("flag.insert", given) /\ FlagChecked("flag.insert", given)
    BY <2>2 DEF FlagPrepared, FlagChecked
  <2> QED BY <2>3, <2>4, FlagGoes
<1>2. ASSUME NEW row \in FlagRows, NEW f, UpdateFlag(r, f, row)
      PROVE  FlagsInv'
  <2>1. PICK given, call : /\ given = [id |-> f, row |-> row]
                           /\ call = IF row.key = flags[f].key THEN "flag.save" ELSE "flag.taken"
    OBVIOUS
  <2>2. given.row = row /\ call \in {"flag.save", "flag.taken"} /\ call # "free"
    BY <2>1
  <2>3. Receive(r, call, given) /\ UNCHANGED flags
    BY <1>2, <2>1 DEF UpdateFlag
  <2>4. FlagPrepared(call, given) /\ FlagChecked(call, given)
    BY <2>2 DEF FlagPrepared, FlagChecked
  <2> QED BY <2>2, <2>3, <2>4, FlagGoes
<1>3. ASSUME NEW f, RemoveFlag(r, f)
      PROVE  FlagsInv'
  <2>1. PICK given : given = [id |-> f]
    OBVIOUS
  <2>2. Receive(r, "flag.remove", given) /\ UNCHANGED flags
    BY <1>3, <2>1 DEF RemoveFlag
  <2>3. FlagPrepared("flag.remove", given) /\ FlagChecked("flag.remove", given)
    BY DEF FlagPrepared, FlagChecked
  <2> QED BY <2>2, <2>3, FlagGoes
<1>4. ASSUME NEW key \in FlagKeys, CheckFlag(r, key)
      PROVE  FlagsInv'
  <2>1. PICK given, call : given = Found(key, key) /\ call = AfterFlag(key)
    OBVIOUS
  <2>2. Receive(r, call, given) /\ UNCHANGED flags
    BY <1>4, <2>1 DEF CheckFlag
  <2>3. FlagPrepared(call, given) /\ FlagChecked(call, given)
    BY <2>1, FlagJudged DEF FlagsInv
  <2>4. call # "free"
    BY <2>1 DEF AfterFlag
  <2> QED BY <2>2, <2>3, <2>4, FlagGoes
<1>5. CASE FindFlag(r)
  <2>1. PICK given, call : given = Found(My(r).asked, My(r).next) /\ call = AfterFlag(My(r).next)
    OBVIOUS
  <2>2. /\ InFlight(r) /\ calls[r].at = "flag.find"
        /\ Await(r, call, given) /\ UNCHANGED flags
    BY <1>5, <2>1 DEF FindFlag, Awaits, InFlight
  <2>3. PICK asked, next, alone : asked = My(r).asked /\ next = My(r).next /\ alone = calls[r].alone
    OBVIOUS
  <2>4. asked \in FlagKeys /\ next \in FlagKeys
    BY <2>2, <2>3 DEF FlagsInv, FlagPrepared
  <2>5. alone => /\ Chain(next) \subseteq Chain(asked)
                 /\ \A k \in Chain(asked) : On(k) \/ k \in Chain(next)
    BY <2>2, <2>3 DEF FlagsInv, FlagChecked
  <2>6. /\ FlagPrepared(AfterFlag(next), Found(asked, next))
        /\ alone => FlagChecked(AfterFlag(next), Found(asked, next))
    BY <2>4, <2>5, FlagJudged DEF FlagsInv
  <2>7. call # "free"
    BY <2>1 DEF AfterFlag
  <2>8. ~Receive(r, call, given)
    BY <2>2 DEF Receive
  <2> QED BY <2>1, <2>2, <2>3, <2>6, <2>7, <2>8, FlagGoes
<1>6. CASE FindTaken(r)
  <2>1. InFlight(r) /\ calls[r].at = "flag.taken" /\ UNCHANGED flags
    BY <1>6 DEF FindTaken, Awaits, InFlight
  <2>2. CASE Named(My(r).row.key) = {}
    <3>1. AwaitNext(r, "flag.save")
      BY <1>6, <2>2 DEF FindTaken, Demand
    <3>2. PICK given : given = calls[r].my
      OBVIOUS
    <3>3. FlagPrepared("flag.save", given) /\ FlagChecked("flag.save", given)
      BY <2>1, <3>2 DEF FlagsInv, FlagPrepared, FlagChecked, My
    <3> QED BY <2>1, <3>1, <3>2, <3>3, FlagGoes
  <2>3. CASE Named(My(r).row.key) # {}
    BY <1>6, <2>1, <2>3, FlagAnswers DEF FindTaken, Demand, FlagsInv
  <2> QED BY <2>2, <2>3
<1>7. CASE InsertFlag(r)
  <2>1. InFlight(r) /\ calls[r].at = "flag.insert" /\ Answer(r)
    BY <1>7 DEF InsertFlag, Awaits, InFlight
  <2>2. PICK written : written = FlagRow(My(r).row)
    OBVIOUS
  <2>3. written \in WrittenFlag
    BY <2>1, <2>2, FlagWritten DEF FlagsInv, FlagPrepared
  <2>4. flags' = Append(flags, written) \/ flags' = flags
    BY <1>7, <2>2 DEF InsertFlag
  <2>5. flags' \in Seq(WrittenFlag)
    BY <2>3, <2>4, Inserted DEF FlagsInv
  <2> QED BY <2>1, <2>5, FlagAnswers
<1>8. CASE SaveFlag(r)
  <2>1. InFlight(r) /\ calls[r].at = "flag.save" /\ Answer(r)
    BY <1>8 DEF SaveFlag, Awaits, InFlight
  <2>2. FlagRow(My(r).row) \in WrittenFlag
    BY <2>1, FlagWritten DEF FlagsInv, FlagPrepared
  <2>3. flags' = [flags EXCEPT ![My(r).id] = FlagRow(My(r).row)] \/ flags' = flags
    BY <1>8 DEF SaveFlag
  <2>4. \A f \in DOMAIN flags : flags[f] \in WrittenFlag
    BY Ids DEF FlagsInv
  <2>5. flags' = [f \in DOMAIN flags |-> flags'[f]] /\ \A f \in DOMAIN flags : flags'[f] \in WrittenFlag
    BY <2>2, <2>3, <2>4 DEF FlagsInv
  <2>6. flags' \in Seq(WrittenFlag)
    BY <2>5, Rewritten DEF FlagsInv
  <2> QED BY <2>1, <2>6, FlagAnswers
<1>9. CASE DropFlag(r)
  <2>1. InFlight(r) /\ Answer(r) /\ flags' = [flags EXCEPT ![My(r).id].live = FALSE]
    BY <1>9 DEF DropFlag, Awaits, InFlight
  <2>2. \A f \in DOMAIN flags : flags[f] \in WrittenFlag
    BY Ids DEF FlagsInv
  <2>3. \A f \in DOMAIN flags : flags'[f] = flags[f] \/ flags'[f] = [flags[f] EXCEPT !.live = FALSE]
    BY <2>1
  <2>4. \A f \in DOMAIN flags : flags'[f] \in WrittenFlag
    BY <2>2, <2>3 DEF WrittenFlag
  <2>5. flags' = [f \in DOMAIN flags |-> flags'[f]]
    BY <2>1
  <2>6. flags' \in Seq(WrittenFlag)
    BY <2>4, <2>5, Rewritten DEF FlagsInv
  <2> QED BY <2>1, <2>6, FlagAnswers
<1>10. CASE AnswerCheck(r)
  BY <1>10, FlagAnswers DEF AnswerCheck, Awaits, InFlight, FlagsInv
<1>11. {row.key : row \in FlagRows} \subseteq FlagKeys
  BY DEF FlagKeys
<1> QED BY <1>1, <1>2, <1>3, <1>4, <1>5, <1>6, <1>7, <1>8, <1>9, <1>10, <1>11
        DEF FlagsNext, FlagCalls

\* The invariant holds at first,
LEMMA FlagsInvInit == HandlersInit /\ FlagsInit => FlagsInv
BY SlotsBegin, EmptySeq DEF FlagsInit, FlagsInv

\* and every step keeps it.
LEMMA FlagsInvNext ==
    ASSUME FlagsInv, [\E r \in Slots : FlagsNext(r)]_<<calls, flags>>
    PROVE  FlagsInv'
<1>1. CASE UNCHANGED <<calls, flags>>
  <2>1. SlotInv'
    BY <1>1, SlotsStay DEF FlagsInv
  <2>2. \A r \in Slots : FlagChecked(calls[r].at, My(r)) => FlagChecked(calls[r].at, My(r))'
    BY <1>1, FlagsSame DEF FlagChecked, My
  <2> QED BY <1>1, <2>1, <2>2 DEF FlagsInv, InFlight, My
<1> QED BY <1>1, FlagsActs

\* A check of a flag that overlaps with no other handler says yes exactly if
\* the flag and all flags that it depends on are there and on, circles
\* included: for all flags, dependencies and handlers.
THEOREM FlagsStay == FlagsSpec => []FlagsAnswered
<1>1. FlagsInv => FlagsAnswered
  BY DEF FlagsInv, FlagsAnswered, FlagChecked, Awaits, InFlight
<1> QED BY <1>1, FlagsInvInit, FlagsInvNext, PTL DEF FlagsSpec
=============================================================================

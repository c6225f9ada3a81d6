---------------------------- MODULE AccountsProofs ----------------------------
(***************************************************************************)
(* The sessions of an account stay within their limit up to the requests   *)
(* that race, nothing but a login signs in an account that is signed out   *)
(* everywhere, and a request that is not about the password changes it     *)
(* only if the password was changed while the request held an older copy:  *)
(* for every number of requests in flight and every limit.                 *)
(*                                                                         *)
(* The bound on sessions is not inductive: a handler counts them, revokes  *)
(* some, one save after the other, and inserts its own, while others do    *)
(* the same on counts of their own.  WayInv says what is true of any group *)
(* of handlers that have counted and are still to insert.                  *)
(***************************************************************************)
EXTENDS PasswordHistory, FiniteSetTheorems, TLAPS

-----------------------------------------------------------------------------
(* Types.                                                                  *)

Kinds == {"login", "refresh", "logout", "logoutAll", "resendOtp", "requestChange",
          "sendPhoneOtp", "verifyEmail", "verifyPhone", "confirmChange",
          "changePassword", "forgotPassword", "resetPassword", "updateProfile",
          "updateUser", "setPassword"}

\* The kinds of request that end with a new session.
Opening == {"login", "refresh"}

\* The calls of createSession.
SessionPcs == {"list", "limit", "insert"}

Busy == [kind: Kinds, pc: {"revoke", "revokeAll", "select", "update"} \cup SessionPcs,
         copy: User, dirty: SUBSET Columns, token: 0..MaxClock, victims: SUBSET Nat]

SessionRow == [token: Nat, active: BOOLEAN]

\* The refresh token that a request has signed is of some second up to t.
SignedBy(q, t) ==
    /\ q.pc \in SessionPcs => q.kind \in Opening
    /\ q.kind \in Opening /\ q.pc # "revoke" => q.copy.token \in 1..t
    /\ q.kind = "refresh" => q.copy.token # 0
    /\ q.kind = "login" => q.pc # "revoke"

\* A slot that holds q, when there are `rows' session rows.
SlotTyped(q, t, rows) ==
    /\ q \in {Idle} \cup Busy
    /\ SignedBy(q, t)
    /\ q.victims \subseteq 1..rows
    /\ q.pc # "limit" => q.victims = {}

SlotsTyped ==
    /\ DOMAIN req = Requests /\ req = [r \in Requests |-> req[r]]
    /\ \A r \in Requests : SlotTyped(req[r], clock, Len(sessions))

SessionsTyped ==
    /\ sessions \in Seq(SessionRow)
    /\ \A i \in DOMAIN sessions : sessions[i].token \in 1..clock

Typed ==
    /\ user \in User
    /\ clock \in 1..MaxClock /\ secrets \in 1..MaxSecrets
    /\ SessionsTyped
    /\ SlotsTyped

\* The requests that will insert a row; there is room for their rows.
Openers == {r \in Requests : req[r].kind \in Opening}
RoomKept == Len(sessions) + Cardinality(Openers) <= MaxRows

AccountInv == Typed /\ RoomKept

\* A request with a slot keeps it well-formed, and the others keep theirs: the
\* clock and the table only grow.
LEMMA SlotPut ==
    ASSUME Typed, NEW r \in Requests, NEW q, req' = [req EXCEPT ![r] = q],
           clock' \in Nat, clock' >= clock,
           Len(sessions') \in Nat, Len(sessions') >= Len(sessions),
           SlotTyped(q, clock, Len(sessions))
    PROVE  SlotsTyped'
<1>1. ASSUME NEW p, SlotTyped(p, clock, Len(sessions))
      PROVE  SlotTyped(p, clock', Len(sessions'))
  <2>1. clock \in Nat /\ Len(sessions) \in Nat
    BY AccountConstants DEF Typed, SessionsTyped
  <2> QED BY <1>1, <2>1 DEF SlotTyped, SignedBy
<1>2. req' = [s \in Requests |-> IF s = r THEN q ELSE req[s]]
  BY DEF Typed, SlotsTyped
<1>3. \A s \in Requests : SlotTyped(req[s], clock, Len(sessions))
  BY DEF Typed, SlotsTyped
<1>4. \A s \in Requests : SlotTyped(req'[s], clock', Len(sessions'))
  BY <1>1, <1>2, <1>3
<1> QED BY <1>2, <1>4 DEF SlotsTyped

\* No new opener and no new row: there is room as before.
LEMMA RoomStays ==
    ASSUME AccountInv, Len(sessions') = Len(sessions), Openers' \subseteq Openers
    PROVE  RoomKept'
<1>1. IsFiniteSet(Openers) /\ Len(sessions) \in Nat
  BY AccountConstants, FS_Subset DEF Openers, AccountInv, Typed, SessionsTyped
<1>2. Cardinality(Openers') <= Cardinality(Openers) /\ Cardinality(Openers) \in Nat
      /\ Cardinality(Openers') \in Nat
  BY <1>1, FS_Subset, FS_CardinalityType
<1> QED BY <1>1, <1>2, AccountConstants DEF AccountInv, RoomKept

\* A request arrives in a free slot.
LEMMA BeginTyped ==
    ASSUME AccountInv, NEW r \in Requests, NEW q \in Busy, req' = [req EXCEPT ![r] = q],
           q.victims = {}, SignedBy(q, clock), q.kind \in Opening => RoomForSession,
           UNCHANGED <<user, sessions, clock>>, secrets' \in 1..MaxSecrets
    PROVE  AccountInv'
<1>0. /\ clock \in Nat /\ clock >= clock /\ Len(sessions) \in Nat /\ IsFiniteSet(Openers)
      /\ Openers \subseteq Requests /\ IsFiniteSet(Requests)
  BY AccountConstants, FS_Subset DEF AccountInv, Typed, SessionsTyped, Openers
<1>1. SlotsTyped'
  <2>1. SlotTyped(q, clock, Len(sessions))
    BY DEF SlotTyped
  <2>2. /\ clock' \in Nat /\ clock' >= clock
        /\ Len(sessions') \in Nat /\ Len(sessions') >= Len(sessions)
    BY <1>0
  <2> QED BY <2>1, <2>2, SlotPut DEF AccountInv
<1>2. req' = [s \in Requests |-> IF s = r THEN q ELSE req[s]]
  BY DEF AccountInv, Typed, SlotsTyped
<1>3. CASE q.kind \in Opening
  <2>1. Len(sessions) + Cardinality(Openers) < MaxRows
    BY <1>3 DEF RoomForSession, Openers, Opening
  <2>2. Openers' \subseteq Openers \cup {r}
    BY <1>2 DEF Openers
  <2>n. Cardinality(Openers) \in Nat
    BY <1>0, FS_CardinalityType
  <2>a. /\ IsFiniteSet(Openers \cup {r})
        /\ Cardinality(Openers \cup {r}) = IF r \in Openers THEN Cardinality(Openers)
                                           ELSE Cardinality(Openers) + 1
    BY <1>0, FS_AddElement
  <2>3. /\ Cardinality(Openers \cup {r}) <= Cardinality(Openers) + 1
        /\ Cardinality(Openers) \in Nat /\ IsFiniteSet(Openers \cup {r})
    BY <2>n, <2>a
  <2>4. /\ Cardinality(Openers') <= Cardinality(Openers \cup {r})
        /\ Cardinality(Openers') \in Nat /\ Cardinality(Openers \cup {r}) \in Nat
    BY <2>2, <2>3, FS_Subset, FS_CardinalityType
  <2>5. RoomKept'
    BY <1>0, <2>1, <2>3, <2>4, AccountConstants DEF RoomKept
  <2> QED BY <1>1, <2>5 DEF AccountInv, Typed, SessionsTyped
<1>4. CASE q.kind \notin Opening
  <2>1. Openers' \subseteq Openers
    BY <1>2, <1>4 DEF Openers
  <2>2. RoomKept'
    BY <2>1, RoomStays
  <2> QED BY <1>1, <2>2 DEF AccountInv, Typed, SessionsTyped
<1> QED BY <1>3, <1>4

\* The same of the handlers that start by reading the row.
LEMMA StartTyped ==
    ASSUME AccountInv, NEW r \in Requests, NEW kind \in Kinds \ {"refresh"},
           NEW pc \in {"select", "revokeAll"}, NEW copy \in User, Start(r, kind, pc, copy),
           kind = "login" => RoomForSession /\ copy.token \in 1..clock,
           UNCHANGED <<user, sessions, clock>>, secrets' \in 1..MaxSecrets
    PROVE  AccountInv'
<1> DEFINE q == [Idle EXCEPT !.kind = kind, !.pc = pc, !.copy = copy]
<1>1. /\ q.kind = kind /\ q.pc = pc /\ q.copy = copy /\ q.victims = {}
      /\ q.dirty = {} /\ q.token = 0
  BY DEF Idle
<1>2. req' = [req EXCEPT ![r] = q]
  BY DEF Start
<1>3. q \in Busy
  <2>1. 0 \in 0..MaxClock
    BY AccountConstants
  <2> QED BY <2>1 DEF Busy, Idle
<1> HIDE DEF q
<1>4. SignedBy(q, clock) /\ (q.kind \in Opening => RoomForSession)
  BY <1>1 DEF SignedBy, SessionPcs, Opening
<1> QED BY <1>1, <1>2, <1>3, <1>4, BeginTyped

LEMMA EditTyped ==
    ASSUME AccountInv, NEW r \in Requests, NEW kind \in Kinds \ Opening, NEW copy \in User,
           Edit(r, kind, copy) \/ Issue(r, kind, copy)
    PROVE  AccountInv'
<1>1. /\ Start(r, kind, "select", copy) /\ UNCHANGED <<user, sessions, clock>>
      /\ kind \in Kinds \ {"refresh"} /\ kind # "login"
  BY DEF Edit, Issue, Opening
<1>2. secrets' \in 1..MaxSecrets
  BY AccountConstants DEF Edit, Issue, AccountInv, Typed
<1> QED BY <1>1, <1>2, StartTyped

\* What the handlers make of a row is a row.
LEMMA EntityTyped ==
    ASSUME NEW row \in User
    PROVE  /\ SignedOut(row) \in User /\ CodeUsed(row) \in User
           /\ \A p \in Passwords : [row EXCEPT !.password = p] \in User
           /\ \A b \in BOOLEAN : /\ [row EXCEPT !.emailVerified = b] \in User
                                /\ [row EXCEPT !.phoneVerified = b] \in User
           /\ secrets \in Nat /\ secrets < MaxSecrets =>
                 NewCode(row) \in User /\ [row EXCEPT !.reset = secrets + 1] \in User
<1>0. /\ 0 \in 0..MaxClock /\ 0 \in 0..MaxSecrets /\ 0 \in 0..OtpMax
      /\ secrets \in Nat /\ secrets < MaxSecrets => secrets + 1 \in 0..MaxSecrets
  BY AccountConstants
<1>1. SignedOut(row) \in User
  BY <1>0 DEF User, SignedOut
<1>2. CodeUsed(row) \in User
  BY <1>0 DEF User, CodeUsed
<1>3. /\ \A p \in Passwords : [row EXCEPT !.password = p] \in User
      /\ \A b \in BOOLEAN : /\ [row EXCEPT !.emailVerified = b] \in User
                           /\ [row EXCEPT !.phoneVerified = b] \in User
  BY DEF User
<1>4. ASSUME secrets \in Nat, secrets < MaxSecrets
      PROVE  NewCode(row) \in User /\ [row EXCEPT !.reset = secrets + 1] \in User
  BY <1>0, <1>4 DEF User, NewCode
<1> QED BY <1>1, <1>2, <1>3, <1>4

\* The three handlers that take a code.
LEMMA CodeTyped ==
    ASSUME AccountInv, NEW r \in Requests, NEW kind \in Kinds \ Opening, NEW done \in User,
           TakeCode(r, kind, done)
    PROVE  AccountInv'
<1>1. CodeUsed(done) \in User
  BY EntityTyped
<1>2. user \in User /\ user.attempts < OtpMax
  BY DEF AccountInv, Typed, TakeCode
<1>3. [user EXCEPT !.attempts = @ + 1] \in User
  BY <1>2, AccountConstants DEF User
<1> QED BY <1>1, <1>3, EditTyped DEF TakeCode

\* Signing in and out.
LEMMA SessionRoutesTyped ==
    ASSUME AccountInv, NEW r \in Requests, SessionRoutes(r)
    PROVE  AccountInv'
<1>0. /\ user \in User /\ clock \in 1..clock /\ clock \in 0..MaxClock
      /\ 1..clock \subseteq 0..MaxClock /\ secrets \in 1..MaxSecrets
      /\ \A i \in DOMAIN sessions : sessions[i].token \in 1..clock
  BY AccountConstants DEF AccountInv, Typed, SessionsTyped
<1>1. CASE Login(r)
  <2>1. [user EXCEPT !.token = clock] \in User /\ [user EXCEPT !.token = clock].token = clock
    BY <1>0 DEF User
  <2>2. /\ RoomForSession /\ UNCHANGED <<user, sessions, clock>> /\ secrets' \in 1..MaxSecrets
        /\ Start(r, "login", "select", [user EXCEPT !.token = clock])
    BY <1>0, <1>1 DEF Login
  <2>3. "login" \in Kinds \ {"refresh"}
    BY DEF Kinds
  <2> QED BY <1>0, <2>1, <2>2, <2>3, StartTyped
<1>2. CASE Refresh(r)
  <2> PICK i \in DOMAIN sessions :
          /\ Matches(sessions[i].token, user.token)
          /\ req' = [req EXCEPT ![r] = [Idle EXCEPT !.kind = "refresh", !.pc = "revoke",
                                          !.copy = user, !.token = sessions[i].token]]
    BY <1>2 DEF Refresh
  <2> DEFINE q == [Idle EXCEPT !.kind = "refresh", !.pc = "revoke", !.copy = user,
                               !.token = sessions[i].token]
  <2>1. sessions[i].token \in 0..MaxClock
    BY <1>0
  <2>2. q.kind = "refresh" /\ q.pc = "revoke" /\ q.copy = user /\ q.victims = {}
    BY DEF Idle
  <2>3. q \in Busy
    BY <1>0, <2>1 DEF Busy, Idle, Kinds
  <2>4. req' = [req EXCEPT ![r] = q]
    OBVIOUS
  <2> HIDE DEF q
  <2>5. SignedBy(q, clock)
    BY <2>2 DEF SignedBy, SessionPcs, Matches
  <2> QED BY <1>0, <1>2, <2>2, <2>3, <2>4, <2>5, BeginTyped DEF Refresh
<1>3. CASE Logout(r)
  <2>0. SignedOut(user) \in User
    BY <1>0, EntityTyped
  <2>1. CASE Edit(r, "logout", SignedOut(user))
    BY <2>0, <2>1, EditTyped DEF Kinds, Opening
  <2>2. ASSUME NEW i \in DOMAIN sessions,
               req' = [req EXCEPT ![r] = [Idle EXCEPT !.kind = "logout", !.pc = "revoke",
                                    !.copy = SignedOut(user), !.token = sessions[i].token]],
               UNCHANGED <<user, sessions, clock, secrets>>
        PROVE  AccountInv'
    <3> DEFINE q == [Idle EXCEPT !.kind = "logout", !.pc = "revoke",
                                 !.copy = SignedOut(user), !.token = sessions[i].token]
    <3>1. sessions[i].token \in 0..MaxClock
      BY <1>0
    <3>2. q.kind = "logout" /\ q.pc = "revoke" /\ q.victims = {}
      BY DEF Idle
    <3>3. q \in Busy
      BY <2>0, <3>1 DEF Busy, Idle, Kinds
    <3>4. req' = [req EXCEPT ![r] = q]
      BY <2>2
    <3> HIDE DEF q
    <3>5. SignedBy(q, clock) /\ q.kind \notin Opening
      BY <3>2 DEF SignedBy, SessionPcs, Opening
    <3> QED BY <1>0, <2>2, <3>2, <3>3, <3>4, <3>5, BeginTyped
  <2> QED BY <1>3, <2>1, <2>2 DEF Logout
<1>4. CASE LogoutAll(r)
  <2>1. SignedOut(user) \in User
    BY <1>0, EntityTyped
  <2> QED BY <1>0, <1>4, <2>1, StartTyped DEF LogoutAll, Kinds
<1> QED BY <1>1, <1>2, <1>3, <1>4 DEF SessionRoutes

\* Codes, passwords, telephone numbers, administrators.
LEMMA EditRoutesTyped ==
    ASSUME AccountInv, NEW r \in Requests,
           VerificationRoutes(r) \/ PasswordRoutes(r) \/ PhoneRoutes(r) \/ AdminUpdates(r)
    PROVE  AccountInv'
<1>0. user \in User /\ secrets \in Nat
  BY AccountConstants DEF AccountInv, Typed
<1> USE EditTyped, EntityTyped DEF Kinds, Opening
<1>1. CASE VerificationRoutes(r)
  <2>1. CASE VerifyEmail(r)
    BY <1>0, <2>1, CodeTyped DEF VerifyEmail
  <2>2. CASE ResendOtp(r)
    BY <1>0, <2>2 DEF ResendOtp, Issue
  <2> QED BY <1>1, <2>1, <2>2 DEF VerificationRoutes
<1>2. CASE ForgotPassword(r)
  BY <1>0, <1>2 DEF ForgotPassword, Issue
<1>3. CASE ResetPassword(r)
  <2> PICK p \in Passwords :
          Edit(r, "resetPassword", SignedOut([user EXCEPT !.password = p, !.reset = 0]))
    BY <1>3 DEF ResetPassword
  <2>1. [user EXCEPT !.password = p, !.reset = 0] \in User
    <3>1. 0 \in 0..MaxSecrets
      BY AccountConstants
    <3> QED BY <1>0, <3>1 DEF User
  <2>2. SignedOut([user EXCEPT !.password = p, !.reset = 0]) \in User
    BY <2>1
  <2> QED BY <2>2
<1>4. CASE ChangePassword(r)
  <2> PICK p \in Passwords :
          Edit(r, "changePassword", SignedOut([user EXCEPT !.password = p]))
    BY <1>4 DEF ChangePassword
  <2> QED BY <1>0
<1>5. CASE RequestChangePassword(r)
  BY <1>0, <1>5 DEF RequestChangePassword, Issue
<1>6. CASE ConfirmChangePassword(r)
  BY <1>0, <1>6, CodeTyped DEF ConfirmChangePassword
<1>7. CASE SendPhoneOtp(r)
  <2>1. CASE Issue(r, "sendPhoneOtp", NewCode(user))
    BY <1>0, <2>1 DEF Issue
  <2>2. CASE Issue(r, "sendPhoneOtp", [NewCode(user) EXCEPT !.phoneVerified = FALSE])
    <3>1. NewCode(user) \in User
      BY <1>0, <2>2 DEF Issue
    <3>2. [NewCode(user) EXCEPT !.phoneVerified = FALSE] \in User
      BY <3>1
    <3> QED BY <2>2, <3>2
  <2> QED BY <1>7, <2>1, <2>2 DEF SendPhoneOtp
<1>8. CASE VerifyPhone(r)
  BY <1>0, <1>8, CodeTyped DEF VerifyPhone
<1>9. CASE ChangePhone(r)
  BY <1>0, <1>9 DEF ChangePhone
<1>10. CASE AdminUpdates(r)
  <2> PICK email \in BOOLEAN, phone \in BOOLEAN :
        LET row == [user EXCEPT !.emailVerified = email, !.phoneVerified = phone]
        IN  \/ Edit(r, "updateUser", row)
            \/ \E p \in Passwords : Edit(r, "setPassword", [row EXCEPT !.password = p])
    BY <1>10 DEF AdminUpdates
  <2> DEFINE row == [user EXCEPT !.emailVerified = email, !.phoneVerified = phone]
  <2>1. row \in User
    BY <1>0 DEF User
  <2>2. \/ Edit(r, "updateUser", row)
        \/ \E p \in Passwords : Edit(r, "setPassword", [row EXCEPT !.password = p])
    OBVIOUS
  <2> HIDE DEF row
  <2> QED BY <2>1, <2>2
<1> QED BY <1>1, <1>2, <1>3, <1>4, <1>5, <1>6, <1>7, <1>8, <1>9, <1>10
        DEF PasswordRoutes, PhoneRoutes

\* Revoking changes nothing but who is active.
LEMMA RevokedRows ==
    ASSUME Typed, NEW rows, sessions' = Revoked(rows)
    PROVE  /\ sessions' \in Seq(SessionRow) /\ Len(sessions') = Len(sessions)
           /\ \A i \in DOMAIN sessions :
                 /\ sessions'[i].token = sessions[i].token
                 /\ sessions'[i].active <=> sessions[i].active /\ i \notin rows
<1>1. /\ Len(sessions) \in Nat /\ DOMAIN sessions = 1..Len(sessions)
      /\ \A i \in DOMAIN sessions : sessions[i] \in SessionRow
  BY DEF Typed, SessionsTyped
<1>2. /\ DOMAIN sessions' = DOMAIN sessions
      /\ \A i \in DOMAIN sessions :
            /\ sessions'[i] \in SessionRow
            /\ sessions'[i].token = sessions[i].token
            /\ sessions'[i].active <=> sessions[i].active /\ i \notin rows
  BY <1>1 DEF Revoked, SessionRow
<1>3. sessions' = [i \in 1..Len(sessions) |-> sessions'[i]]
  BY <1>1 DEF Revoked
<1>4. sessions' \in Seq(SessionRow) /\ Len(sessions') = Len(sessions)
  BY <1>1, <1>2, <1>3
<1> QED BY <1>2, <1>4

\* A request goes on, or ends.
LEMMA MoveTyped ==
    ASSUME AccountInv, NEW r \in Requests, NEW q, req' = [req EXCEPT ![r] = q],
           SlotTyped(q, clock, Len(sessions)),
           q.kind \in Opening => req[r].kind \in Opening,
           user' \in User, UNCHANGED <<clock, secrets>>,
           \/ UNCHANGED sessions
           \/ \E rows : sessions' = Revoked(rows)
    PROVE  AccountInv'
<1>0. Typed /\ SessionsTyped /\ clock \in Nat /\ Len(sessions) \in Nat
  BY AccountConstants DEF AccountInv, Typed, SessionsTyped
<1>1. /\ Len(sessions') = Len(sessions) /\ sessions' \in Seq(SessionRow)
      /\ \A i \in DOMAIN sessions' : sessions'[i].token \in 1..clock
  <2>1. CASE UNCHANGED sessions
    BY <1>0, <2>1 DEF SessionsTyped
  <2>2. ASSUME NEW rows, sessions' = Revoked(rows)
        PROVE  /\ Len(sessions') = Len(sessions) /\ sessions' \in Seq(SessionRow)
               /\ \A i \in DOMAIN sessions' : sessions'[i].token \in 1..clock
    <3>1. DOMAIN sessions' = DOMAIN sessions
      BY <2>2 DEF Revoked
    <3> QED BY <1>0, <2>2, <3>1, RevokedRows DEF SessionsTyped
  <2> QED BY <2>1, <2>2
<1>2. SlotsTyped'
  <2>1. /\ clock' \in Nat /\ clock' >= clock
        /\ Len(sessions') \in Nat /\ Len(sessions') >= Len(sessions)
    BY <1>0, <1>1
  <2> QED BY <1>0, <2>1, SlotPut
<1>3. Openers' \subseteq Openers
  BY <1>0 DEF Openers, Typed, SlotsTyped
<1>4. RoomKept'
  BY <1>1, <1>3, RoomStays
<1> QED BY <1>0, <1>1, <1>2, <1>4 DEF AccountInv, Typed, SessionsTyped

\* A free slot is well-formed, and opens no session.
LEMMA IdleTyped ==
    /\ \A t, rows : SlotTyped(Idle, t, rows)
    /\ Idle.kind \notin Opening /\ Idle.pc = "idle" /\ Idle.victims = {}
<1>1. /\ Idle.kind = "none" /\ Idle.pc = "idle" /\ Idle.victims = {}
  BY DEF Idle
<1>2. Idle.kind \notin Opening
  BY <1>1 DEF Opening
<1>3. ASSUME NEW t, NEW rows PROVE SlotTyped(Idle, t, rows)
  BY <1>1, <1>2 DEF SlotTyped, SignedBy, SessionPcs
<1> QED BY <1>1, <1>2, <1>3

\* A slot in use.
LEMMA BusyTyped ==
    ASSUME AccountInv, NEW r \in Requests, req[r].pc # "idle"
    PROVE  req[r] \in Busy /\ SlotTyped(req[r], clock, Len(sessions))
BY IdleTyped DEF AccountInv, Typed, SlotsTyped, SlotTyped

\* The calls of save.
LEMMA SaveTyped ==
    ASSUME AccountInv, NEW r \in Requests, SelectUser(r) \/ UpdateUser(r)
    PROVE  AccountInv'
<1> DEFINE q == req[r]
<1>0. user \in User
  BY DEF AccountInv, Typed
<1>1. /\ q \in Busy /\ SlotTyped(q, clock, Len(sessions))
      /\ q.pc \in {"select", "update"}
  BY BusyTyped DEF SelectUser, UpdateUser
<1>2. ASSUME NEW p, p \in Busy, p.kind = q.kind, p.copy = q.copy, p.victims = q.victims,
             p.pc \in {"update", AfterSave(q)}, Advance(r, p),
             user' \in User, UNCHANGED <<sessions, clock, secrets>>
      PROVE  AccountInv'
  <2>1. CASE p.pc = "idle"
    BY <1>2, <2>1, MoveTyped, IdleTyped DEF Advance
  <2>2. CASE p.pc # "idle"
    <3>1. SlotTyped(p, clock, Len(sessions))
      BY <1>1, <1>2, <2>2 DEF SlotTyped, SignedBy, AfterSave, SessionPcs, Opening
    <3>2. req' = [req EXCEPT ![r] = p] /\ (p.kind \in Opening => req[r].kind \in Opening)
      BY <1>2, <2>2 DEF Advance
    <3> QED BY <1>2, <3>1, <3>2, MoveTyped
  <2> QED BY <2>1, <2>2
<1>3. AfterSave(q) \in {"idle", "list"}
  BY DEF AfterSave
<1>4. CASE SelectUser(r)
  <2> DEFINE dirty == {c \in Columns : q.copy[c] # user[c]} \cup Rehashed(q)
  <2>1. dirty \subseteq Columns
    BY DEF Rehashed, Columns
  <2>2. \/ Advance(r, [q EXCEPT !.pc = AfterSave(q)])
        \/ Advance(r, [q EXCEPT !.pc = "update", !.dirty = dirty])
    BY <1>4 DEF SelectUser
  <2> HIDE DEF dirty
  <2>3. CASE Advance(r, [q EXCEPT !.pc = AfterSave(q)]) /\ AfterSave(q) = "list"
    <3> DEFINE p == [q EXCEPT !.pc = AfterSave(q)]
    <3>1. /\ p \in Busy /\ p.kind = q.kind /\ p.copy = q.copy /\ p.victims = q.victims
          /\ p.pc = AfterSave(q)
      BY <1>1, <2>3 DEF Busy, SessionPcs
    <3>2. Advance(r, p)
      BY <2>3
    <3> HIDE DEF p
    <3> QED BY <1>0, <1>2, <1>4, <3>1, <3>2 DEF SelectUser
  <2>4. CASE Advance(r, [q EXCEPT !.pc = AfterSave(q)]) /\ AfterSave(q) = "idle"
    <3>1. req' = [req EXCEPT ![r] = Idle]
      BY <1>1, <2>4 DEF Advance, Busy
    <3> QED BY <1>0, <1>4, <3>1, MoveTyped, IdleTyped DEF SelectUser
  <2>5. CASE Advance(r, [q EXCEPT !.pc = "update", !.dirty = dirty])
    <3> DEFINE p == [q EXCEPT !.pc = "update", !.dirty = dirty]
    <3>1. /\ p \in Busy /\ p.kind = q.kind /\ p.copy = q.copy /\ p.victims = q.victims
          /\ p.pc = "update"
      BY <1>1, <2>1 DEF Busy
    <3>2. Advance(r, p)
      BY <2>5
    <3> HIDE DEF p
    <3> QED BY <1>0, <1>2, <1>4, <3>1, <3>2 DEF SelectUser
  <2> QED BY <1>3, <2>2, <2>3, <2>4, <2>5
<1>5. CASE UpdateUser(r)
  <2>1. q.copy \in User
    BY <1>1 DEF Busy
  <2>2. user' \in User
    BY <1>0, <1>5, <2>1 DEF UpdateUser, User, Columns
  <2> DEFINE p == [q EXCEPT !.pc = AfterSave(q), !.dirty = {}]
  <2>3. Advance(r, p)
    BY <1>5 DEF UpdateUser
  <2>4. CASE AfterSave(q) = "list"
    <3>1. /\ p \in Busy /\ p.kind = q.kind /\ p.copy = q.copy /\ p.victims = q.victims
          /\ p.pc = AfterSave(q)
      BY <1>1, <2>4 DEF Busy, SessionPcs
    <3> HIDE DEF p
    <3> QED BY <1>2, <1>5, <2>2, <2>3, <3>1 DEF UpdateUser
  <2>5. CASE AfterSave(q) = "idle"
    <3>1. req' = [req EXCEPT ![r] = Idle]
      BY <1>1, <2>3, <2>5 DEF Advance, Busy
    <3> QED BY <1>5, <2>2, <3>1, MoveTyped, IdleTyped DEF UpdateUser
  <2> QED BY <1>3, <2>4, <2>5
<1> QED BY <1>4, <1>5

\* The calls that revoke sessions on the way to a save.
LEMMA RevokeCallsTyped ==
    ASSUME AccountInv, NEW r \in Requests, RevokeSession(r) \/ RevokeAllUserSessions(r)
    PROVE  AccountInv'
<1> DEFINE q == req[r]
<1>0. /\ user \in User /\ clock \in 0..MaxClock /\ clock \in 1..clock
  BY AccountConstants DEF AccountInv, Typed
<1>1. /\ q \in Busy /\ SlotTyped(q, clock, Len(sessions))
      /\ q.pc \in {"revoke", "revokeAll"} /\ q.victims = {}
  BY BusyTyped DEF RevokeSession, RevokeAllUserSessions, SlotTyped
<1>2. ASSUME NEW p, p \in Busy, p.pc = "select", p.kind = q.kind, p.victims = {},
             p.kind \in Opening => p.copy.token \in 1..clock,
             req' = [req EXCEPT ![r] = p], UNCHANGED <<user, clock, secrets>>,
             \E rows : sessions' = Revoked(rows)
      PROVE  AccountInv'
  <2>1. SlotTyped(p, clock, Len(sessions))
    <3>1. p.kind = "refresh" => p.copy.token # 0
      BY <1>0, <1>2 DEF Opening
    <3> QED BY <1>2, <3>1 DEF SlotTyped, SignedBy, SessionPcs
  <2> QED BY <1>0, <1>2, <2>1, MoveTyped
<1>3. CASE RevokeAllUserSessions(r)
  <2> DEFINE p == [q EXCEPT !.pc = "select"]
  <2>1. /\ p \in Busy /\ p.pc = "select" /\ p.kind = q.kind /\ p.victims = {}
        /\ p.copy = q.copy
    BY <1>1 DEF Busy
  <2>2. req' = [req EXCEPT ![r] = p]
    BY <1>3 DEF RevokeAllUserSessions
  <2>3. p.kind \in Opening => p.copy.token \in 1..clock
    BY <1>1, <1>3, <2>1 DEF RevokeAllUserSessions, SlotTyped, SignedBy
  <2> HIDE DEF p
  <2> QED BY <1>2, <1>3, <2>1, <2>2, <2>3 DEF RevokeAllUserSessions
<1>4. CASE RevokeSession(r) /\ q.kind # "refresh" /\ q.kind # "login"
  <2> DEFINE p == [q EXCEPT !.pc = "select"]
  <2>1. /\ p \in Busy /\ p.pc = "select" /\ p.kind = q.kind /\ p.victims = {}
    BY <1>1 DEF Busy
  <2>2. req' = [req EXCEPT ![r] = p]
    BY <1>4 DEF RevokeSession
  <2>3. p.kind \notin Opening
    BY <1>4, <2>1 DEF Opening
  <2> HIDE DEF p
  <2> QED BY <1>2, <1>4, <2>1, <2>2, <2>3 DEF RevokeSession
<1>5. CASE RevokeSession(r) /\ q.kind = "refresh"
  <2> DEFINE p == [q EXCEPT !.pc = "select", !.copy.token = clock]
  <2>1. q.copy \in User
    BY <1>1 DEF Busy
  <2>2. [q.copy EXCEPT !.token = clock] \in User /\ [q.copy EXCEPT !.token = clock].token = clock
    BY <1>0, <2>1 DEF User
  <2>3. /\ p \in Busy /\ p.pc = "select" /\ p.kind = q.kind /\ p.victims = {}
        /\ p.copy = [q.copy EXCEPT !.token = clock]
    BY <1>1, <2>2 DEF Busy
  <2>4. req' = [req EXCEPT ![r] = p]
    BY <1>5 DEF RevokeSession
  <2> HIDE DEF p
  <2>5. p.copy.token \in 1..clock
    BY <1>0, <2>2, <2>3
  <2> QED BY <1>2, <1>5, <2>3, <2>4, <2>5 DEF RevokeSession
<1>6. ~(RevokeSession(r) /\ q.kind = "login")
  BY <1>1 DEF RevokeSession, SlotTyped, SignedBy
<1> QED BY <1>3, <1>4, <1>5, <1>6

\* createSession: counting, revoking the oldest, inserting.
LEMMA CreateTyped ==
    ASSUME AccountInv, NEW r \in Requests,
           EnforceSessionLimit(r) \/ RevokeOldSession(r) \/ InsertSession(r)
    PROVE  AccountInv'
<1> DEFINE q == req[r]
<1>0. /\ user \in User /\ Typed /\ clock \in Nat /\ Len(sessions) \in Nat
      /\ DOMAIN sessions = 1..Len(sessions)
  BY AccountConstants DEF AccountInv, Typed, SessionsTyped
<1>1. /\ q \in Busy /\ SlotTyped(q, clock, Len(sessions)) /\ q.pc \in SessionPcs
      /\ q.kind \in Opening
  BY BusyTyped DEF EnforceSessionLimit, RevokeOldSession, InsertSession, SessionPcs,
     SlotTyped, SignedBy
<1>2. ASSUME NEW p, p \in Busy, p.kind = q.kind, p.copy = q.copy,
             p.pc \in {"limit", "insert"}, p.victims \subseteq DOMAIN sessions,
             p.pc = "insert" => p.victims = {},
             req' = [req EXCEPT ![r] = p], UNCHANGED <<user, clock, secrets>>,
             UNCHANGED sessions \/ \E rows : sessions' = Revoked(rows)
      PROVE  AccountInv'
  <2>1. SlotTyped(p, clock, Len(sessions))
    BY <1>0, <1>1, <1>2 DEF SlotTyped, SignedBy, SessionPcs, Opening
  <2> QED BY <1>0, <1>1, <1>2, <2>1, MoveTyped
<1>3. CASE EnforceSessionLimit(r)
  <2>1. CASE req' = [req EXCEPT ![r].pc = "insert"]
    <3> DEFINE p == [q EXCEPT !.pc = "insert"]
    <3>1. /\ p \in Busy /\ p.kind = q.kind /\ p.copy = q.copy /\ p.pc = "insert"
          /\ p.victims = q.victims
      BY <1>1 DEF Busy, SessionPcs
    <3>2. req' = [req EXCEPT ![r] = p]
      BY <2>1
    <3>3. q.victims = {}
      BY <1>1, <1>3 DEF EnforceSessionLimit, SlotTyped
    <3> HIDE DEF p
    <3> QED BY <1>2, <1>3, <3>1, <3>2, <3>3 DEF EnforceSessionLimit
  <2>2. ASSUME NEW oldest \in SUBSET Active,
               req' = [req EXCEPT ![r].pc = "limit", ![r].victims = oldest]
        PROVE  AccountInv'
    <3> DEFINE p == [q EXCEPT !.pc = "limit", !.victims = oldest]
    <3>0. oldest \subseteq DOMAIN sessions /\ oldest \in SUBSET Nat
      BY <1>0 DEF Active
    <3>1. /\ p \in Busy /\ p.kind = q.kind /\ p.copy = q.copy /\ p.pc = "limit"
          /\ p.victims = oldest
      BY <1>1, <3>0 DEF Busy, SessionPcs
    <3>2. req' = [req EXCEPT ![r] = p]
      BY <1>0, <2>2 DEF Typed, SlotsTyped
    <3> HIDE DEF p
    <3> QED BY <1>2, <1>3, <3>0, <3>1, <3>2 DEF EnforceSessionLimit
  <2> QED BY <1>3, <2>1, <2>2 DEF EnforceSessionLimit
<1>4. CASE RevokeOldSession(r)
  <2> PICK i \in q.victims :
          LET rest == q.victims \ {i}
          IN  /\ sessions' = Revoked({i})
              /\ req' = [req EXCEPT ![r].victims = rest,
                                    ![r].pc = IF rest = {} THEN "insert" ELSE "limit"]
              /\ UNCHANGED <<user, clock, secrets>>
    BY <1>4 DEF RevokeOldSession
  <2> DEFINE rest == q.victims \ {i}
             pc == IF rest = {} THEN "insert" ELSE "limit"
             p == [q EXCEPT !.victims = rest, !.pc = pc]
  <2>1. /\ p \in Busy /\ p.kind = q.kind /\ p.copy = q.copy /\ p.pc = pc
        /\ p.victims = rest
    BY <1>1 DEF Busy, SessionPcs
  <2>2. req' = [req EXCEPT ![r] = p]
    BY <1>0 DEF Typed, SlotsTyped
  <2>3. rest \subseteq DOMAIN sessions /\ pc \in {"limit", "insert"}
        /\ (pc = "insert" => rest = {})
    BY <1>0, <1>1 DEF SlotTyped
  <2> HIDE DEF p, rest, pc
  <2> QED BY <1>2, <1>4, <2>1, <2>2, <2>3
<1>5. CASE InsertSession(r)
  <2> DEFINE new == [token |-> q.copy.token, active |-> TRUE]
  <2>0. q.copy.token \in 1..clock
    BY <1>1, <1>5 DEF SlotTyped, SignedBy, InsertSession
  <2>1. new \in SessionRow
    BY <1>0, <2>0 DEF SessionRow
  <2>2. sessions' = Append(sessions, new) /\ sessions \in Seq(SessionRow)
    BY <1>0, <1>5 DEF InsertSession, Typed, SessionsTyped
  <2>3. /\ sessions' \in Seq(SessionRow) /\ Len(sessions') = Len(sessions) + 1
        /\ DOMAIN sessions' = 1..(Len(sessions) + 1)
        /\ \A i \in 1..Len(sessions) : sessions'[i] = sessions[i]
        /\ sessions'[Len(sessions) + 1] = new
    <3> HIDE DEF new
    <3> QED BY <1>0, <2>1, <2>2
  <2>4. SessionsTyped'
    <3>1. clock' = clock /\ new.token \in 1..clock
      BY <1>5, <2>0 DEF InsertSession
    <3>2. \A i \in 1..Len(sessions) : sessions[i].token \in 1..clock
      BY <1>0 DEF Typed, SessionsTyped
    <3> HIDE DEF new
    <3>3. \A i \in DOMAIN sessions' : sessions'[i].token \in 1..clock
      BY <1>0, <2>3, <3>1, <3>2
    <3> QED BY <2>3, <3>1, <3>3 DEF SessionsTyped
  <2>5. SlotsTyped'
    <3>1. /\ clock' \in Nat /\ clock' >= clock
          /\ Len(sessions') \in Nat /\ Len(sessions') >= Len(sessions)
          /\ req' = [req EXCEPT ![r] = Idle]
      BY <1>0, <1>5, <2>3 DEF InsertSession
    <3> QED BY <1>0, <3>1, SlotPut, IdleTyped
  <2>6. RoomKept'
    <3>0. Openers' = Openers \ {r} /\ r \in Openers
      BY <1>0, <1>1, <1>5, IdleTyped DEF InsertSession, Openers, Typed, SlotsTyped
    <3>1. IsFiniteSet(Openers)
      BY AccountConstants, FS_Subset DEF Openers
    <3>2. /\ Cardinality(Openers \ {r}) = Cardinality(Openers) - 1
          /\ Cardinality(Openers) \in Nat
      BY <3>0, <3>1, FS_RemoveElement, FS_CardinalityType
    <3> QED BY <1>0, <2>3, <3>0, <3>2, AccountConstants DEF AccountInv, RoomKept
  <2> QED BY <1>0, <1>5, <2>4, <2>5, <2>6 DEF InsertSession, AccountInv, Typed
<1> QED BY <1>3, <1>4, <1>5

\* What other writers of active_sessions and the clock do while requests wait.
LEMMA OthersTyped ==
    ASSUME AccountInv,
           \/ Tick
           \/ UNCHANGED vars
           \/ UNCHANGED <<user, req, clock, secrets>> /\ \E rows : sessions' = Revoked(rows)
    PROVE  AccountInv'
<1>0. Typed /\ SessionsTyped /\ SlotsTyped /\ clock \in Nat /\ Len(sessions) \in Nat
  BY AccountConstants DEF AccountInv, Typed, SessionsTyped
<1>1. CASE Tick
  <2>1. /\ clock' \in 1..MaxClock /\ clock' = clock + 1 /\ 1..clock \subseteq 1..clock'
        /\ UNCHANGED <<user, sessions, req, secrets>>
    BY <1>0, <1>1, AccountConstants DEF Tick
  <2>2. ASSUME NEW r \in Requests PROVE SlotTyped(req[r], clock, Len(sessions))'
    <3>1. SlotTyped(req[r], clock, Len(sessions))
      BY <1>0 DEF SlotsTyped
    <3> QED BY <2>1, <3>1 DEF SlotTyped, SignedBy
  <2>3. SlotsTyped' /\ SessionsTyped'
    BY <1>0, <2>1, <2>2 DEF SlotsTyped, SessionsTyped
  <2> QED BY <1>0, <2>1, <2>3 DEF AccountInv, Typed, RoomKept, Openers
<1>2. CASE UNCHANGED vars
  BY <1>2 DEF vars, AccountInv, Typed, SessionsTyped, SlotsTyped, SlotTyped, SignedBy,
     RoomKept, Openers
<1>3. ASSUME UNCHANGED <<user, req, clock, secrets>>, NEW rows, sessions' = Revoked(rows)
      PROVE  AccountInv'
  <2>1. DOMAIN sessions' = DOMAIN sessions
    BY <1>3 DEF Revoked
  <2>2. SessionsTyped' /\ Len(sessions') = Len(sessions)
    BY <1>0, <1>3, <2>1, RevokedRows DEF SessionsTyped
  <2>3. SlotsTyped'
    BY <1>0, <1>3, <2>2 DEF SlotsTyped, SlotTyped, SignedBy
  <2> QED BY <1>0, <1>3, <2>2, <2>3 DEF AccountInv, Typed, RoomKept, Openers
<1> QED BY <1>1, <1>2, <1>3

LEMMA InitTyped == Init => AccountInv
<1> SUFFICES ASSUME Init PROVE AccountInv
  OBVIOUS
<1>1. user \in User
  <2>1. 0 \in 0..MaxClock /\ 1 \in 0..MaxSecrets /\ 0 \in 0..MaxSecrets /\ 0 \in 0..OtpMax
    BY AccountConstants
  <2> QED BY <2>1 DEF Init, NewAccount, User
<1>2. clock \in 1..MaxClock /\ secrets \in 1..MaxSecrets
  BY AccountConstants DEF Init
<1>3. /\ sessions \in Seq(SessionRow) /\ Len(sessions) = 0 /\ DOMAIN sessions = {}
  BY DEF Init
<1>4. Openers = {} /\ SlotsTyped
  BY IdleTyped DEF Init, Openers, SlotsTyped
<1>5. RoomKept
  BY <1>3, <1>4, FS_EmptySet, AccountConstants DEF RoomKept
<1> QED BY <1>1, <1>2, <1>3, <1>4, <1>5 DEF AccountInv, Typed, SessionsTyped

LEMMA StepTyped == AccountInv /\ [Next]_vars => AccountInv'
<1> SUFFICES ASSUME AccountInv, [Next]_vars PROVE AccountInv'
  OBVIOUS
<1>1. ASSUME NEW r \in Requests,
             \/ SessionRoutes(r) \/ VerificationRoutes(r) \/ PasswordRoutes(r)
             \/ PhoneRoutes(r) \/ AdminUpdates(r)
      PROVE  AccountInv'
  BY <1>1, SessionRoutesTyped, EditRoutesTyped
<1>2. ASSUME NEW r \in Requests, AccountCalls(r) PROVE AccountInv'
  BY <1>2, SaveTyped, RevokeCallsTyped, CreateTyped DEF AccountCalls
<1>3. ASSUME NEW i \in DOMAIN sessions, RevokeSessionById(i) PROVE AccountInv'
  BY <1>3, OthersTyped DEF RevokeSessionById
<1>4. CASE RevokeUserSessions
  BY <1>4, OthersTyped DEF RevokeUserSessions
<1>5. ASSUME NEW before \in 1..clock, CleanExpiredSessions(before) PROVE AccountInv'
  BY <1>5, OthersTyped DEF CleanExpiredSessions
<1>6. CASE Tick \/ UNCHANGED vars
  BY <1>6, OthersTyped
<1> QED BY <1>1, <1>2, <1>3, <1>4, <1>5, <1>6 DEF Next

\* The types hold: a request finds the row it reads well-formed, the entity that
\* it saves is one, no counter of wrong codes passes OTP_MAX_ATTEMPTS.
THEOREM AccountsTyped == Spec => []TypeOK
<1>1. AccountInv => TypeOK
  <2> SUFFICES ASSUME AccountInv PROVE TypeOK
    OBVIOUS
  <2>1. Len(sessions) <= MaxRows
    <3>1. IsFiniteSet(Openers)
      BY AccountConstants, FS_Subset DEF Openers
    <3>2. Cardinality(Openers) \in Nat /\ Len(sessions) \in Nat
      BY <3>1, FS_CardinalityType DEF AccountInv, Typed, SessionsTyped
    <3> QED BY <3>2, AccountConstants DEF AccountInv, RoomKept
  <2>2. \A i \in DOMAIN sessions : sessions[i] \in [token: 1..clock, active: BOOLEAN]
    <3> TAKE i \in DOMAIN sessions
    <3>1. sessions[i] \in SessionRow /\ sessions[i].token \in 1..clock
      BY DEF AccountInv, Typed, SessionsTyped
    <3> QED BY <3>1 DEF SessionRow
  <2>3. ASSUME NEW r \in Requests, req[r] # Idle
        PROVE  /\ req[r].copy \in User
               /\ req[r].dirty \subseteq Columns /\ req[r].victims \subseteq DOMAIN sessions
    BY <2>3 DEF AccountInv, Typed, SessionsTyped, SlotsTyped, SlotTyped, Busy
  <2> QED BY <2>1, <2>2, <2>3 DEF TypeOK, AccountInv, Typed
<1> QED BY InitTyped, StepTyped, <1>1, PTL DEF Spec

-----------------------------------------------------------------------------
(* Sessions.                                                               *)

\* The requests that have counted the sessions and are to insert one...
OnTheWay == {r \in Requests : req[r].pc \in {"limit", "insert"}}

\* ...and the sessions that are left when such a request has revoked those that
\* it chose.
Kept(r) == Active \ req[r].victims

\* Of any requests on the way, the one that counted last has kept few sessions:
\* since it counted, each of the others has waited, and only the rest can have
\* inserted, once each beyond what they counted.
WayInv ==
    \A group \in SUBSET OnTheWay : group # {} =>
        \E r \in group :
            Cardinality(Kept(r)) + Cardinality(group)
                <= MaxSessions - 1 + Cardinality(Requests)

LimitInv == AccountInv /\ SessionBound /\ WayInv

\* The sets that are counted are finite.
LEMMA CountsFinite ==
    ASSUME Typed
    PROVE  /\ IsFiniteSet(Active) /\ Cardinality(Active) \in Nat
           /\ Cardinality(Requests) \in Nat
           /\ \A V : /\ IsFiniteSet(Active \ V) /\ Cardinality(Active \ V) \in Nat
                    /\ Cardinality(Active \ V) <= Cardinality(Active)
           /\ \A G \in SUBSET Requests : /\ IsFiniteSet(G) /\ Cardinality(G) \in Nat
                                        /\ Cardinality(G) <= Cardinality(Requests)
<1>1. Len(sessions) \in Nat /\ Active \in SUBSET (1..Len(sessions))
  BY DEF Typed, SessionsTyped, Active
<1>2. IsFiniteSet(1..Len(sessions))
  BY <1>1, FS_Interval
<1>3. IsFiniteSet(Active)
  BY <1>1, <1>2, FS_Subset
<1>4. ASSUME NEW V
      PROVE  /\ IsFiniteSet(Active \ V) /\ Cardinality(Active \ V) \in Nat
             /\ Cardinality(Active \ V) <= Cardinality(Active)
  <2>1. Active \ V \in SUBSET Active
    OBVIOUS
  <2>2. IsFiniteSet(Active \ V) /\ Cardinality(Active \ V) <= Cardinality(Active)
    BY <1>3, <2>1, FS_Subset
  <2> QED BY <2>2, FS_CardinalityType
<1>5. ASSUME NEW G \in SUBSET Requests
      PROVE  /\ IsFiniteSet(G) /\ Cardinality(G) \in Nat
             /\ Cardinality(G) <= Cardinality(Requests)
  <2>1. IsFiniteSet(G) /\ Cardinality(G) <= Cardinality(Requests)
    BY AccountConstants, FS_Subset
  <2> QED BY <2>1, FS_CardinalityType
<1>6. Cardinality(Active) \in Nat /\ Cardinality(Requests) \in Nat
  BY <1>3, AccountConstants, FS_CardinalityType
<1> QED BY <1>3, <1>4, <1>5, <1>6

\* A step that opens no session and sends nobody on the way changes nothing
\* that counts.
LEMMA WayStays ==
    ASSUME LimitInv, Typed', Active' \subseteq Active, OnTheWay' \subseteq OnTheWay,
           \A r \in OnTheWay' : Active' \ req'[r].victims \subseteq Kept(r)
    PROVE  SessionBound' /\ WayInv'
<1>1. /\ Typed /\ MaxSessions \in Nat /\ Cardinality(Requests) \in Nat
      /\ Cardinality(Active) \in Nat /\ IsFiniteSet(Active)
  BY CountsFinite, AccountConstants DEF LimitInv, AccountInv
<1>2. Cardinality(Active') <= Cardinality(Active) /\ Cardinality(Active') \in Nat
  BY <1>1, FS_Subset, FS_CardinalityType
<1>3. SessionBound'
  BY <1>1, <1>2 DEF LimitInv, SessionBound
<1>4. ASSUME NEW group \in SUBSET OnTheWay', group # {}
      PROVE  \E r \in group : Cardinality(Active' \ req'[r].victims) + Cardinality(group)
                                <= MaxSessions - 1 + Cardinality(Requests)
  <2> PICK r \in group : Cardinality(Kept(r)) + Cardinality(group)
                            <= MaxSessions - 1 + Cardinality(Requests)
    BY <1>4 DEF LimitInv, WayInv
  <2>1. IsFiniteSet(Kept(r)) /\ Cardinality(Kept(r)) \in Nat
    BY <1>1, CountsFinite DEF Kept
  <2>2. Active' \ req'[r].victims \in SUBSET Kept(r)
    BY <1>4
  <2>3. /\ Cardinality(Active' \ req'[r].victims) <= Cardinality(Kept(r))
        /\ IsFiniteSet(Active' \ req'[r].victims)
    BY <2>1, <2>2, FS_Subset
  <2>4. Cardinality(Active' \ req'[r].victims) \in Nat
    BY <2>3, FS_CardinalityType
  <2>5. group \in SUBSET Requests
    BY <1>4 DEF OnTheWay
  <2>6. Cardinality(group) \in Nat
    BY <1>1, <2>5, CountsFinite
  <2>7. Cardinality(Active' \ req'[r].victims) + Cardinality(group)
          <= MaxSessions - 1 + Cardinality(Requests)
    BY <1>1, <2>1, <2>3, <2>4, <2>6
  <2> QED BY <2>7
<1> QED BY <1>3, <1>4 DEF WayInv, Kept

\* The same of a step of one request that is not on the way afterwards, or that
\* revokes one of the sessions that it chose.
LEMMA SlotStays ==
    ASSUME LimitInv, Typed', NEW r \in Requests,
           \A s \in Requests \ {r} : req'[s] = req[s],
           Active' \subseteq Active,
           \/ req'[r].pc \notin {"limit", "insert"}
           \/ r \in OnTheWay /\ Active' \ req'[r].victims \subseteq Kept(r)
    PROVE  SessionBound' /\ WayInv'
<1>1. OnTheWay' \subseteq OnTheWay
  BY DEF OnTheWay
<1>2. ASSUME NEW s \in OnTheWay' PROVE Active' \ req'[s].victims \subseteq Kept(s)
  BY DEF OnTheWay, Kept
<1> QED BY <1>1, <1>2, WayStays

\* Counting: the request goes on its way with as many sessions kept as leave
\* room for one.
LEMMA WayCounted ==
    ASSUME LimitInv, Typed', NEW r \in Requests, EnforceSessionLimit(r)
    PROVE  SessionBound' /\ WayInv'
<1>0. /\ Typed /\ MaxSessions \in Nat \ {0} /\ Cardinality(Requests) \in Nat
      /\ Cardinality(Active) \in Nat /\ IsFiniteSet(Active)
  BY CountsFinite, AccountConstants DEF LimitInv, AccountInv
<1>1. Active' = Active /\ req[r].pc = "list"
  BY DEF EnforceSessionLimit, Active
<1>2. req[r].victims = {} /\ req[r] \in Busy
  BY <1>1, BusyTyped DEF LimitInv, SlotTyped
<1>3. /\ \A s \in Requests \ {r} : req'[s] = req[s]
      /\ Cardinality(Active \ req'[r].victims) <= MaxSessions - 1
      /\ Cardinality(Active \ req'[r].victims) \in Nat
  <2>1. CASE ~(Cardinality(Active) >= MaxSessions)
    <3>1. req' = [req EXCEPT ![r].pc = "insert"]
      BY <2>1 DEF EnforceSessionLimit
    <3>2. req' = [s \in Requests |-> IF s = r THEN [req[r] EXCEPT !.pc = "insert"] ELSE req[s]]
      BY <1>0, <3>1 DEF Typed, SlotsTyped
    <3>3. req'[r].victims = {} /\ \A s \in Requests \ {r} : req'[s] = req[s]
      BY <1>2, <3>2 DEF Busy
    <3>4. Active \ req'[r].victims = Active
      BY <3>3
    <3> QED BY <1>0, <2>1, <3>3, <3>4
  <2>2. CASE Cardinality(Active) >= MaxSessions
    <3> PICK oldest \in SUBSET Active :
          /\ Cardinality(oldest) = Cardinality(Active) - MaxSessions + 1
          /\ req' = [req EXCEPT ![r].pc = "limit", ![r].victims = oldest]
      BY <2>2 DEF EnforceSessionLimit
    <3>1. req' = [s \in Requests |-> IF s = r THEN [req[r] EXCEPT !.pc = "limit", !.victims = oldest]
                                     ELSE req[s]]
      BY <1>0 DEF Typed, SlotsTyped
    <3>2. req'[r].victims = oldest /\ \A s \in Requests \ {r} : req'[s] = req[s]
      BY <1>2, <3>1 DEF Busy
    <3>3. IsFiniteSet(oldest) /\ IsFiniteSet(Active \ oldest)
      BY <1>0, FS_Subset
    <3>4. Cardinality(oldest) \in Nat /\ Cardinality(Active \ oldest) \in Nat
      BY <3>3, FS_CardinalityType
    <3>5. Cardinality((Active \ oldest) \cup oldest) =
            Cardinality(Active \ oldest) + Cardinality(oldest)
              - Cardinality((Active \ oldest) \cap oldest)
      BY <3>3, FS_Union
    <3>6. (Active \ oldest) \cup oldest = Active /\ (Active \ oldest) \cap oldest = {}
      OBVIOUS
    <3>7. Cardinality(Active) = Cardinality(Active \ oldest) + Cardinality(oldest)
      <4>1. Cardinality((Active \ oldest) \cap oldest) = 0
        BY <3>6, FS_EmptySet
      <4>2. Cardinality((Active \ oldest) \cup oldest) = Cardinality(Active)
        BY <3>6
      <4> QED BY <3>4, <3>5, <4>1, <4>2
    <3>8. Cardinality(Active \ oldest) <= MaxSessions - 1
      BY <1>0, <3>4, <3>7
    <3> QED BY <3>2, <3>4, <3>8
  <2> QED BY <2>1, <2>2
<1>4. ASSUME NEW group \in SUBSET OnTheWay', group # {}
      PROVE  \E s \in group : Cardinality(Active' \ req'[s].victims) + Cardinality(group)
                                <= MaxSessions - 1 + Cardinality(Requests)
  <2>0. group \in SUBSET Requests
    BY DEF OnTheWay
  <2>1. Cardinality(group) \in Nat /\ Cardinality(group) <= Cardinality(Requests)
    BY <1>0, <2>0, CountsFinite
  <2>2. CASE r \in group
    <3>1. Cardinality(Active' \ req'[r].victims) + Cardinality(group)
            <= MaxSessions - 1 + Cardinality(Requests)
      BY <1>0, <1>1, <1>3, <2>1
    <3> QED BY <2>2, <3>1
  <2>3. CASE r \notin group
    <3>1. group \in SUBSET OnTheWay
      BY <1>3, <2>0, <2>3 DEF OnTheWay
    <3>2. PICK s \in group : Cardinality(Kept(s)) + Cardinality(group)
                            <= MaxSessions - 1 + Cardinality(Requests)
      BY <1>4, <3>1 DEF LimitInv, WayInv
    <3>3. Active' \ req'[s].victims = Kept(s)
      BY <1>1, <1>3, <2>0, <2>3, <3>2 DEF Kept
    <3> QED BY <3>2, <3>3
  <2> QED BY <2>2, <2>3
<1>5. SessionBound'
  BY <1>1 DEF LimitInv, SessionBound
<1> QED BY <1>4, <1>5 DEF WayInv, Kept

\* Inserting: of a group with the request that inserts in it, the last to count
\* was the one that inserts, or is still in the group.
LEMMA WayInserted ==
    ASSUME LimitInv, Typed', NEW r \in Requests, InsertSession(r)
    PROVE  SessionBound' /\ WayInv'
<1>0. /\ Typed /\ MaxSessions \in Nat \ {0} /\ Cardinality(Requests) \in Nat
      /\ Cardinality(Active) \in Nat /\ IsFiniteSet(Active)
      /\ Len(sessions) \in Nat /\ DOMAIN sessions = 1..Len(sessions)
      /\ sessions \in Seq(SessionRow)
  BY CountsFinite, AccountConstants DEF LimitInv, AccountInv, Typed, SessionsTyped
<1>1. /\ req[r].pc = "insert" /\ req' = [req EXCEPT ![r] = Idle]
      /\ req[r] \in Busy /\ req[r].victims = {}
  BY BusyTyped DEF InsertSession, LimitInv, SlotTyped
<1>2. /\ \A s \in Requests \ {r} : req'[s] = req[s]
      /\ r \in OnTheWay /\ OnTheWay' = OnTheWay \ {r}
  <2>1. req' = [s \in Requests |-> IF s = r THEN Idle ELSE req[s]]
    BY <1>0, <1>1 DEF Typed, SlotsTyped
  <2> QED BY <1>1, <2>1, IdleTyped DEF OnTheWay
<1> DEFINE new == Len(sessions) + 1
<1>3. Active' = Active \cup {new}
  <2> DEFINE row == [token |-> req[r].copy.token, active |-> TRUE]
  <2>1. row.active
    OBVIOUS
  <2>2. sessions' = Append(sessions, row)
    BY DEF InsertSession
  <2>3. row \in SessionRow
    <3>1. req[r].copy.token \in Nat
      BY <1>1, AccountConstants DEF Busy, User
    <3> QED BY <3>1 DEF SessionRow
  <2> HIDE DEF row
  <2>4. /\ DOMAIN sessions' = 1..new /\ sessions'[new] = row
        /\ \A i \in 1..Len(sessions) : sessions'[i] = sessions[i]
    BY <1>0, <2>2, <2>3
  <2> QED BY <1>0, <2>1, <2>4 DEF Active
<1>4. ASSUME NEW V
      PROVE  /\ Cardinality(Active' \ V) <= Cardinality(Active \ V) + 1
             /\ Cardinality(Active' \ V) \in Nat
  <2>1. IsFiniteSet(Active \ V) /\ Cardinality(Active \ V) \in Nat
    BY <1>0, CountsFinite
  <2>2. /\ IsFiniteSet((Active \ V) \cup {new})
        /\ Cardinality((Active \ V) \cup {new}) =
              IF new \in Active \ V THEN Cardinality(Active \ V)
              ELSE Cardinality(Active \ V) + 1
    BY <2>1, FS_AddElement
  <2>3. Active' \ V \in SUBSET ((Active \ V) \cup {new})
    BY <1>3
  <2>4. /\ IsFiniteSet(Active' \ V)
        /\ Cardinality(Active' \ V) <= Cardinality((Active \ V) \cup {new})
    BY <2>2, <2>3, FS_Subset
  <2>5. Cardinality(Active' \ V) \in Nat
    BY <2>4, FS_CardinalityType
  <2> QED BY <2>1, <2>2, <2>4, <2>5
<1>5. Kept(r) = Active
  BY <1>1 DEF Kept
<1>6. SessionBound'
  <2>1. {r} \in SUBSET OnTheWay /\ {r} # {}
    BY <1>2
  <2>2. PICK s \in {r} : Cardinality(Kept(s)) + Cardinality({r})
                            <= MaxSessions - 1 + Cardinality(Requests)
    BY <2>1 DEF LimitInv, WayInv
  <2>3. Cardinality({r}) = 1
    BY FS_Singleton
  <2>4. Active' \ {} = Active' /\ Active \ {} = Active
    OBVIOUS
  <2>5. Cardinality(Active') <= Cardinality(Active) + 1 /\ Cardinality(Active') \in Nat
    BY <1>4, <2>4
  <2> QED BY <1>0, <1>5, <2>2, <2>3, <2>5 DEF SessionBound
<1>7. ASSUME NEW group \in SUBSET OnTheWay', group # {}
      PROVE  \E s \in group : Cardinality(Active' \ req'[s].victims) + Cardinality(group)
                                <= MaxSessions - 1 + Cardinality(Requests)
  <2>1. /\ group \in SUBSET Requests /\ r \notin group
        /\ group \cup {r} \in SUBSET OnTheWay /\ group \cup {r} # {}
    BY <1>2 DEF OnTheWay
  <2>2. IsFiniteSet(group) /\ Cardinality(group) \in Nat
    BY <1>0, <2>1, CountsFinite
  <2>3. Cardinality(group \cup {r}) = Cardinality(group) + 1
    BY <2>1, <2>2, FS_AddElement
  <2>4. PICK s \in group \cup {r} : Cardinality(Kept(s)) + Cardinality(group \cup {r})
                                        <= MaxSessions - 1 + Cardinality(Requests)
    BY <2>1 DEF LimitInv, WayInv
  <2>5. CASE s = r
    <3> PICK t \in group : TRUE
      BY <1>7
    <3>1. /\ Cardinality(Active' \ req'[t].victims)
                <= Cardinality(Active \ req'[t].victims) + 1
          /\ Cardinality(Active' \ req'[t].victims) \in Nat
      BY <1>4
    <3>2. /\ Cardinality(Active \ req'[t].victims) <= Cardinality(Active)
          /\ Cardinality(Active \ req'[t].victims) \in Nat
      BY <1>0, CountsFinite
    <3>3. Cardinality(Active' \ req'[t].victims) + Cardinality(group)
            <= MaxSessions - 1 + Cardinality(Requests)
      BY <1>0, <1>5, <2>2, <2>3, <2>4, <2>5, <3>1, <3>2
    <3> QED BY <3>3
  <2>6. CASE s \in group
    <3>1. req'[s].victims = req[s].victims
      BY <1>2, <2>1, <2>6
    <3>2. /\ Cardinality(Active' \ req[s].victims) <= Cardinality(Kept(s)) + 1
          /\ Cardinality(Active' \ req[s].victims) \in Nat
      BY <1>4 DEF Kept
    <3>3. Cardinality(Kept(s)) \in Nat
      BY <1>0, CountsFinite DEF Kept
    <3>4. Cardinality(Active' \ req'[s].victims) + Cardinality(group)
            <= MaxSessions - 1 + Cardinality(Requests)
      BY <1>0, <2>2, <2>3, <2>4, <3>1, <3>2, <3>3
    <3> QED BY <2>6, <3>4
  <2> QED BY <2>4, <2>5, <2>6
<1> QED BY <1>6, <1>7 DEF WayInv, Kept

\* A request that comes in reads the row: the token in its entity is the row's, or
\* none, or the one that a login signs.
Reads(r, q) ==
    /\ req' = [req EXCEPT ![r] = q]
    /\ q.pc \in {"select", "revoke", "revokeAll"}
    /\ q.copy.token \in {0, user.token} \/ q.kind = "login"

LEMMA RoutesRead ==
    ASSUME Typed, NEW r \in Requests,
           \/ SessionRoutes(r) \/ VerificationRoutes(r) \/ PasswordRoutes(r)
           \/ PhoneRoutes(r) \/ AdminUpdates(r)
    PROVE  UNCHANGED <<user, sessions>> /\ \E q : Reads(r, q)
<1> DEFINE Goal == UNCHANGED <<user, sessions>> /\ \E q : Reads(r, q)
<1>0. user \in User
  BY DEF Typed
<1>s. ASSUME NEW kind, NEW pc \in {"select", "revokeAll"}, NEW copy, Start(r, kind, pc, copy),
             copy.token \in {0, user.token} \/ kind = "login", UNCHANGED <<user, sessions>>
      PROVE  Goal
  <2> DEFINE q == [Idle EXCEPT !.kind = kind, !.pc = pc, !.copy = copy]
  <2>1. q.kind = kind /\ q.pc = pc /\ q.copy = copy
    BY DEF Idle
  <2>2. req' = [req EXCEPT ![r] = q]
    BY <1>s DEF Start
  <2> HIDE DEF q
  <2> QED BY <1>s, <2>1, <2>2 DEF Reads
<1> SUFFICES Goal
  OBVIOUS
<1> HIDE DEF Goal
<1>e. ASSUME NEW kind, NEW copy, Edit(r, kind, copy) \/ Issue(r, kind, copy),
             copy.token \in {0, user.token}
      PROVE  Goal
  BY <1>s, <1>e DEF Edit, Issue
<1>r. ASSUME NEW row \in User
      PROVE  /\ SignedOut(row).token = 0 /\ CodeUsed(row).token = row.token
             /\ NewCode(row).token = row.token
             /\ \A p : [row EXCEPT !.password = p].token = row.token
             /\ \A p : [row EXCEPT !.phoneVerified = p].token = row.token
             /\ \A p : [row EXCEPT !.emailVerified = p].token = row.token
             /\ \A p : [row EXCEPT !.reset = p].token = row.token
  BY DEF User, SignedOut, CodeUsed, NewCode
<1>c. ASSUME NEW kind, NEW done \in User, TakeCode(r, kind, done), done.token \in {0, user.token}
      PROVE  Goal
  <2>1. [user EXCEPT !.attempts = @ + 1].token = user.token
    BY <1>0 DEF User
  <2> QED BY <1>c, <1>e, <1>r, <2>1 DEF TakeCode
<1>1. CASE Login(r)
  BY <1>1, <1>s DEF Login
<1>2. CASE Refresh(r)
  <2> PICK i \in DOMAIN sessions :
          req' = [req EXCEPT ![r] = [Idle EXCEPT !.kind = "refresh", !.pc = "revoke",
                                          !.copy = user, !.token = sessions[i].token]]
    BY <1>2 DEF Refresh
  <2> DEFINE q == [Idle EXCEPT !.kind = "refresh", !.pc = "revoke", !.copy = user,
                               !.token = sessions[i].token]
  <2>1. q.kind = "refresh" /\ q.pc = "revoke" /\ q.copy = user
    BY DEF Idle
  <2>2. req' = [req EXCEPT ![r] = q]
    OBVIOUS
  <2> HIDE DEF q
  <2> QED BY <1>2, <2>1, <2>2 DEF Refresh, Reads, Goal
<1>3. CASE Logout(r)
  <2>1. CASE Edit(r, "logout", SignedOut(user))
    BY <1>0, <1>e, <1>r, <2>1
  <2>2. ASSUME NEW i \in DOMAIN sessions,
               req' = [req EXCEPT ![r] = [Idle EXCEPT !.kind = "logout", !.pc = "revoke",
                                    !.copy = SignedOut(user), !.token = sessions[i].token]],
               UNCHANGED <<user, sessions, clock, secrets>>
        PROVE  Goal
    <3> DEFINE q == [Idle EXCEPT !.kind = "logout", !.pc = "revoke",
                                 !.copy = SignedOut(user), !.token = sessions[i].token]
    <3>1. q.kind = "logout" /\ q.pc = "revoke" /\ q.copy = SignedOut(user)
      BY DEF Idle
    <3>2. req' = [req EXCEPT ![r] = q]
      BY <2>2
    <3> HIDE DEF q
    <3>3. q.copy.token = 0
      BY <1>0, <1>r, <3>1
    <3>4. Reads(r, q)
      BY <3>1, <3>2, <3>3 DEF Reads
    <3> QED BY <2>2, <3>4 DEF Goal
  <2> QED BY <1>3, <2>1, <2>2 DEF Logout
<1>4. CASE LogoutAll(r)
  BY <1>0, <1>4, <1>r, <1>s DEF LogoutAll
<1>5. CASE VerificationRoutes(r)
  <2>1. CASE VerifyEmail(r)
    <3>1. [user EXCEPT !.emailVerified = TRUE] \in User
      BY <1>0, EntityTyped
    <3> QED BY <1>0, <1>c, <1>r, <2>1, <3>1 DEF VerifyEmail
  <2>2. CASE ResendOtp(r)
    BY <1>0, <1>e, <1>r, <2>2 DEF ResendOtp
  <2> QED BY <1>5, <2>1, <2>2 DEF VerificationRoutes
<1>6. CASE PasswordRoutes(r)
  <2>1. CASE ForgotPassword(r)
    <3>1. [user EXCEPT !.reset = secrets + 1].token = user.token
      BY <1>0, <1>r
    <3> QED BY <1>e, <2>1, <3>1 DEF ForgotPassword
  <2>2. CASE ResetPassword(r)
    <3> PICK p \in Passwords :
            Edit(r, "resetPassword", SignedOut([user EXCEPT !.password = p, !.reset = 0]))
      BY <2>2 DEF ResetPassword
    <3>1. [user EXCEPT !.password = p, !.reset = 0] \in User
      <4>1. 0 \in 0..MaxSecrets
        BY AccountConstants
      <4> QED BY <1>0, <4>1 DEF User
    <3>2. SignedOut([user EXCEPT !.password = p, !.reset = 0]).token = 0
      BY <1>r, <3>1
    <3> QED BY <1>e, <3>2
  <2>3. CASE ChangePassword(r)
    <3> PICK p \in Passwords :
            Edit(r, "changePassword", SignedOut([user EXCEPT !.password = p]))
      BY <2>3 DEF ChangePassword
    <3>1. [user EXCEPT !.password = p] \in User
      BY <1>0, EntityTyped
    <3>2. SignedOut([user EXCEPT !.password = p]).token = 0
      BY <1>r, <3>1
    <3> QED BY <1>e, <3>2
  <2>4. CASE RequestChangePassword(r)
    BY <1>0, <1>e, <1>r, <2>4 DEF RequestChangePassword
  <2>5. CASE ConfirmChangePassword(r)
    <3> PICK p \in Passwords :
            TakeCode(r, "confirmChange", SignedOut([user EXCEPT !.password = p]))
      BY <2>5 DEF ConfirmChangePassword
    <3>1. [user EXCEPT !.password = p] \in User
      BY <1>0, EntityTyped
    <3>2. /\ SignedOut([user EXCEPT !.password = p]).token = 0
          /\ SignedOut([user EXCEPT !.password = p]) \in User
      BY <1>r, <3>1, EntityTyped
    <3> QED BY <1>c, <3>2
  <2> QED BY <1>6, <2>1, <2>2, <2>3, <2>4, <2>5 DEF PasswordRoutes
<1>7. CASE PhoneRoutes(r)
  <2>1. CASE SendPhoneOtp(r)
    <3>1. NewCode(user).token = user.token
      BY <1>0, <1>r
    <3>2. [NewCode(user) EXCEPT !.phoneVerified = FALSE].token = user.token
      BY <1>0 DEF NewCode, User
    <3> QED BY <1>e, <2>1, <3>1, <3>2 DEF SendPhoneOtp
  <2>2. CASE VerifyPhone(r)
    <3>1. [user EXCEPT !.phoneVerified = TRUE] \in User
      BY <1>0, EntityTyped
    <3> QED BY <1>0, <1>c, <1>r, <2>2, <3>1 DEF VerifyPhone
  <2>3. CASE ChangePhone(r)
    <3>1. [user EXCEPT !.phoneVerified = FALSE].token = user.token
      BY <1>0, <1>r
    <3> QED BY <1>e, <2>3, <3>1 DEF ChangePhone
  <2> QED BY <1>7, <2>1, <2>2, <2>3 DEF PhoneRoutes
<1>8. CASE AdminUpdates(r)
  <2> PICK email \in BOOLEAN, phone \in BOOLEAN :
        LET row == [user EXCEPT !.emailVerified = email, !.phoneVerified = phone]
        IN  \/ Edit(r, "updateUser", row)
            \/ \E p \in Passwords : Edit(r, "setPassword", [row EXCEPT !.password = p])
    BY <1>8 DEF AdminUpdates
  <2> DEFINE row == [user EXCEPT !.emailVerified = email, !.phoneVerified = phone]
  <2>1. row \in User /\ row.token = user.token
    BY <1>0 DEF User
  <2>2. \/ Edit(r, "updateUser", row)
        \/ \E p \in Passwords : Edit(r, "setPassword", [row EXCEPT !.password = p])
    OBVIOUS
  <2> HIDE DEF row
  <2>3. \A p : [row EXCEPT !.password = p].token = user.token
    BY <1>r, <2>1
  <2> QED BY <1>e, <2>1, <2>2, <2>3
<1> QED BY <1>1, <1>2, <1>3, <1>4, <1>5, <1>6, <1>7, <1>8 DEF SessionRoutes

\* A request that saves, or revokes on its way to the save.
LEMMA SavesWait ==
    ASSUME AccountInv, NEW r \in Requests,
           SelectUser(r) \/ UpdateUser(r) \/ RevokeSession(r) \/ RevokeAllUserSessions(r)
    PROVE  /\ \A s \in Requests \ {r} : req'[s] = req[s]
           /\ req'[r].pc \notin {"limit", "insert"}
<1>0. req[r] \in Busy /\ \A q : req' = [req EXCEPT ![r] = q] =>
                                 req' = [s \in Requests |-> IF s = r THEN q ELSE req[s]]
  BY BusyTyped DEF SelectUser, UpdateUser, RevokeSession, RevokeAllUserSessions,
     AccountInv, Typed, SlotsTyped
<1>1. ASSUME NEW q, Advance(r, q), q.pc \notin {"limit", "insert"}
      PROVE  /\ \A s \in Requests \ {r} : req'[s] = req[s]
             /\ req'[r].pc \notin {"limit", "insert"}
  BY <1>0, <1>1, IdleTyped DEF Advance
<1>2. CASE SelectUser(r)
  <2> DEFINE dirty == {c \in Columns : req[r].copy[c] # user[c]} \cup Rehashed(req[r])
  <2>1. \/ Advance(r, [req[r] EXCEPT !.pc = AfterSave(req[r])])
        \/ Advance(r, [req[r] EXCEPT !.pc = "update", !.dirty = dirty])
    BY <1>2 DEF SelectUser
  <2> HIDE DEF dirty
  <2>2. /\ [req[r] EXCEPT !.pc = AfterSave(req[r])].pc \notin {"limit", "insert"}
        /\ [req[r] EXCEPT !.pc = "update", !.dirty = dirty].pc \notin {"limit", "insert"}
    BY <1>0 DEF AfterSave, Busy
  <2> QED BY <1>1, <2>1, <2>2
<1>3. CASE UpdateUser(r)
  <2>1. [req[r] EXCEPT !.pc = AfterSave(req[r]), !.dirty = {}].pc \notin {"limit", "insert"}
    BY <1>0 DEF AfterSave, Busy
  <2>2. Advance(r, [req[r] EXCEPT !.pc = AfterSave(req[r]), !.dirty = {}])
    BY <1>3 DEF UpdateUser
  <2> QED BY <1>1, <2>1, <2>2
<1>4. CASE RevokeSession(r)
  <2>1. /\ [req[r] EXCEPT !.pc = "select", !.copy.token = clock].pc = "select"
        /\ [req[r] EXCEPT !.pc = "select"].pc = "select"
    BY <1>0 DEF Busy
  <2>2. \/ req' = [req EXCEPT ![r] = [req[r] EXCEPT !.pc = "select", !.copy.token = clock]]
        \/ req' = [req EXCEPT ![r] = [req[r] EXCEPT !.pc = "select"]]
    BY <1>4 DEF RevokeSession
  <2> QED BY <1>0, <2>1, <2>2
<1>5. CASE RevokeAllUserSessions(r)
  <2>1. /\ [req[r] EXCEPT !.pc = "select"].pc = "select"
        /\ req' = [req EXCEPT ![r] = [req[r] EXCEPT !.pc = "select"]]
    BY <1>0, <1>5 DEF Busy, RevokeAllUserSessions
  <2> QED BY <1>0, <2>1
<1> QED BY <1>2, <1>3, <1>4, <1>5

\* Who is active after some sessions have been revoked.
LEMMA RevokedActive ==
    ASSUME Typed, NEW rows, sessions' = Revoked(rows)
    PROVE  Active' = Active \ rows
<1>1. DOMAIN sessions' = DOMAIN sessions
  BY DEF Revoked
<1> QED BY <1>1, RevokedRows DEF Active

\* The limit on sessions, up to the requests that race, is inductive with what is
\* true of the requests on the way.
LEMMA StepLimit == LimitInv /\ [Next]_vars => LimitInv'
<1> SUFFICES ASSUME LimitInv, [Next]_vars PROVE LimitInv'
  OBVIOUS
<1>0. AccountInv /\ Typed /\ AccountInv' /\ Typed'
  BY StepTyped DEF LimitInv, AccountInv
<1> SUFFICES SessionBound' /\ WayInv'
  BY <1>0 DEF LimitInv
<1>p. ASSUME NEW r \in Requests, NEW q, req' = [req EXCEPT ![r] = q]
      PROVE  req'[r] = q /\ \A s \in Requests \ {r} : req'[s] = req[s]
  BY <1>0, <1>p DEF Typed, SlotsTyped
<1>1. ASSUME NEW r \in Requests,
             \/ SessionRoutes(r) \/ VerificationRoutes(r) \/ PasswordRoutes(r)
             \/ PhoneRoutes(r) \/ AdminUpdates(r)
      PROVE  SessionBound' /\ WayInv'
  <2>1. UNCHANGED sessions /\ \E q : Reads(r, q)
    BY <1>0, <1>1, RoutesRead
  <2>2. Active' \subseteq Active
    BY <2>1 DEF Active
  <2>3. /\ \A s \in Requests \ {r} : req'[s] = req[s]
        /\ req'[r].pc \notin {"limit", "insert"}
    BY <1>p, <2>1 DEF Reads
  <2> QED BY <1>0, <2>2, <2>3, SlotStays
<1>2. ASSUME NEW r \in Requests,
             \/ SelectUser(r) \/ UpdateUser(r) \/ RevokeSession(r) \/ RevokeAllUserSessions(r)
      PROVE  SessionBound' /\ WayInv'
  <2>1. Active' \subseteq Active
    <3>1. UNCHANGED sessions \/ \E rows : sessions' = Revoked(rows)
      BY <1>2 DEF SelectUser, UpdateUser, RevokeSession, RevokeAllUserSessions
    <3>2. UNCHANGED sessions => Active' = Active
      BY DEF Active
    <3> QED BY <1>0, <3>1, <3>2, RevokedActive
  <2> QED BY <1>0, <1>2, <2>1, SavesWait, SlotStays
<1>3. ASSUME NEW r \in Requests, RevokeOldSession(r) PROVE SessionBound' /\ WayInv'
  <2> PICK i \in req[r].victims :
          LET rest == req[r].victims \ {i}
          IN  /\ sessions' = Revoked({i})
              /\ req' = [req EXCEPT ![r].victims = rest,
                                    ![r].pc = IF rest = {} THEN "insert" ELSE "limit"]
    BY <1>3 DEF RevokeOldSession
  <2> DEFINE rest == req[r].victims \ {i}
             p == [req[r] EXCEPT !.victims = rest,
                                 !.pc = IF rest = {} THEN "insert" ELSE "limit"]
  <2>1. Active' = Active \ {i}
    BY <1>0, RevokedActive
  <2>2. req[r] \in Busy /\ r \in OnTheWay
    BY <1>0, <1>3, BusyTyped DEF RevokeOldSession, OnTheWay
  <2>3. p.victims = rest
    BY <2>2 DEF Busy
  <2>4. req' = [req EXCEPT ![r] = p]
    BY <1>0 DEF Typed, SlotsTyped
  <2>5. req'[r].victims = req[r].victims \ {i} /\ \A s \in Requests \ {r} : req'[s] = req[s]
    BY <1>p, <2>3, <2>4
  <2>6. Active' \subseteq Active /\ Active' \ req'[r].victims \subseteq Kept(r)
    BY <2>1, <2>5 DEF Kept
  <2> QED BY <1>0, <2>2, <2>5, <2>6, SlotStays
<1>4. ASSUME UNCHANGED req, UNCHANGED sessions \/ \E rows : sessions' = Revoked(rows)
      PROVE  SessionBound' /\ WayInv'
  <2>1. Active' \subseteq Active
    <3>1. UNCHANGED sessions => Active' = Active
      BY DEF Active
    <3> QED BY <1>0, <1>4, <3>1, RevokedActive
  <2>2. OnTheWay' \subseteq OnTheWay
    BY <1>4 DEF OnTheWay
  <2>3. \A r \in OnTheWay' : Active' \ req'[r].victims \subseteq Kept(r)
    BY <1>4, <2>1 DEF Kept
  <2> QED BY <1>0, <2>1, <2>2, <2>3, WayStays
<1>5. ASSUME NEW r \in Requests, AccountCalls(r) PROVE SessionBound' /\ WayInv'
  BY <1>0, <1>2, <1>3, <1>5, WayCounted, WayInserted DEF AccountCalls
<1>6. ASSUME NEW i \in DOMAIN sessions, RevokeSessionById(i) PROVE SessionBound' /\ WayInv'
  BY <1>4, <1>6 DEF RevokeSessionById
<1>7. CASE RevokeUserSessions
  BY <1>4, <1>7 DEF RevokeUserSessions
<1>8. ASSUME NEW before \in 1..clock, CleanExpiredSessions(before)
      PROVE  SessionBound' /\ WayInv'
  BY <1>4, <1>8 DEF CleanExpiredSessions
<1>9. CASE Tick \/ UNCHANGED vars
  BY <1>4, <1>9 DEF Tick, vars
<1> QED BY <1>1, <1>5, <1>6, <1>7, <1>8, <1>9 DEF Next

LEMMA InitLimit == Init => LimitInv
<1> SUFFICES ASSUME Init PROVE LimitInv
  OBVIOUS
<1>1. AccountInv /\ Typed
  BY InitTyped DEF AccountInv
<1>2. Active = {} /\ OnTheWay = {}
  <2>1. DOMAIN sessions = {}
    BY DEF Init
  <2> QED BY <2>1, IdleTyped DEF Init, Active, OnTheWay
<1>3. SessionBound
  <2>1. Cardinality(Active) = 0
    BY <1>2, FS_EmptySet
  <2>2. Cardinality(Requests) \in Nat
    BY <1>1, CountsFinite
  <2> QED BY <2>1, <2>2, AccountConstants DEF SessionBound
<1> QED BY <1>1, <1>2, <1>3 DEF LimitInv, WayInv

\* However many requests race to open sessions, and however their counts, their
\* revocations and their insertions interleave, the account never has more active
\* sessions than max_sessions_per_user and one more for each other request.
THEOREM SessionsLimited == Spec => []SessionBound
<1>1. LimitInv => SessionBound
  BY DEF LimitInv
<1> QED BY InitLimit, StepLimit, <1>1, PTL DEF Spec

-----------------------------------------------------------------------------
(* What does not come back.                                                *)

\* An account that is signed out everywhere gets a refresh token from a login and
\* from nothing else: what other handlers read and will save has none, and no
\* refresh is half-way.
THEOREM LoginsSignIn == Spec => OnlyLoginSignsIn
<1>1. AccountInv /\ [Next]_vars =>
        [ NoTokenAnywhere =>
          /\ user'.token = 0
          /\ \A r \in Requests :
                req'[r] # Idle /\ req'[r].copy.token # 0 => req'[r].kind = "login" ]_vars
  <2> DEFINE Fine(q) == q # Idle /\ q.copy.token # 0 => q.kind = "login"
  <2> SUFFICES ASSUME AccountInv, Next, NoTokenAnywhere
               PROVE  user'.token = 0 /\ \A r \in Requests : Fine(req'[r])
    BY DEF vars, NoTokenAnywhere
  <2>0. /\ Typed /\ user \in User /\ user.token = 0
        /\ \A r \in Requests : req[r] # Idle => req[r].copy.token = 0
    BY DEF AccountInv, Typed, NoTokenAnywhere
  <2>i. Fine(Idle) /\ \A r \in Requests : Fine(req[r])
    BY <2>0
  <2> HIDE DEF Fine
  <2>p. ASSUME NEW r \in Requests, NEW q, req' = [req EXCEPT ![r] = q], Fine(q)
        PROVE  \A s \in Requests : Fine(req'[s])
    BY <2>0, <2>i, <2>p DEF Typed, SlotsTyped
  <2>1. ASSUME NEW r \in Requests,
               \/ SessionRoutes(r) \/ VerificationRoutes(r) \/ PasswordRoutes(r)
               \/ PhoneRoutes(r) \/ AdminUpdates(r)
        PROVE  user'.token = 0 /\ \A s \in Requests : Fine(req'[s])
    <3> PICK q : Reads(r, q) /\ UNCHANGED user
      BY <2>0, <2>1, RoutesRead
    <3>1. Fine(q)
      BY <2>0 DEF Reads, Fine
    <3> QED BY <2>0, <2>p, <3>1 DEF Reads
  <2>2. ASSUME NEW r \in Requests, AccountCalls(r)
        PROVE  user'.token = 0 /\ \A s \in Requests : Fine(req'[s])
    <3> DEFINE q == req[r]
    <3>0. req[r].pc # "idle"
      BY <2>2 DEF AccountCalls, SelectUser, UpdateUser, EnforceSessionLimit, RevokeOldSession,
         InsertSession, RevokeSession, RevokeAllUserSessions
    <3>1. /\ q \in Busy /\ SlotTyped(q, clock, Len(sessions)) /\ q # Idle
          /\ q.copy.token = 0 /\ q.kind # "refresh"
      BY <2>0, <3>0, BusyTyped, IdleTyped DEF SlotTyped, SignedBy
    <3>2. user'.token = 0
      <4>1. CASE UpdateUser(r)
        BY <2>0, <3>1, <4>1 DEF UpdateUser, Columns
      <4>2. CASE UNCHANGED user
        BY <2>0, <4>2
      <4> QED BY <2>2, <4>1, <4>2 DEF AccountCalls, SelectUser, EnforceSessionLimit,
              RevokeOldSession, InsertSession, RevokeSession, RevokeAllUserSessions
    <3>3. ASSUME NEW p, p.copy = q.copy, req' = [req EXCEPT ![r] = p] \/ Advance(r, p)
          PROVE  \A s \in Requests : Fine(req'[s])
      <4>1. Fine(p)
        BY <3>1, <3>3 DEF Fine
      <4> QED BY <2>i, <2>p, <3>3, <4>1 DEF Advance
    <3>f. ASSUME NEW pc, NEW dirty, NEW victims
          PROVE  /\ [q EXCEPT !.pc = pc].copy = q.copy
                 /\ [q EXCEPT !.pc = pc, !.dirty = dirty].copy = q.copy
                 /\ [q EXCEPT !.pc = pc, !.victims = victims].copy = q.copy
                 /\ [q EXCEPT !.victims = victims, !.pc = pc].copy = q.copy
      BY <3>1 DEF Busy
    <3>4. CASE SelectUser(r)
      <4> DEFINE dirty == {c \in Columns : q.copy[c] # user[c]} \cup Rehashed(q)
      <4>1. \/ Advance(r, [q EXCEPT !.pc = AfterSave(q)])
            \/ Advance(r, [q EXCEPT !.pc = "update", !.dirty = dirty])
        BY <3>4 DEF SelectUser
      <4> HIDE DEF dirty
      <4> QED BY <3>2, <3>3, <3>f, <4>1
    <3>5. CASE UpdateUser(r)
      <4>1. Advance(r, [q EXCEPT !.pc = AfterSave(q), !.dirty = {}])
        BY <3>5 DEF UpdateUser
      <4> QED BY <3>2, <3>3, <3>f, <4>1
    <3>6. CASE EnforceSessionLimit(r)
      <4>1. CASE req' = [req EXCEPT ![r].pc = "insert"]
        <5>1. req' = [req EXCEPT ![r] = [q EXCEPT !.pc = "insert"]]
          BY <4>1
        <5> QED BY <3>2, <3>3, <3>f, <5>1
      <4>2. ASSUME NEW oldest, req' = [req EXCEPT ![r].pc = "limit", ![r].victims = oldest]
            PROVE  \A s \in Requests : Fine(req'[s])
        <5>1. req' = [req EXCEPT ![r] = [q EXCEPT !.pc = "limit", !.victims = oldest]]
          BY <2>0, <4>2 DEF Typed, SlotsTyped
        <5> QED BY <3>3, <3>f, <5>1
      <4> QED BY <3>2, <3>6, <4>1, <4>2 DEF EnforceSessionLimit
    <3>7. CASE RevokeOldSession(r)
      <4> PICK victims, pc : req' = [req EXCEPT ![r].victims = victims, ![r].pc = pc]
        BY <3>7 DEF RevokeOldSession
      <4>1. req' = [req EXCEPT ![r] = [q EXCEPT !.victims = victims, !.pc = pc]]
        BY <2>0 DEF Typed, SlotsTyped
      <4> QED BY <3>2, <3>3, <3>f, <4>1
    <3>8. CASE InsertSession(r)
      BY <2>i, <2>p, <3>2, <3>8 DEF InsertSession
    <3>9. CASE RevokeSession(r) \/ RevokeAllUserSessions(r)
      <4>1. req' = [req EXCEPT ![r] = [q EXCEPT !.pc = "select"]]
        BY <3>1, <3>9 DEF RevokeSession, RevokeAllUserSessions
      <4> QED BY <3>2, <3>3, <3>f, <4>1
    <3> QED BY <2>2, <3>4, <3>5, <3>6, <3>7, <3>8, <3>9 DEF AccountCalls
  <2>3. ASSUME UNCHANGED <<user, req>>
        PROVE  user'.token = 0 /\ \A s \in Requests : Fine(req'[s])
    BY <2>0, <2>i, <2>3
  <2> QED BY <2>1, <2>2, <2>3
          DEF Next, RevokeSessionById, RevokeUserSessions, CleanExpiredSessions, Tick
<1> QED BY InitTyped, StepTyped, <1>1, PTL DEF Spec, OnlyLoginSignsIn
-----------------------------------------------------------------------------
(* What the requests make of the row that they read, and save.             *)

PasswordKinds == {"changePassword", "confirmChange", "resetPassword", "setPassword"}
CodeKinds == {"resendOtp", "requestChange", "sendPhoneOtp"}

\* The calls of a request that has still to save.
Waiting == {"revoke", "revokeAll", "select", "update"}

\* The request is about the password: it has hashed one, which a wrong code for a
\* change has not.
Asked(kind, copy) == kind \in PasswordKinds /\ (kind = "confirmChange" => copy.otp = 0)

LEMMA AskedHashes ==
    ASSUME NEW q, q.kind \in Kinds
    PROVE  "password" \in Rehashed(q) <=> Asked(q.kind, q.copy)
BY DEF Rehashed, Asked, PasswordKinds, Kinds

\* An entity that a request of this kind may save: it differs from the row in what
\* the request is about, and gives no tries back without a new code.
LoyalTo(row, kind, copy) ==
    /\ kind \in Kinds
    /\ ~Asked(kind, copy) => copy.password = row.password
    /\ kind \notin CodeKinds => copy.otp \in {0, row.otp}
    /\ kind # "forgotPassword" => copy.reset \in {0, row.reset}
    /\ copy.attempts < row.attempts => copy.otp # row.otp

Loyal(kind, copy) == LoyalTo(user, kind, copy)

\* No code comes from the future.
CodesIssued ==
    /\ user.otp <= secrets
    /\ \A r \in Requests : req[r].pc \in Waiting => req[r].copy.otp <= secrets

\* What each handler makes of the row that it read is loyal to it.
LEMMA RoutesLoyal ==
    ASSUME Typed, user.otp <= secrets, NEW r \in Requests,
           \/ SessionRoutes(r) \/ VerificationRoutes(r) \/ PasswordRoutes(r)
           \/ PhoneRoutes(r) \/ AdminUpdates(r)
    PROVE  /\ UNCHANGED user /\ secrets' \in {secrets, secrets + 1}
           /\ \E q : /\ req' = [req EXCEPT ![r] = q] /\ q.pc # "update"
                    /\ Loyal(q.kind, q.copy) /\ q.copy.otp <= secrets'
<1> DEFINE Goal == /\ UNCHANGED user /\ secrets' \in {secrets, secrets + 1}
                   /\ \E q : /\ req' = [req EXCEPT ![r] = q] /\ q.pc # "update"
                            /\ Loyal(q.kind, q.copy) /\ q.copy.otp <= secrets'
<1> SUFFICES Goal
  OBVIOUS
<1>0. /\ user \in User /\ secrets \in Nat /\ user.otp \in Nat /\ user.otp <= secrets
      /\ user.attempts \in Nat /\ clock \in 0..MaxClock
      /\ \A i \in DOMAIN sessions : sessions[i].token \in Nat
  BY AccountConstants DEF Typed, SessionsTyped, User
<1>s. ASSUME NEW kind, NEW pc \in {"select", "revokeAll"}, NEW copy, Start(r, kind, pc, copy),
             Loyal(kind, copy), copy.otp <= secrets', UNCHANGED user,
             secrets' \in {secrets, secrets + 1}
      PROVE  Goal
  <2> DEFINE q == [Idle EXCEPT !.kind = kind, !.pc = pc, !.copy = copy]
  <2>1. q.kind = kind /\ q.pc = pc /\ q.copy = copy
    BY DEF Idle
  <2>2. req' = [req EXCEPT ![r] = q]
    BY <1>s DEF Start
  <2> HIDE DEF q
  <2> QED BY <1>s, <2>1, <2>2
<1> HIDE DEF Goal
<1>e. ASSUME NEW kind, NEW copy, Edit(r, kind, copy), Loyal(kind, copy), copy.otp <= secrets
      PROVE  Goal
  BY <1>s, <1>e DEF Edit
<1>i. ASSUME NEW kind, NEW copy, Issue(r, kind, copy), Loyal(kind, copy),
             copy.otp <= secrets + 1
      PROVE  Goal
  BY <1>s, <1>i DEF Issue
\* The columns of an entity that is made from another.
<1>r. ASSUME NEW row \in User
      PROVE  /\ SignedOut(row) \in User
             /\ \A c \in {"password", "otp", "reset", "attempts"} : SignedOut(row)[c] = row[c]
             /\ \A p \in Passwords :
                   /\ [row EXCEPT !.password = p] \in User
                   /\ \A c \in {"otp", "reset", "attempts"} :
                         [row EXCEPT !.password = p][c] = row[c]
             /\ \A b \in BOOLEAN : \A c \in {"password", "otp", "reset", "attempts"} :
                   /\ [row EXCEPT !.phoneVerified = b][c] = row[c]
                   /\ [row EXCEPT !.emailVerified = b][c] = row[c]
  <2>1. 0 \in 0..MaxClock
    BY AccountConstants
  <2> QED BY <2>1 DEF SignedOut, User
\* An entity that is the row in these columns is loyal to it.
<1>l. ASSUME NEW kind \in Kinds, NEW copy, copy.otp = user.otp, copy.reset = user.reset,
             copy.attempts = user.attempts,
             \/ kind \in PasswordKinds \ {"confirmChange"}
             \/ copy.password = user.password
      PROVE  Loyal(kind, copy) /\ copy.otp <= secrets /\ copy.otp <= secrets + 1
  BY <1>0, <1>l DEF Loyal, LoyalTo, Asked
<1>n. ASSUME NEW kind \in CodeKinds, NEW copy, copy.otp = secrets + 1,
             copy.reset = user.reset, copy.password = user.password
      PROVE  Loyal(kind, copy)
  BY <1>0, <1>n DEF Loyal, LoyalTo, CodeKinds, Kinds
<1>c. ASSUME NEW kind \in Kinds, NEW done \in User, TakeCode(r, kind, done),
             done.reset = user.reset,
             kind = "confirmChange" \/ done.password = user.password
      PROVE  Goal
  <2>1. CASE Edit(r, kind, CodeUsed(done))
    <3>1. /\ CodeUsed(done).otp = 0 /\ CodeUsed(done).reset = user.reset
          /\ CodeUsed(done).password = done.password /\ user.otp # 0
      BY <1>c DEF CodeUsed, User, TakeCode
    <3>2. Loyal(kind, CodeUsed(done)) /\ CodeUsed(done).otp <= secrets
      BY <1>0, <1>c, <3>1 DEF Loyal, LoyalTo, Asked, PasswordKinds
    <3> QED BY <1>e, <2>1, <3>2
  <2>2. CASE Edit(r, kind, [user EXCEPT !.attempts = @ + 1])
    <3> DEFINE copy == [user EXCEPT !.attempts = @ + 1]
    <3>1. /\ copy.otp = user.otp /\ copy.reset = user.reset /\ copy.password = user.password
          /\ copy.attempts = user.attempts + 1
      BY <1>0 DEF User
    <3> HIDE DEF copy
    <3>2. Loyal(kind, copy) /\ copy.otp <= secrets
      BY <1>0, <3>1 DEF Loyal, LoyalTo
    <3> QED BY <1>e, <2>2, <3>2 DEF copy
  <2> QED BY <1>c, <2>1, <2>2 DEF TakeCode
<1>1. CASE Login(r)
  <2> DEFINE copy == [user EXCEPT !.token = clock]
  <2>1. /\ copy.otp = user.otp /\ copy.reset = user.reset /\ copy.attempts = user.attempts
        /\ copy.password = user.password
    BY <1>0 DEF User
  <2>2. Start(r, "login", "select", copy) /\ UNCHANGED <<user, secrets>>
    BY <1>1 DEF Login
  <2> HIDE DEF copy
  <2>3. Loyal("login", copy) /\ copy.otp <= secrets
    BY <1>l, <2>1 DEF Kinds
  <2> QED BY <1>s, <2>2, <2>3
<1>2. CASE Refresh(r)
  <2> PICK i \in DOMAIN sessions :
          req' = [req EXCEPT ![r] = [Idle EXCEPT !.kind = "refresh", !.pc = "revoke",
                                          !.copy = user, !.token = sessions[i].token]]
    BY <1>2 DEF Refresh
  <2> DEFINE q == [Idle EXCEPT !.kind = "refresh", !.pc = "revoke", !.copy = user,
                               !.token = sessions[i].token]
  <2>1. q.kind = "refresh" /\ q.pc = "revoke" /\ q.copy = user
    BY DEF Idle
  <2>2. req' = [req EXCEPT ![r] = q]
    OBVIOUS
  <2>3. Loyal("refresh", user) /\ user.otp <= secrets
    BY <1>l DEF Kinds
  <2> HIDE DEF q
  <2> QED BY <1>2, <2>1, <2>2, <2>3 DEF Refresh, Goal
<1>3. ASSUME NEW kind \in {"logout", "logoutAll"}
      PROVE  Loyal(kind, SignedOut(user)) /\ SignedOut(user).otp <= secrets
  <2>1. /\ SignedOut(user).otp = user.otp /\ SignedOut(user).reset = user.reset
        /\ SignedOut(user).attempts = user.attempts
        /\ SignedOut(user).password = user.password
    BY <1>0, <1>r
  <2> QED BY <1>l, <2>1 DEF Kinds
<1>4. CASE Logout(r)
  <2>1. CASE Edit(r, "logout", SignedOut(user))
    BY <1>3, <1>e, <2>1
  <2>2. ASSUME NEW i \in DOMAIN sessions,
               req' = [req EXCEPT ![r] = [Idle EXCEPT !.kind = "logout", !.pc = "revoke",
                                    !.copy = SignedOut(user), !.token = sessions[i].token]],
               UNCHANGED <<user, sessions, clock, secrets>>
        PROVE  Goal
    <3> DEFINE q == [Idle EXCEPT !.kind = "logout", !.pc = "revoke",
                                 !.copy = SignedOut(user), !.token = sessions[i].token]
    <3>1. q.kind = "logout" /\ q.pc = "revoke" /\ q.copy = SignedOut(user)
      BY DEF Idle
    <3>2. req' = [req EXCEPT ![r] = q]
      BY <2>2
    <3> HIDE DEF q
    <3> QED BY <1>3, <2>2, <3>1, <3>2 DEF Goal
  <2> QED BY <1>4, <2>1, <2>2 DEF Logout
<1>5. CASE LogoutAll(r)
  BY <1>3, <1>5, <1>s DEF LogoutAll
<1>6. CASE VerifyEmail(r)
  <2> DEFINE done == [user EXCEPT !.emailVerified = TRUE]
  <2>1. done \in User /\ done.reset = user.reset /\ done.password = user.password
    BY <1>0 DEF User
  <2>2. TakeCode(r, "verifyEmail", done)
    BY <1>6 DEF VerifyEmail
  <2> HIDE DEF done
  <2> QED BY <1>c, <2>1, <2>2 DEF Kinds
<1>7. CASE VerifyPhone(r)
  <2> DEFINE done == [user EXCEPT !.phoneVerified = TRUE]
  <2>1. done \in User /\ done.reset = user.reset /\ done.password = user.password
    BY <1>0 DEF User
  <2>2. TakeCode(r, "verifyPhone", done)
    BY <1>7 DEF VerifyPhone
  <2> HIDE DEF done
  <2> QED BY <1>c, <2>1, <2>2 DEF Kinds
<1>8. CASE ConfirmChangePassword(r)
  <2> PICK p \in Passwords :
          TakeCode(r, "confirmChange", SignedOut([user EXCEPT !.password = p]))
    BY <1>8 DEF ConfirmChangePassword
  <2> DEFINE row == [user EXCEPT !.password = p]
  <2>1. row \in User /\ row.reset = user.reset
    BY <1>0, <1>r
  <2> HIDE DEF row
  <2>2. SignedOut(row) \in User /\ SignedOut(row).reset = user.reset
    BY <1>r, <2>1
  <2>3. TakeCode(r, "confirmChange", SignedOut(row))
    BY DEF row
  <2> QED BY <1>c, <2>2, <2>3 DEF Kinds
<1>9. CASE ChangePassword(r)
  <2> PICK p \in Passwords :
          Edit(r, "changePassword", SignedOut([user EXCEPT !.password = p]))
    BY <1>9 DEF ChangePassword
  <2> DEFINE row == [user EXCEPT !.password = p]
  <2>1. /\ row \in User /\ row.reset = user.reset /\ row.otp = user.otp
        /\ row.attempts = user.attempts
    BY <1>0, <1>r
  <2> HIDE DEF row
  <2>2. /\ SignedOut(row).reset = user.reset /\ SignedOut(row).otp = user.otp
        /\ SignedOut(row).attempts = user.attempts
    BY <1>r, <2>1
  <2>3. Edit(r, "changePassword", SignedOut(row))
    BY DEF row
  <2>4. Loyal("changePassword", SignedOut(row)) /\ SignedOut(row).otp <= secrets
    BY <1>l, <2>2 DEF Kinds, PasswordKinds
  <2> QED BY <1>e, <2>3, <2>4
<1>10. CASE ResetPassword(r)
  <2> PICK p \in Passwords :
          Edit(r, "resetPassword", SignedOut([user EXCEPT !.password = p, !.reset = 0]))
    BY <1>10 DEF ResetPassword
  <2> DEFINE row == [user EXCEPT !.password = p, !.reset = 0]
  <2>1. /\ row \in User /\ row.reset = 0 /\ row.otp = user.otp
        /\ row.attempts = user.attempts
    <3>1. 0 \in 0..MaxSecrets
      BY AccountConstants
    <3> QED BY <1>0, <3>1 DEF User
  <2> HIDE DEF row
  <2>2. /\ SignedOut(row).reset = 0 /\ SignedOut(row).otp = user.otp
        /\ SignedOut(row).attempts = user.attempts
    BY <1>r, <2>1
  <2>3. Edit(r, "resetPassword", SignedOut(row))
    BY DEF row
  <2>4. Loyal("resetPassword", SignedOut(row)) /\ SignedOut(row).otp <= secrets
    BY <1>0, <2>2 DEF Loyal, LoyalTo, Kinds, PasswordKinds, Asked
  <2> QED BY <1>e, <2>3, <2>4
<1>11. CASE ForgotPassword(r)
  <2> DEFINE copy == [user EXCEPT !.reset = secrets + 1]
  <2>1. /\ copy.otp = user.otp /\ copy.attempts = user.attempts
        /\ copy.password = user.password
    BY <1>0 DEF User
  <2>2. Issue(r, "forgotPassword", copy)
    BY <1>11 DEF ForgotPassword
  <2> HIDE DEF copy
  <2>3. Loyal("forgotPassword", copy) /\ copy.otp <= secrets + 1
    BY <1>0, <2>1 DEF Loyal, LoyalTo, Kinds
  <2> QED BY <1>i, <2>2, <2>3
<1>12. CASE ResendOtp(r) \/ RequestChangePassword(r) \/ SendPhoneOtp(r)
  <2>1. /\ NewCode(user).otp = secrets + 1 /\ NewCode(user).reset = user.reset
        /\ NewCode(user).password = user.password
    BY <1>0 DEF NewCode, User
  <2> DEFINE copy == [NewCode(user) EXCEPT !.phoneVerified = FALSE]
  <2>2. copy.otp = secrets + 1 /\ copy.reset = user.reset /\ copy.password = user.password
    BY <1>0 DEF NewCode, User
  <2>3. \/ \E kind \in CodeKinds : Issue(r, kind, NewCode(user))
        \/ Issue(r, "sendPhoneOtp", copy)
    BY <1>12 DEF ResendOtp, RequestChangePassword, SendPhoneOtp, CodeKinds
  <2> HIDE DEF copy
  <2>4. "sendPhoneOtp" \in CodeKinds
    BY DEF CodeKinds
  <2>5. /\ \A kind \in CodeKinds : Loyal(kind, NewCode(user)) /\ Loyal(kind, copy)
        /\ NewCode(user).otp <= secrets + 1 /\ copy.otp <= secrets + 1
    BY <1>0, <1>n, <2>1, <2>2
  <2> QED BY <1>i, <2>3, <2>4, <2>5
<1>13. CASE ChangePhone(r)
  <2> DEFINE copy == [user EXCEPT !.phoneVerified = FALSE]
  <2>1. /\ copy.otp = user.otp /\ copy.reset = user.reset /\ copy.attempts = user.attempts
        /\ copy.password = user.password
    BY <1>0 DEF User
  <2>2. Edit(r, "updateProfile", copy)
    BY <1>13 DEF ChangePhone
  <2> HIDE DEF copy
  <2>3. Loyal("updateProfile", copy) /\ copy.otp <= secrets
    BY <1>l, <2>1 DEF Kinds
  <2> QED BY <1>e, <2>2, <2>3
<1>14. CASE AdminUpdates(r)
  <2> PICK email \in BOOLEAN, phone \in BOOLEAN :
        LET row == [user EXCEPT !.emailVerified = email, !.phoneVerified = phone]
        IN  \/ Edit(r, "updateUser", row)
            \/ \E p \in Passwords : Edit(r, "setPassword", [row EXCEPT !.password = p])
    BY <1>14 DEF AdminUpdates
  <2> DEFINE row == [user EXCEPT !.emailVerified = email, !.phoneVerified = phone]
  <2>1. /\ row \in User /\ row.otp = user.otp /\ row.reset = user.reset
        /\ row.attempts = user.attempts /\ row.password = user.password
    BY <1>0 DEF User
  <2>2. \/ Edit(r, "updateUser", row)
        \/ \E p \in Passwords : Edit(r, "setPassword", [row EXCEPT !.password = p])
    OBVIOUS
  <2> HIDE DEF row
  <2>3. Loyal("updateUser", row) /\ row.otp <= secrets
    BY <1>l, <2>1 DEF Kinds
  <2>4. ASSUME NEW p \in Passwords, Edit(r, "setPassword", [row EXCEPT !.password = p])
        PROVE  Goal
    <3> DEFINE copy == [row EXCEPT !.password = p]
    <3>1. copy.otp = user.otp /\ copy.reset = user.reset /\ copy.attempts = user.attempts
      BY <1>r, <2>1
    <3> HIDE DEF copy
    <3>2. Loyal("setPassword", copy) /\ copy.otp <= secrets
      BY <1>l, <3>1 DEF Kinds, PasswordKinds
    <3>3. Edit(r, "setPassword", copy)
      BY <2>4 DEF copy
    <3> QED BY <1>e, <3>2, <3>3
  <2> QED BY <1>e, <2>2, <2>3, <2>4
<1> QED BY <1>1, <1>2, <1>4, <1>5, <1>6, <1>7, <1>8, <1>9, <1>10, <1>11, <1>12, <1>13, <1>14
        DEF SessionRoutes, VerificationRoutes, PasswordRoutes, PhoneRoutes
\* The calls that change the row: the UPDATE of a request that is then done with it.
LEMMA UpdateDone ==
    ASSUME AccountInv, NEW r \in Requests, UpdateUser(r)
    PROVE  /\ req[r] \in Busy /\ req[r].pc = "update"
           /\ user' = [c \in Columns |-> IF c \in req[r].dirty THEN req[r].copy[c] ELSE user[c]]
           /\ req'[r].pc \in {"idle", "list"}
<1>1. /\ req[r] \in Busy /\ req[r].pc = "update" /\ DOMAIN req = Requests
      /\ user' = [c \in Columns |-> IF c \in req[r].dirty THEN req[r].copy[c] ELSE user[c]]
  BY BusyTyped DEF UpdateUser, AccountInv, Typed, SlotsTyped
<1> DEFINE p == [req[r] EXCEPT !.pc = AfterSave(req[r]), !.dirty = {}]
<1>2. p.pc \in {"idle", "list"}
  BY <1>1 DEF AfterSave, Busy
<1>3. Advance(r, p)
  BY DEF UpdateUser
<1> HIDE DEF p
<1>4. req'[r] \in {p, Idle}
  BY <1>1, <1>3 DEF Advance, AccountInv, Typed, SlotsTyped
<1> QED BY <1>1, <1>2, <1>4, IdleTyped

\* A call moves one request.
LEMMA CallsAlone ==
    ASSUME AccountInv, NEW r \in Requests, AccountCalls(r)
    PROVE  \A s \in Requests \ {r} : req'[s] = req[s]
<1> DOMAIN req = Requests
  BY DEF AccountInv, Typed, SlotsTyped
<1> QED BY DEF AccountCalls, SelectUser, UpdateUser, EnforceSessionLimit, RevokeOldSession,
           InsertSession, RevokeSession, RevokeAllUserSessions, Advance

\* The columns that the properties below are about.
Compared == {"password", "otp", "reset", "attempts"}

\* What a call does with the row and with its request: it writes the row, or takes
\* its request past the save, or on towards the save.
LEMMA CallsMove ==
    ASSUME AccountInv, NEW r \in Requests, AccountCalls(r)
    PROVE  \/ UpdateUser(r)
           \/ /\ UNCHANGED <<user, secrets>>
              /\ \/ req'[r].pc \notin Waiting
                 \/ /\ req[r].pc \in BeforeSelect /\ req'[r].pc = "select"
                    /\ req'[r].kind = req[r].kind
                    /\ \A c \in Compared : req'[r].copy[c] = req[r].copy[c]
                 \/ /\ req[r].pc = "select" /\ req'[r].pc = "update"
                    /\ req'[r].kind = req[r].kind /\ req'[r].copy = req[r].copy
                    /\ req'[r].dirty = {c \in Columns : req[r].copy[c] # user[c]}
                                           \cup Rehashed(req[r])
<1> DEFINE Goal ==
      /\ UNCHANGED <<user, secrets>>
      /\ \/ req'[r].pc \notin Waiting
         \/ /\ req[r].pc \in BeforeSelect /\ req'[r].pc = "select"
            /\ req'[r].kind = req[r].kind
            /\ \A c \in Compared : req'[r].copy[c] = req[r].copy[c]
         \/ /\ req[r].pc = "select" /\ req'[r].pc = "update"
            /\ req'[r].kind = req[r].kind /\ req'[r].copy = req[r].copy
            /\ req'[r].dirty = {c \in Columns : req[r].copy[c] # user[c]}
                                   \cup Rehashed(req[r])
<1> SUFFICES UpdateUser(r) \/ Goal
  OBVIOUS
<1>p. ASSUME NEW q, req' = [req EXCEPT ![r] = q] PROVE req'[r] = q
  BY <1>p DEF AccountInv, Typed, SlotsTyped
<1>1. CASE SelectUser(r)
  <2> DEFINE q == req[r]
             dirty == {c \in Columns : q.copy[c] # user[c]} \cup Rehashed(q)
             done == [q EXCEPT !.pc = AfterSave(q)]
             next == [q EXCEPT !.pc = "update", !.dirty = dirty]
  <2>1. q \in Busy /\ q.pc = "select" /\ UNCHANGED <<user, secrets>>
    BY <1>1, BusyTyped DEF SelectUser, AccountInv
  <2>2. /\ done.pc \in {"idle", "list"}
        /\ next.pc = "update" /\ next.dirty = dirty /\ next.copy = q.copy
        /\ next.kind = q.kind
    BY <2>1 DEF AfterSave, Busy
  <2>3. Advance(r, done) \/ Advance(r, next)
    BY <1>1 DEF SelectUser
  <2> HIDE DEF done, next
  <2>4. req'[r] \in {done, Idle} \/ req'[r] = next
    BY <1>p, <2>3 DEF Advance
  <2>5. CASE req'[r] \in {done, Idle}
    BY <2>1, <2>2, <2>5, IdleTyped DEF Waiting
  <2>6. CASE req'[r] = next
    BY <2>1, <2>2, <2>6
  <2> QED BY <2>4, <2>5, <2>6
<1>2. CASE RevokeSession(r) \/ RevokeAllUserSessions(r)
  <2> DEFINE q == req[r]
  <2>1. q \in Busy /\ q.copy \in User /\ q.pc \in BeforeSelect /\ UNCHANGED <<user, secrets>>
    BY <1>2, BusyTyped DEF RevokeSession, RevokeAllUserSessions, Busy, BeforeSelect, AccountInv
  <2> DEFINE signed == [q EXCEPT !.pc = "select", !.copy.token = clock]
             next == [q EXCEPT !.pc = "select"]
  <2>2. /\ next.pc = "select" /\ next.copy = q.copy /\ next.kind = q.kind
        /\ signed.pc = "select" /\ signed.copy = [q.copy EXCEPT !.token = clock]
        /\ signed.kind = q.kind
    BY <2>1 DEF Busy
  <2>3. req' = [req EXCEPT ![r] = signed] \/ req' = [req EXCEPT ![r] = next]
    BY <1>2 DEF RevokeSession, RevokeAllUserSessions
  <2>4. \A c \in Compared : [q.copy EXCEPT !.token = clock][c] = q.copy[c]
    BY <2>1 DEF User, Compared
  <2> HIDE DEF signed, next
  <2>5. req'[r] = signed \/ req'[r] = next
    BY <1>p, <2>3
  <2> QED BY <2>1, <2>2, <2>4, <2>5
<1>3. CASE EnforceSessionLimit(r) \/ RevokeOldSession(r) \/ InsertSession(r)
  <2>1. req[r] \in Busy /\ UNCHANGED <<user, secrets>>
    BY <1>3, BusyTyped DEF EnforceSessionLimit, RevokeOldSession, InsertSession, AccountInv
  <2>2. ASSUME NEW pc \in {"limit", "insert"}, NEW v
        PROVE  /\ [req[r] EXCEPT !.pc = pc].pc = pc
               /\ [req[r] EXCEPT !.pc = pc, !.victims = v].pc = pc
               /\ [req[r] EXCEPT !.victims = v, !.pc = pc].pc = pc
    BY <2>1 DEF Busy
  <2>3. CASE InsertSession(r)
    BY <1>p, <2>1, <2>3, IdleTyped DEF InsertSession, Waiting
  <2>4. CASE RevokeOldSession(r)
    <3> PICK v, pc : /\ req' = [req EXCEPT ![r].victims = v, ![r].pc = pc]
                     /\ pc \in {"limit", "insert"}
      BY <2>4 DEF RevokeOldSession
    <3> DEFINE q == [req[r] EXCEPT !.victims = v, !.pc = pc]
    <3>1. q.pc = pc
      BY <2>2
    <3>2. req' = [req EXCEPT ![r] = q]
      BY DEF AccountInv, Typed, SlotsTyped
    <3> HIDE DEF q
    <3>3. req'[r] = q
      BY <1>p, <3>2
    <3> QED BY <2>1, <3>1, <3>3 DEF Waiting
  <2>5. CASE req' = [req EXCEPT ![r].pc = "insert"]
    <3> DEFINE q == [req[r] EXCEPT !.pc = "insert"]
    <3>1. q.pc = "insert"
      BY <2>2
    <3>2. req' = [req EXCEPT ![r] = q]
      BY <2>5
    <3> HIDE DEF q
    <3>3. req'[r] = q
      BY <1>p, <3>2
    <3> QED BY <2>1, <3>1, <3>3 DEF Waiting
  <2>6. ASSUME NEW v, req' = [req EXCEPT ![r].pc = "limit", ![r].victims = v]
        PROVE  Goal
    <3> DEFINE q == [req[r] EXCEPT !.pc = "limit", !.victims = v]
    <3>1. q.pc = "limit"
      BY <2>2
    <3>2. req' = [req EXCEPT ![r] = q]
      BY <2>6 DEF AccountInv, Typed, SlotsTyped
    <3> HIDE DEF q, Goal
    <3>3. req'[r] = q
      BY <1>p, <3>2
    <3> QED BY <2>1, <3>1, <3>3 DEF Waiting, Goal
  <2> HIDE DEF Goal
  <2>7. EnforceSessionLimit(r) =>
           \/ req' = [req EXCEPT ![r].pc = "insert"]
           \/ \E v : req' = [req EXCEPT ![r].pc = "limit", ![r].victims = v]
    BY DEF EnforceSessionLimit
  <2> QED BY <1>3, <2>3, <2>4, <2>5, <2>6, <2>7
<1> QED BY <1>1, <1>2, <1>3 DEF AccountCalls

LEMMA InitCodes == Init => CodesIssued
BY IdleTyped DEF Init, NewAccount, CodesIssued, Waiting

LEMMA StepCodes ==
    ASSUME AccountInv, CodesIssued, [Next]_vars
    PROVE  CodesIssued'
<1>0. /\ Typed /\ user \in User /\ secrets \in Nat /\ user.otp <= secrets /\ user.otp \in Nat
  BY AccountConstants DEF AccountInv, Typed, User, CodesIssued
<1>a. ASSUME NEW r \in Requests, user'.otp <= secrets', secrets' \in {secrets, secrets + 1},
             \A s \in Requests \ {r} : req'[s] = req[s],
             req'[r].pc \in Waiting => req'[r].copy.otp <= secrets'
      PROVE  CodesIssued'
  <2>1. ASSUME NEW s \in Requests \ {r}, req'[s].pc \in Waiting
        PROVE  req'[s].copy.otp <= secrets'
    <3>1. req'[s] = req[s] /\ req[s].pc \in Waiting /\ s \in Requests
      BY <1>a, <2>1
    <3>2. req[s].copy.otp <= secrets
      BY <3>1 DEF CodesIssued
    <3>3. req[s].copy.otp \in Nat
      BY <1>0, <3>1, BusyTyped, AccountConstants DEF Busy, User, Waiting
    <3> QED BY <1>0, <1>a, <3>1, <3>2, <3>3
  <2> QED BY <1>a, <2>1 DEF CodesIssued
<1>1. ASSUME NEW r \in Requests,
             \/ SessionRoutes(r) \/ VerificationRoutes(r) \/ PasswordRoutes(r)
             \/ PhoneRoutes(r) \/ AdminUpdates(r)
      PROVE  CodesIssued'
  <2>1. UNCHANGED user /\ secrets' \in {secrets, secrets + 1}
    BY <1>0, <1>1, RoutesLoyal
  <2>2. PICK q : req' = [req EXCEPT ![r] = q] /\ q.copy.otp <= secrets'
    BY <1>0, <1>1, RoutesLoyal
  <2>3. req'[r] = q /\ (\A s \in Requests \ {r} : req'[s] = req[s])
    BY <1>0, <2>2 DEF Typed, SlotsTyped
  <2>4. user'.otp <= secrets'
    BY <1>0, <2>1
  <2> QED BY <1>a, <2>1, <2>2, <2>3, <2>4
<1>2. ASSUME NEW r \in Requests, AccountCalls(r) PROVE CodesIssued'
  <2>1. \A s \in Requests \ {r} : req'[s] = req[s]
    BY <1>2, CallsAlone
  <2>2. CASE UpdateUser(r)
    <3>1. /\ req[r].pc = "update" /\ req'[r].pc \notin Waiting /\ secrets' = secrets
          /\ user' = [c \in Columns |-> IF c \in req[r].dirty THEN req[r].copy[c] ELSE user[c]]
      BY <2>2, UpdateDone DEF UpdateUser, Waiting
    <3>2. req[r].copy.otp <= secrets
      BY <3>1 DEF CodesIssued, Waiting
    <3>3. user'.otp <= secrets'
      BY <1>0, <3>1, <3>2 DEF Columns
    <3> QED BY <1>a, <2>1, <3>1, <3>3
  <2>3. CASE ~UpdateUser(r)
    <3>1. /\ UNCHANGED <<user, secrets>>
          /\ req'[r].pc \in Waiting =>
                req[r].pc \in Waiting /\ req'[r].copy.otp = req[r].copy.otp
      BY <1>2, <2>3, CallsMove DEF Waiting, BeforeSelect, Compared
    <3>2. req'[r].pc \in Waiting => req'[r].copy.otp <= secrets'
      BY <3>1 DEF CodesIssued
    <3> QED BY <1>0, <1>a, <2>1, <3>1, <3>2
  <2> QED BY <2>2, <2>3
<1>3. ASSUME UNCHANGED <<user, req, secrets>> PROVE CodesIssued'
  BY <1>3 DEF CodesIssued
<1> QED BY <1>1, <1>2, <1>3
        DEF Next, RevokeSessionById, RevokeUserSessions, CleanExpiredSessions, Tick, vars

\* The row changes when, and only when, a request's UPDATE is executed.
LEMMA RowWritten ==
    ASSUME AccountInv, Next, user' # user
    PROVE  \E r \in Requests : UpdateUser(r)
<1>1. ASSUME NEW r \in Requests,
             \/ SessionRoutes(r) \/ VerificationRoutes(r) \/ PasswordRoutes(r)
             \/ PhoneRoutes(r) \/ AdminUpdates(r)
      PROVE  FALSE
  BY <1>1, RoutesRead DEF AccountInv
<1>2. ASSUME NEW r \in Requests, AccountCalls(r) PROVE UpdateUser(r)
  BY <1>2 DEF AccountCalls, SelectUser, EnforceSessionLimit, RevokeOldSession, InsertSession,
     RevokeSession, RevokeAllUserSessions
<1> QED BY <1>1, <1>2 DEF Next, RevokeSessionById, RevokeUserSessions, CleanExpiredSessions, Tick

-----------------------------------------------------------------------------
(* Who undoes a change of the password.                                    *)

\* The entity of a request that is not about the password has the password of the
\* row, unless the request is overtaken; once it is compared with the row, the
\* column is none of those that it writes.
HistoryInv ==
    /\ AccountInv /\ CodesIssued
    /\ \A r \in Requests \ overtaken : ~Asked(req[r].kind, req[r].copy) =>
          /\ req[r].pc \in BeforeSelect => req[r].copy.password = user.password
          /\ req[r].pc = "update" => "password" \notin req[r].dirty

LEMMA StepHistory ==
    ASSUME HistoryInv, [HistoryNext]_historyVars
    PROVE  HistoryInv'
<1>0. /\ AccountInv /\ CodesIssued /\ Typed /\ user.otp <= secrets /\ user \in User
      /\ AccountInv' /\ CodesIssued'
  BY StepTyped, StepCodes DEF HistoryInv, HistoryNext, historyVars, AccountInv, Typed, CodesIssued
<1>1. CASE UNCHANGED historyVars
  BY <1>0, <1>1 DEF HistoryInv, historyVars, vars
<1>2. CASE HistoryNext
  <2> DEFINE Ok(s) == ~Asked(req'[s].kind, req'[s].copy) =>
                /\ req'[s].pc \in BeforeSelect => req'[s].copy.password = user'.password
                /\ req'[s].pc = "update" => "password" \notin req'[s].dirty
  <2>o. \A s \in Requests \ overtaken' : req'[s].pc # "idle" =>
           /\ s \notin overtaken
           /\ req[s].pc \in BeforeSelect => user'.password = user.password
    BY <1>2 DEF HistoryNext
  <2>i. \A s \in Requests : req'[s].pc \notin BeforeSelect \cup {"update"} => Ok(s)
    OBVIOUS
  <2>k. ASSUME NEW s \in Requests \ overtaken', req'[s] = req[s] PROVE Ok(s)
    BY <2>k, <2>o DEF HistoryInv, BeforeSelect
  <2> SUFFICES ASSUME NEW r \in Requests \ overtaken' PROVE Ok(r)
    BY <1>0 DEF HistoryInv
  <2> HIDE DEF Ok
  <2>1. ASSUME NEW s \in Requests,
               \/ SessionRoutes(s) \/ VerificationRoutes(s) \/ PasswordRoutes(s)
               \/ PhoneRoutes(s) \/ AdminUpdates(s)
        PROVE  Ok(r)
    <3> PICK q : /\ req' = [req EXCEPT ![s] = q] /\ q.pc # "update"
                 /\ Loyal(q.kind, q.copy)
      BY <1>0, <2>1, RoutesLoyal
    <3>1. UNCHANGED user
      BY <1>0, <2>1, RoutesLoyal
    <3>2. req'[s] = q /\ (r # s => req'[r] = req[r])
      BY <1>0 DEF Typed, SlotsTyped
    <3>3. Ok(s)
      BY <3>1, <3>2 DEF Ok, Loyal, LoyalTo
    <3> QED BY <2>k, <3>2, <3>3
  <2>2. ASSUME NEW s \in Requests, AccountCalls(s) PROVE Ok(r)
    <3>1. r # s => req'[r] = req[r]
      BY <1>0, <2>2, CallsAlone
    <3>2. CASE r # s
      BY <2>k, <3>1, <3>2
    <3>3. CASE r = s /\ UpdateUser(s)
      BY <1>0, <2>i, <3>3, UpdateDone DEF BeforeSelect
    <3>4. CASE r = s /\ ~UpdateUser(s)
      <4>1. CASE req'[r].pc \notin Waiting
        BY <2>i, <4>1 DEF Waiting, BeforeSelect
      <4>2. CASE /\ req[r].pc \in BeforeSelect /\ req'[r].pc = "select"
                 /\ req'[r].kind = req[r].kind
                 /\ \A c \in Compared : req'[r].copy[c] = req[r].copy[c]
        <5>1. Asked(req'[r].kind, req'[r].copy) = Asked(req[r].kind, req[r].copy)
          BY <4>2 DEF Asked, Compared
        <5>2. r \notin overtaken /\ user'.password = user.password
          BY <2>o, <4>2
        <5> QED BY <4>2, <5>1, <5>2 DEF Ok, HistoryInv, Compared
      <4>3. CASE /\ req[r].pc = "select" /\ req'[r].pc = "update"
                 /\ req'[r].kind = req[r].kind /\ req'[r].copy = req[r].copy
                 /\ req'[r].dirty = {c \in Columns : req[r].copy[c] # user[c]}
                                        \cup Rehashed(req[r])
        <5>1. r \notin overtaken
          BY <2>o, <4>3
        <5>2. req[r].kind \in Kinds
          BY <1>0, <4>3, BusyTyped DEF Busy
        <5>3. ~Asked(req[r].kind, req[r].copy) =>
                 req[r].copy.password = user.password /\ "password" \notin Rehashed(req[r])
          BY <4>3, <5>1, <5>2, AskedHashes DEF HistoryInv, BeforeSelect
        <5> QED BY <4>3, <5>3 DEF Ok, BeforeSelect
      <4> QED BY <1>0, <2>2, <3>4, <4>1, <4>2, <4>3, CallsMove
    <3> QED BY <3>2, <3>3, <3>4
  <2>3. ASSUME UNCHANGED req PROVE Ok(r)
    BY <2>k, <2>3
  <2> QED BY <1>2, <2>1, <2>2, <2>3
          DEF HistoryNext, Next, RevokeSessionById, RevokeUserSessions, CleanExpiredSessions, Tick
<1> QED BY <1>1, <1>2

\* A password is changed by a request that hashed one, or put back by the save of a
\* request that had loaded the user before another change and had not reached its
\* SELECT when the change was written; whatever else is in flight, no other order of
\* the calls undoes a change.
THEOREM ChangesUndoneByOvertaken == HistorySpec => OnlyOvertakenUndo
<1>1. HistoryInv /\ [HistoryNext]_historyVars =>
        [ user'.password # user.password =>
            \E r \in Requests :
               /\ req'[r] # req[r]
               /\ "password" \in Rehashed(req[r]) \/ r \in overtaken ]_historyVars
  <2> SUFFICES ASSUME HistoryInv, HistoryNext, user'.password # user.password
               PROVE  \E r \in Requests :
                         /\ req'[r] # req[r]
                         /\ "password" \in Rehashed(req[r]) \/ r \in overtaken
    OBVIOUS
  <2> PICK r \in Requests : UpdateUser(r)
    BY RowWritten DEF HistoryInv, HistoryNext
  <2>1. /\ req[r] \in Busy /\ req[r].pc = "update" /\ req'[r].pc \in {"idle", "list"}
        /\ user' = [c \in Columns |-> IF c \in req[r].dirty THEN req[r].copy[c] ELSE user[c]]
    BY UpdateDone DEF HistoryInv
  <2>2. "password" \in req[r].dirty
    BY <2>1 DEF Columns
  <2>3. Asked(req[r].kind, req[r].copy) \/ r \in overtaken
    BY <2>1, <2>2 DEF HistoryInv
  <2>4. req[r].kind \in Kinds
    BY <2>1 DEF Busy
  <2> QED BY <2>1, <2>3, <2>4, AskedHashes
<1>2. HistoryInit => HistoryInv
  BY InitTyped, InitCodes, IdleTyped DEF HistoryInit, HistoryInv, Init, BeforeSelect
<1>3. HistoryInv /\ [HistoryNext]_historyVars => HistoryInv'
  BY StepHistory
<1> QED BY <1>1, <1>2, <1>3, PTL DEF HistorySpec, OnlyOvertakenUndo

-----------------------------------------------------------------------------
(* What a handler that nobody disturbs may change.                         *)

\* No two requests are in flight at this moment.
OneAtATime ==
    \A r, s \in Requests : req[r].pc # "idle" /\ req[s].pc # "idle" => r = s

\* The columns that the UPDATE leaves out are those in which the entity is the row.
LoyalInv ==
    /\ CodesIssued
    /\ \A r \in Requests :
          req[r].pc \in Waiting =>
              /\ Loyal(req[r].kind, req[r].copy)
              /\ req[r].pc = "update" =>
                    \A c \in Columns : req[r].copy[c] # user[c] => c \in req[r].dirty

LEMMA StepLoyal ==
    ASSUME OneAtATime, AccountInv, LoyalInv, [Next]_vars
    PROVE  LoyalInv'
<1>0. /\ Typed /\ user.otp <= secrets /\ CodesIssued'
  BY StepCodes DEF AccountInv, LoyalInv, CodesIssued
\* It is enough to look at the request that moves: when it changes the row, there is
\* no other.
<1>a. ASSUME NEW r \in Requests,
             \A s \in Requests \ {r} : req'[s] = req[s],
             user' = user \/ req[r].pc # "idle",
             req'[r].pc \in Waiting =>
                 /\ LoyalTo(user', req'[r].kind, req'[r].copy)
                 /\ req'[r].pc = "update" =>
                       \A c \in Columns : req'[r].copy[c] # user'[c] => c \in req'[r].dirty
      PROVE  LoyalInv'
  <2>1. ASSUME NEW s \in Requests \ {r}, req'[s].pc \in Waiting
        PROVE  /\ LoyalTo(user', req'[s].kind, req'[s].copy)
               /\ req'[s].pc = "update" =>
                     \A c \in Columns : req'[s].copy[c] # user'[c] => c \in req'[s].dirty
    <3>1. req'[s] = req[s] /\ req[s].pc \in Waiting /\ r # s /\ s \in Requests
      BY <1>a, <2>1
    <3>2. user' = user
      BY <1>a, <3>1 DEF OneAtATime, Waiting
    <3>3. /\ Loyal(req[s].kind, req[s].copy)
          /\ req[s].pc = "update" =>
                \A c \in Columns : req[s].copy[c] # user[c] => c \in req[s].dirty
      BY <3>1 DEF LoyalInv
    <3> QED BY <3>1, <3>2, <3>3 DEF Loyal
  <2> QED BY <1>0, <1>a, <2>1 DEF LoyalInv, Loyal
<1>1. ASSUME NEW r \in Requests,
             \/ SessionRoutes(r) \/ VerificationRoutes(r) \/ PasswordRoutes(r)
             \/ PhoneRoutes(r) \/ AdminUpdates(r)
      PROVE  LoyalInv'
  <2>1. UNCHANGED user
    BY <1>0, <1>1, RoutesLoyal
  <2>2. PICK q : /\ req' = [req EXCEPT ![r] = q] /\ q.pc # "update"
                 /\ Loyal(q.kind, q.copy)
    BY <1>0, <1>1, RoutesLoyal
  <2>3. req'[r] = q /\ (\A s \in Requests \ {r} : req'[s] = req[s])
    BY <1>0, <2>2 DEF Typed, SlotsTyped
  <2>4. LoyalTo(user', req'[r].kind, req'[r].copy)
    BY <2>1, <2>2, <2>3 DEF Loyal
  <2> QED BY <1>a, <2>1, <2>2, <2>3, <2>4
<1>2. ASSUME NEW r \in Requests, AccountCalls(r) PROVE LoyalInv'
  <2>o. \A s \in Requests \ {r} : req'[s] = req[s]
    BY <1>2, CallsAlone
  <2>1. CASE UpdateUser(r)
    <3>1. req[r].pc # "idle" /\ req'[r].pc \notin Waiting
      BY <2>1, UpdateDone DEF Waiting
    <3> QED BY <1>a, <2>o, <3>1
  <2>2. CASE ~UpdateUser(r)
    <3>1. UNCHANGED user
      BY <1>2, <2>2, CallsMove
    <3>2. \/ req'[r].pc \notin Waiting
          \/ /\ req[r].pc \in Waiting /\ req'[r].kind = req[r].kind
             /\ \A c \in Compared : req'[r].copy[c] = req[r].copy[c]
             /\ req'[r].pc = "update" =>
                   \A c \in Columns : req'[r].copy[c] # user[c] => c \in req'[r].dirty
      BY <1>2, <2>2, CallsMove DEF Waiting, BeforeSelect
    <3>3. CASE req'[r].pc \notin Waiting
      BY <1>a, <2>o, <3>1, <3>3
    <3>4. CASE req'[r].pc \in Waiting
      <4>1. Loyal(req[r].kind, req[r].copy)
        BY <3>2, <3>4 DEF LoyalInv
      <4>2. LoyalTo(user', req'[r].kind, req'[r].copy)
        BY <3>1, <3>2, <3>4, <4>1 DEF Loyal, LoyalTo, Asked, Compared
      <4> QED BY <1>a, <2>o, <3>1, <3>2, <3>4, <4>2
    <3> QED BY <3>3, <3>4
  <2> QED BY <2>1, <2>2
<1>3. ASSUME UNCHANGED <<user, req, secrets>> PROVE LoyalInv'
  BY <1>0, <1>3 DEF LoyalInv, Loyal, LoyalTo
<1> QED BY <1>1, <1>2, <1>3
        DEF Next, RevokeSessionById, RevokeUserSessions, CleanExpiredSessions, Tick, vars

LEMMA InitLoyal == Init => LoyalInv
BY InitCodes, IdleTyped DEF Init, LoyalInv, Waiting

\* When no two requests are in flight at the same time, a code or a reset token that
\* was used or replaced does not come back, and tries are given back with a new code
\* alone.
THEOREM CodesForwardAlone == Spec /\ []OneAtATime => CodesMoveForward
<1>1. AccountInv /\ LoyalInv /\ [Next]_vars =>
        [ \A r \in Requests : req'[r] # req[r] =>
          /\ user'.otp \notin {0, user.otp} =>
                req[r].kind \in {"resendOtp", "requestChange", "sendPhoneOtp"}
          /\ user'.reset \notin {0, user.reset} => req[r].kind = "forgotPassword"
          /\ user'.attempts < user.attempts => user'.otp # user.otp ]_vars
  <2> SUFFICES ASSUME AccountInv, LoyalInv, Next, NEW r \in Requests, req'[r] # req[r]
               PROVE  /\ user'.otp \notin {0, user.otp} => req[r].kind \in CodeKinds
                      /\ user'.reset \notin {0, user.reset} => req[r].kind = "forgotPassword"
                      /\ user'.attempts < user.attempts => user'.otp # user.otp
    BY DEF vars, CodeKinds
  <2>0. user.attempts \in Nat
    BY AccountConstants DEF AccountInv, Typed, User
  <2>1. CASE user' = user
    BY <2>0, <2>1
  <2>2. CASE user' # user
    <3> PICK s \in Requests : UpdateUser(s)
      BY <2>2, RowWritten
    <3>1. UpdateUser(r)
      BY CallsAlone DEF AccountCalls
    <3>2. /\ req[r].pc = "update"
          /\ user' = [c \in Columns |-> IF c \in req[r].dirty THEN req[r].copy[c] ELSE user[c]]
      BY <3>1, UpdateDone
    <3>3. /\ Loyal(req[r].kind, req[r].copy)
          /\ \A c \in Columns : req[r].copy[c] # user[c] => c \in req[r].dirty
      BY <3>2 DEF LoyalInv, Waiting
    <3>4. \A c \in {"otp", "reset", "attempts"} : user'[c] = req[r].copy[c]
      BY <3>2, <3>3 DEF Columns
    <3> QED BY <3>3, <3>4 DEF Loyal, LoyalTo
  <2> QED BY <2>1, <2>2
<1>2. Init => AccountInv /\ LoyalInv
  BY InitTyped, InitLoyal
<1>3. OneAtATime /\ AccountInv /\ LoyalInv /\ [Next]_vars => AccountInv' /\ LoyalInv'
  BY StepTyped, StepLoyal
<1> QED BY <1>1, <1>2, <1>3, PTL DEF Spec, CodesMoveForward
=============================================================================

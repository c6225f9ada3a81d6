------------------------------- MODULE Accounts -------------------------------
(***************************************************************************)
(* One account and its sessions: AuthService, ActiveSessionService, and    *)
(* what UsersService changes of the same columns.  Accounts share no row,  *)
(* so one stands for all.                                                  *)
(*                                                                         *)
(* A handler reads the user's row, changes the entity it got and saves it. *)
(* save is two database calls: a SELECT, to find the columns in which the  *)
(* entity differs from the row, and an UPDATE of those columns, so that    *)
(* what other handlers write in between, or wrote since the entity was     *)
(* read, is kept in some columns and overwritten in others.                *)
(*                                                                         *)
(* Passwords, codes and tokens that a client presents are compared in the  *)
(* step that read the row.  A code or token that has expired is refused    *)
(* like a wrong one.                                                       *)
(***************************************************************************)
EXTENDS Naturals, Sequences, FiniteSets

CONSTANTS
    Requests,       \* slots for requests in flight
    Endpoints,      \* bound: the endpoints that clients call
    Passwords,      \* the passwords that people choose
    OtpMax,         \* OTP_MAX_ATTEMPTS
    MaxSessions,    \* max_sessions_per_user
    MaxClock,       \* bound: last second of a behaviour
    MaxSecrets,     \* bound: codes and reset tokens issued
    MaxRows         \* bound: rows of active_sessions

ASSUME AccountConstants ==
    /\ OtpMax \in Nat \ {0}
    /\ MaxSessions \in Nat \ {0}
    /\ MaxClock \in Nat \ {0} /\ MaxSecrets \in Nat \ {0} /\ MaxRows \in Nat
    /\ Passwords # {}
    /\ IsFiniteSet(Requests)

VARIABLES
    user,       \* the row of `users'
    sessions,   \* the rows of `active_sessions', in the order of insertion
    req,        \* req[r] : the request in slot r
    clock,      \* seconds
    secrets     \* number of codes and reset tokens issued so far

vars == <<user, sessions, req, clock, secrets>>

\* 0 is NULL.  A refresh token is a JWT over the user's id, address and the
\* second in which it is signed, so the second identifies it.
Columns == {"password", "token", "otp", "attempts", "reset", "emailVerified",
            "phoneVerified"}

\* A slot.  copy: the entity; dirty: the columns to UPDATE; token: the refresh
\* token presented or issued; victims: the session rows to revoke.
Idle == [kind |-> "none", pc |-> "idle", copy |-> <<>>, dirty |-> {}, token |-> 0,
         victims |-> {}]

\* As register leaves the row: a code has been sent to the address.
NewAccount(p) ==
    [password |-> p, token |-> 0, otp |-> 1, attempts |-> 0, reset |-> 0,
     emailVerified |-> FALSE, phoneVerified |-> FALSE]

Init ==
    /\ \E p \in Passwords : user = NewAccount(p)
    /\ sessions = <<>>
    /\ req = [r \in Requests |-> Idle]
    /\ clock = 1
    /\ secrets = 1

-----------------------------------------------------------------------------
\* The handler `kind' has read the row, which becomes `copy'; its next call is pc.
Start(r, kind, pc, copy) ==
    /\ kind \in Endpoints
    /\ req[r].pc = "idle"
    /\ req' = [req EXCEPT ![r] = [Idle EXCEPT !.kind = kind, !.pc = pc, !.copy = copy]]

\* The endpoints behind JwtAuthGuard need an access token, which comes with a
\* session and may outlive it.
Authenticated == sessions # <<>>

Edit(r, kind, copy) ==
    /\ Start(r, kind, "select", copy)
    /\ UNCHANGED <<user, sessions, clock, secrets>>

\* The same, with a new code or reset token.
Issue(r, kind, copy) ==
    /\ secrets < MaxSecrets
    /\ secrets' = secrets + 1
    /\ Start(r, kind, "select", copy)
    /\ UNCHANGED <<user, sessions, clock>>

\* Mutant: an account without a refresh token accepts any.
Matches_Always(token, hash) == TRUE

\* The check that there is a hash and the comparison with it.  bcrypt reads 72
\* bytes, all of them in the part that two refresh tokens of one user have in
\* common: refresh takes any of the account's tokens for the one whose hash the
\* row holds, as long as there is one.
Matches(token, hash) == hash # 0

SignedOut(row) == [row EXCEPT !.token = 0]

\* Mutant: the tries are reset and the code is sent again.
NewCode_SameCode(row) == [row EXCEPT !.attempts = 0]

NewCode(row) == [row EXCEPT !.otp = secrets + 1, !.attempts = 0]

CodeUsed(row) == [row EXCEPT !.otp = 0, !.attempts = 0]

RoomForSession ==
    Len(sessions) + Cardinality({r \in Requests : req[r].kind \in {"login", "refresh"}})
        < MaxRows

-----------------------------------------------------------------------------
(* Signing in and out.                                                     *)

\* login with the right password, past the checks of LoginGuard; a wrong one
\* leaves the account alone.
Login(r) ==
    /\ user.emailVerified
    /\ RoomForSession
    /\ Start(r, "login", "select", [user EXCEPT !.token = clock])
    /\ UNCHANGED <<user, sessions, clock, secrets>>

\* refresh with a token that a client was given.
Refresh(r) ==
    /\ RoomForSession
    /\ \E i \in DOMAIN sessions :
          /\ Matches(sessions[i].token, user.token)
          /\ "refresh" \in Endpoints
          /\ req[r].pc = "idle"
          /\ req' = [req EXCEPT ![r] = [Idle EXCEPT !.kind = "refresh", !.pc = "revoke",
                                          !.copy = user, !.token = sessions[i].token]]
    /\ UNCHANGED <<user, sessions, clock, secrets>>

\* logout, with or without a refresh token in the body.
Logout(r) ==
    \/ /\ Authenticated
       /\ Edit(r, "logout", SignedOut(user))
    \/ /\ \E i \in DOMAIN sessions :
             /\ "logout" \in Endpoints
             /\ req[r].pc = "idle"
             /\ req' = [req EXCEPT ![r] = [Idle EXCEPT !.kind = "logout", !.pc = "revoke",
                                    !.copy = SignedOut(user), !.token = sessions[i].token]]
       /\ UNCHANGED <<user, sessions, clock, secrets>>

LogoutAll(r) ==
    /\ Authenticated
    /\ Start(r, "logoutAll", "revokeAll", SignedOut(user))
    /\ UNCHANGED <<user, sessions, clock, secrets>>

Revoked(rows) ==
    [i \in DOMAIN sessions |->
        IF i \in rows THEN [sessions[i] EXCEPT !.active = FALSE] ELSE sessions[i]]

\* ActiveSessionService.revokeSession; refresh signs its new token after it.
RevokeSession(r) ==
    LET q == req[r]
    IN  /\ q.pc = "revoke"
        /\ sessions' = Revoked({i \in DOMAIN sessions : sessions[i].token = q.token})
        /\ req' = [req EXCEPT ![r] =
              IF q.kind = "refresh"
              THEN [q EXCEPT !.pc = "select", !.copy.token = clock]
              ELSE [q EXCEPT !.pc = "select"]]
        /\ UNCHANGED <<user, clock, secrets>>

RevokeAllUserSessions(r) ==
    /\ req[r].pc = "revokeAll"
    /\ sessions' = Revoked(DOMAIN sessions)
    /\ req' = [req EXCEPT ![r].pc = "select"]
    /\ UNCHANGED <<user, clock, secrets>>

\* revokeSessionById: a read and a save, of a column that every writer of the
\* table sets to the same value.
RevokeSessionById(i) ==
    /\ "revokeById" \in Endpoints
    /\ sessions' = Revoked({i})
    /\ UNCHANGED <<user, req, clock, secrets>>

\* An administrator: all sessions, and not the refresh token.
RevokeUserSessions ==
    /\ "revokeById" \in Endpoints
    /\ sessions' = Revoked(DOMAIN sessions)
    /\ UNCHANGED <<user, req, clock, secrets>>

\* cleanExpiredSessions: the days of the sessions opened up to some second
\* are over.
CleanExpiredSessions(before) ==
    /\ "clean" \in Endpoints
    /\ sessions' = Revoked({i \in DOMAIN sessions : sessions[i].token < before})
    /\ UNCHANGED <<user, req, clock, secrets>>

(* Codes sent by mail and SMS.                                             *)

ResendOtp(r) == ~user.emailVerified /\ Issue(r, "resendOtp", NewCode(user))

RequestChangePassword(r) ==
    Authenticated /\ Issue(r, "requestChange", NewCode(user))

\* A number that the account has not verified before leaves it unverified.
SendPhoneOtp(r) ==
    \E other \in BOOLEAN :
        /\ Authenticated
        /\ user.phoneVerified => other
        /\ Issue(r, "sendPhoneOtp",
                 IF other THEN [NewCode(user) EXCEPT !.phoneVerified = FALSE]
                 ELSE NewCode(user))

\* Mutant: nobody looks at the number of tries.
TakeCode_Unlimited(r, kind, done) ==
    /\ user.otp # 0
    /\ \/ Edit(r, kind, CodeUsed(done))
       \/ Edit(r, kind, [user EXCEPT !.attempts = @ + 1])

\* What the three handlers that take a code do with the right one and with
\* another.
TakeCode(r, kind, done) ==
    /\ user.otp # 0 /\ user.attempts < OtpMax
    /\ \/ Edit(r, kind, CodeUsed(done))
       \/ Edit(r, kind, [user EXCEPT !.attempts = @ + 1])

VerifyEmail(r) ==
    /\ ~user.emailVerified
    /\ TakeCode(r, "verifyEmail", [user EXCEPT !.emailVerified = TRUE])

VerifyPhone(r) ==
    /\ Authenticated
    /\ ~user.phoneVerified
    /\ TakeCode(r, "verifyPhone", [user EXCEPT !.phoneVerified = TRUE])

ConfirmChangePassword(r) ==
    \E p \in Passwords :
        Authenticated /\ TakeCode(r, "confirmChange", SignedOut([user EXCEPT !.password = p]))

ChangePassword(r) ==
    \E p \in Passwords :
        Authenticated /\ Edit(r, "changePassword", SignedOut([user EXCEPT !.password = p]))

ForgotPassword(r) == Issue(r, "forgotPassword", [user EXCEPT !.reset = secrets + 1])

ResetPassword(r) ==
    \E p \in Passwords :
        /\ user.reset # 0
        /\ Edit(r, "resetPassword",
                SignedOut([user EXCEPT !.password = p, !.reset = 0]))

\* updateProfile with another phone number.
ChangePhone(r) ==
    Authenticated /\ Edit(r, "updateProfile", [user EXCEPT !.phoneVerified = FALSE])

\* updateUserAdmin: what it may change here, and nobody is signed out by it.
AdminUpdates(r) ==
    \E email, phone \in BOOLEAN :
        LET row == [user EXCEPT !.emailVerified = email, !.phoneVerified = phone]
        IN  \/ Edit(r, "updateUser", row)
            \/ \E p \in Passwords : Edit(r, "setPassword", [row EXCEPT !.password = p])

-----------------------------------------------------------------------------
(* save, and what login and refresh do after it: createSession.            *)

AfterSave(q) == IF q.kind \in {"login", "refresh"} THEN "list" ELSE "idle"

Advance(r, q) == req' = [req EXCEPT ![r] = IF q.pc = "idle" THEN Idle ELSE q]

\* A hash has a salt of its own: the column that a handler has hashed a value
\* for differs from the row even if the value is the same.
Rehashed(q) ==
    CASE q.kind \in {"login", "refresh"} -> {"token"}
      [] q.kind \in {"changePassword", "resetPassword", "setPassword"} -> {"password"}
      [] q.kind = "confirmChange" /\ q.copy.otp = 0 -> {"password"}
      [] OTHER -> {}

SelectUser(r) ==
    LET q == req[r]
        dirty == {c \in Columns : q.copy[c] # user[c]} \cup Rehashed(q)
    IN  /\ q.pc = "select"
        /\ Advance(r, IF dirty = {} THEN [q EXCEPT !.pc = AfterSave(q)]
                      ELSE [q EXCEPT !.pc = "update", !.dirty = dirty])
        /\ UNCHANGED <<user, sessions, clock, secrets>>

\* Mutant: update in place of save, which writes every column of the entity.
UpdateUser_AllColumns(r) ==
    LET q == req[r]
    IN  /\ q.pc = "update"
        /\ user' = q.copy
        /\ Advance(r, [q EXCEPT !.pc = AfterSave(q), !.dirty = {}])
        /\ UNCHANGED <<sessions, clock, secrets>>

UpdateUser(r) ==
    LET q == req[r]
    IN  /\ q.pc = "update"
        /\ user' = [c \in Columns |-> IF c \in q.dirty THEN q.copy[c] ELSE user[c]]
        /\ Advance(r, [q EXCEPT !.pc = AfterSave(q), !.dirty = {}])
        /\ UNCHANGED <<sessions, clock, secrets>>

Active == {i \in DOMAIN sessions : sessions[i].active}

\* Mutant: the session about to be opened is not counted.
EnforceSessionLimit_OffByOne(r) ==
    LET n == Cardinality(Active)
    IN  /\ req[r].pc = "list"
        /\ IF n > MaxSessions
           THEN \E oldest \in SUBSET Active :
                    /\ Cardinality(oldest) = n - MaxSessions
                    /\ req' = [req EXCEPT ![r].pc = "limit", ![r].victims = oldest]
           ELSE req' = [req EXCEPT ![r].pc = "insert"]
        /\ UNCHANGED <<user, sessions, clock, secrets>>

\* enforceSessionLimit: the oldest sessions by lastActivityAt, which is not
\* modelled, are to be revoked so that one place is free...
EnforceSessionLimit(r) ==
    LET n == Cardinality(Active)
    IN  /\ req[r].pc = "list"
        /\ IF n >= MaxSessions
           THEN \E oldest \in SUBSET Active :
                    /\ Cardinality(oldest) = n - MaxSessions + 1
                    /\ req' = [req EXCEPT ![r].pc = "limit", ![r].victims = oldest]
           ELSE req' = [req EXCEPT ![r].pc = "insert"]
        /\ UNCHANGED <<user, sessions, clock, secrets>>

\* ...one save after the other.
RevokeOldSession(r) ==
    \E i \in req[r].victims :
        LET rest == req[r].victims \ {i}
        IN  /\ req[r].pc = "limit"
            /\ sessions' = Revoked({i})
            /\ req' = [req EXCEPT ![r].victims = rest,
                                  ![r].pc = IF rest = {} THEN "insert" ELSE "limit"]
            /\ UNCHANGED <<user, clock, secrets>>

InsertSession(r) ==
    /\ req[r].pc = "insert"
    /\ sessions' = Append(sessions, [token |-> req[r].copy.token, active |-> TRUE])
    /\ req' = [req EXCEPT ![r] = Idle]
    /\ UNCHANGED <<user, clock, secrets>>

Tick ==
    /\ clock < MaxClock
    /\ clock' = clock + 1
    /\ UNCHANGED <<user, sessions, req, secrets>>

\* The routes of AuthController and UsersController, and of the administrators.
SessionRoutes(r) ==
    Login(r) \/ Refresh(r) \/ Logout(r) \/ LogoutAll(r)

VerificationRoutes(r) ==
    VerifyEmail(r) \/ ResendOtp(r)

PasswordRoutes(r) ==
    \/ ForgotPassword(r) \/ ResetPassword(r)
    \/ ChangePassword(r) \/ RequestChangePassword(r) \/ ConfirmChangePassword(r)

PhoneRoutes(r) ==
    SendPhoneOtp(r) \/ VerifyPhone(r) \/ ChangePhone(r)

AccountCalls(r) ==
    \/ SelectUser(r) \/ UpdateUser(r)
    \/ EnforceSessionLimit(r) \/ RevokeOldSession(r) \/ InsertSession(r)
    \/ RevokeSession(r) \/ RevokeAllUserSessions(r)

Next ==
    \/ \E r \in Requests :
          \/ SessionRoutes(r) \/ VerificationRoutes(r) \/ PasswordRoutes(r) \/ PhoneRoutes(r)
          \/ AdminUpdates(r)
          \/ AccountCalls(r)
    \/ \E i \in DOMAIN sessions : RevokeSessionById(i)
    \/ RevokeUserSessions
    \/ \E before \in 1..clock : CleanExpiredSessions(before)
    \/ Tick

Spec == Init /\ [][Next]_vars

-----------------------------------------------------------------------------
(* Properties.                                                             *)

User == [password: Passwords, token: 0..MaxClock, otp: 0..MaxSecrets,
         attempts: 0..OtpMax, reset: 0..MaxSecrets, emailVerified: BOOLEAN,
         phoneVerified: BOOLEAN]

\* The types; the counter of wrong codes never passes OTP_MAX_ATTEMPTS, in the
\* row or in an entity that waits to be saved.
TypeOK ==
    /\ user \in User
    /\ clock \in 1..MaxClock /\ secrets \in 1..MaxSecrets
    /\ Len(sessions) <= MaxRows
    /\ \A i \in DOMAIN sessions : sessions[i] \in [token: 1..clock, active: BOOLEAN]
    /\ \A r \in Requests : req[r] # Idle =>
          /\ req[r].copy \in User
          /\ req[r].dirty \subseteq Columns /\ req[r].victims \subseteq DOMAIN sessions

\* The limit on sessions holds up to the requests that race: each of the others
\* in flight may have counted before this one inserts.
SessionBound ==
    Cardinality(Active) <= MaxSessions + Cardinality(Requests) - 1

\* No refresh token is valid and no handler in flight read the row when one was.
NoTokenAnywhere ==
    user.token = 0 /\ \A r \in Requests : req[r] # Idle => req[r].copy.token = 0

\* Once an account is signed out everywhere, whether by logout, logoutAll or a
\* change of password, only a login gets it a refresh token: no refresh, and no
\* save of another handler, brings the old one back.
OnlyLoginSignsIn ==
    [][ NoTokenAnywhere =>
          /\ user'.token = 0
          /\ \A r \in Requests :
                req'[r] # Idle /\ req'[r].copy.token # 0 => req'[r].kind = "login" ]_vars

\* A password is changed by the handlers that are asked to change it, once each:
\* no other handler puts the one it read back.
PasswordChangesStick ==
    [][ user'.password # user.password =>
          \E r \in Requests :
             /\ req[r].kind \in {"changePassword", "confirmChange", "resetPassword", "setPassword"}
             /\ req[r] # req'[r] ]_vars

\* A code or a reset token that was used or replaced is not accepted again, and
\* the tries spent on a code are not given back: only a request for a new one
\* puts another in its place, and the count starts over only with it.
CodesMoveForward ==
    [][ \A r \in Requests : req'[r] # req[r] =>
          /\ user'.otp \notin {0, user.otp} =>
                req[r].kind \in {"resendOtp", "requestChange", "sendPhoneOtp"}
          /\ user'.reset \notin {0, user.reset} => req[r].kind = "forgotPassword"
          /\ user'.attempts < user.attempts => user'.otp # user.otp ]_vars
=============================================================================

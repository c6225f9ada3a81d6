------------------------------ MODULE LoginGuard ------------------------------
(***************************************************************************)
(* What stands before a login: LoginAttemptService (rate limit, automatic  *)
(* block) and BlockedIpService (the table `blocked_ips' and the cache that *)
(* each process keeps of it).  Rows of different addresses never meet, so  *)
(* the module follows one IP address.                                      *)
(*                                                                         *)
(* A step is a database call or the code that runs when one answers; the   *)
(* two are told apart where the code touches the cache, which a handler    *)
(* shares with the others of its process.  The save of a block is one      *)
(* step, see the README.                                                   *)
(***************************************************************************)
EXTENDS Naturals, Sequences, FiniteSets, FiniteSetsExt

CONSTANTS
    Requests,       \* slots for requests in flight
    Rate,           \* rate_limit_login
    RateWindow,     \* the minute in which attempts are counted
    Threshold,      \* auto_block_after_failed_logins
    FailWindow,     \* the minutes in which failures are counted
    BlockFor,       \* block_duration_minutes
    Ttl,            \* CACHE_TTL_MS
    Patience,       \* assumption: a request is in flight no longer than this
    Permanent,      \* what an administrator asks for who asks for a permanent block
    Terms,          \* bound: what administrators ask for, Permanent or minutes
    MaxNow,         \* bound: last minute of a behaviour
    MaxAttempts     \* bound: rows of login_attempts

ASSUME GuardConstants ==
    /\ {Rate, RateWindow, Threshold, FailWindow, BlockFor, Ttl, Patience, MaxNow,
        MaxAttempts} \subseteq Nat
    /\ Rate > 0
    /\ Terms \ {Permanent} \subseteq Nat \ {0}
    /\ IsFiniteSet(Requests)

VARIABLES
    row,        \* the row of the address in blocked_ips
    cached,     \* the address is in blockedIpsCache
    updated,    \* lastCacheUpdate: 0, or one more than the minute of it
    attempts,   \* attempts[t] : login attempts recorded in minute t
    req,        \* req[r] : the request in slot r
    now,        \* minutes
    since       \* history: when the row last became active or got a new expiry

vars == <<row, cached, updated, attempts, req, now, since>>

Minutes == 0..MaxNow

NoBlock == [exists |-> FALSE, active |-> FALSE, permanent |-> FALSE, expires |-> 0]

\* copy: the row as it was read, with the handler's changes; began: when the
\* request came in.
Idle == [kind |-> "none", pc |-> "idle", copy |-> NoBlock, began |-> 0]

\* Passwords found right and wrong, attempts refused (failureReason says which).
NoAttempts == [right |-> 0, wrong |-> 0, refused |-> 0]

Init ==
    /\ row = NoBlock /\ cached = FALSE /\ updated = 0
    /\ attempts = [t \in Minutes |-> NoAttempts]
    /\ now = 0 /\ since = 0
    /\ \E r \in Requests :
          req = [s \in Requests |->
                    IF s = r THEN [Idle EXCEPT !.kind = "boot", !.pc = "find"] ELSE Idle]

-----------------------------------------------------------------------------
Expired(block) == ~block.permanent /\ now > block.expires

Live == row.active /\ ~Expired(row)

At(r, pc) == req[r].pc = pc
Goto(r, pc) == req' = [req EXCEPT ![r].pc = pc, ![r].copy = NoBlock]
GotoWith(r, pc, copy) == req' = [req EXCEPT ![r].pc = pc, ![r].copy = copy]
Finish(r) == req' = [req EXCEPT ![r] = Idle]

Arrive(r, kind, pc) ==
    /\ At(r, "idle")
    /\ req' = [req EXCEPT ![r] = [Idle EXCEPT !.kind = kind, !.pc = pc, !.began = now]]

\* A write to the row.
Write(block) ==
    /\ row' = block
    /\ since' = IF ~block.active THEN 0 ELSE IF block # row THEN now ELSE since

InLast(window) == {t \in Minutes : t <= now /\ now <= t + window}

Checked(t) == attempts[t].right + attempts[t].wrong
Failed(t) == attempts[t].wrong + attempts[t].refused
Recorded(t) == Checked(t) + attempts[t].refused

RecentAttempts == MapThenSumSet(Recorded, InLast(RateWindow))
RecentFailures == MapThenSumSet(Failed, InLast(FailWindow))

-----------------------------------------------------------------------------
(* isBlocked and refreshCache.                                             *)

\* Mutant: the cache, once filled, is never read again.
Stale_Never == updated = 0

Stale == updated = 0 \/ now > (updated - 1) + Ttl

\* Where isBlocked goes on once the cache is fresh enough.
Consult(hit) == IF hit THEN "lookup" ELSE "count"

\* canAttemptLogin calls isBlocked.
Attempt(r) ==
    /\ MapThenSumSet(Recorded, Minutes)
          + Cardinality({s \in Requests : req[s].kind = "login"}) < MaxAttempts
    /\ Arrive(r, "login", IF Stale THEN "find" ELSE Consult(cached))
    /\ UNCHANGED <<row, cached, updated, attempts, now, since>>

\* refreshCache reads the active blocks...
ReadBlocks(r) ==
    /\ At(r, "find")
    /\ GotoWith(r, "fill", IF row.active THEN row ELSE NoBlock)
    /\ UNCHANGED <<row, cached, updated, attempts, now, since>>

\* ...and fills the cache with those that have not expired.
FillCache(r) ==
    LET block == req[r].copy
        hit == block.active /\ (block.permanent \/ block.expires > now)
    IN  /\ At(r, "fill")
        /\ cached' = hit
        /\ updated' = now + 1
        /\ IF req[r].kind = "login" THEN Goto(r, Consult(hit)) ELSE Finish(r)
        /\ UNCHANGED <<row, attempts, now, since>>

\* A cached address is looked up: a live block counts the attempt, an expired
\* one is switched off.
LookUpBlock(r) ==
    /\ At(r, "lookup")
    /\ IF ~row.active
       THEN Goto(r, "count")
       ELSE IF Expired(row)
            THEN GotoWith(r, "lapse", [row EXCEPT !.active = FALSE])
            ELSE GotoWith(r, "touch", row)
    /\ UNCHANGED <<row, cached, updated, attempts, now, since>>

\* The saves of isBlocked and of unblockIp: the row becomes what the handler
\* read, with its change.
SaveBlock(r) ==
    /\ \/ At(r, "touch") /\ Goto(r, "refused")
       \/ At(r, "lapse") /\ Goto(r, "drop")
    /\ Write(req[r].copy)
    /\ UNCHANGED <<cached, updated, attempts, now>>

DropFromCache(r) ==
    /\ At(r, "drop")
    /\ cached' = FALSE
    /\ IF req[r].kind = "login" THEN Goto(r, "count") ELSE Finish(r)
    /\ UNCHANGED <<row, updated, attempts, now, since>>

-----------------------------------------------------------------------------
(* canAttemptLogin, the login itself, recordSuccess and recordFailure.     *)

\* Mutant: one attempt more than the limit.
CountAttempts_OffByOne(r) ==
    /\ At(r, "count")
    /\ IF RecentAttempts > Rate
       THEN Goto(r, "refused")
       ELSE \E outcome \in {"right", "wrong"} : Goto(r, outcome)
    /\ UNCHANGED <<row, cached, updated, attempts, now, since>>

\* An attempt that the rate limit refuses is recorded as a failure, like one
\* from a blocked address; the others go on to have their password checked.
CountAttempts(r) ==
    /\ At(r, "count")
    /\ IF RecentAttempts >= Rate
       THEN Goto(r, "refused")
       ELSE \E outcome \in {"right", "wrong"} : Goto(r, outcome)
    /\ UNCHANGED <<row, cached, updated, attempts, now, since>>

RecordSuccess(r) ==
    /\ At(r, "right")
    /\ attempts' = [attempts EXCEPT ![now].right = @ + 1]
    /\ Finish(r)
    /\ UNCHANGED <<row, cached, updated, now, since>>

RecordFailure(r) ==
    /\ \/ At(r, "wrong") /\ attempts' = [attempts EXCEPT ![now].wrong = @ + 1]
       \/ At(r, "refused") /\ attempts' = [attempts EXCEPT ![now].refused = @ + 1]
    /\ Goto(r, "failures")
    /\ UNCHANGED <<row, cached, updated, now, since>>

CountFailures(r) ==
    /\ At(r, "failures")
    /\ IF RecentFailures >= Threshold THEN Goto(r, "auto") ELSE Finish(r)
    /\ UNCHANGED <<row, cached, updated, attempts, now, since>>

-----------------------------------------------------------------------------
(* blockIp, autoBlockIp, unblockIp and cleanExpiredBlocks.                 *)

\* A block on the terms asked for: Permanent, or a number of minutes from now.
NewBlock(term) ==
    [exists |-> TRUE, active |-> TRUE, permanent |-> term = Permanent,
     expires |-> IF term = Permanent THEN 0 ELSE now + term]

\* The block of autoBlockIp, which is never permanent.
SystemBlock ==
    [exists |-> TRUE, active |-> TRUE, permanent |-> FALSE, expires |-> now + BlockFor]

\* Mutant: the extension is added to the time that is left.
AutoBlock_Accumulates(r) ==
    /\ At(r, "auto")
    /\ IF Live
       THEN GotoWith(r, "extend", [row EXCEPT !.expires = @ + BlockFor])
       ELSE GotoWith(r, "insert", SystemBlock)
    /\ UNCHANGED <<row, cached, updated, attempts, now, since>>

\* autoBlockIp extends a live block; anything else it takes for no block.
AutoBlock(r) ==
    /\ At(r, "auto")
    /\ IF Live
       THEN GotoWith(r, "extend", [row EXCEPT !.expires = now + BlockFor])
       ELSE GotoWith(r, "insert", SystemBlock)
    /\ UNCHANGED <<row, cached, updated, attempts, now, since>>

\* blockIp, by an administrator, replaces the terms of a live block.
BlockIp(r, term) ==
    /\ At(r, "idle")
    /\ req' = [req EXCEPT ![r] =
          [kind |-> "block", pc |-> IF Live THEN "update" ELSE "insert",
           copy |-> NewBlock(term), began |-> now]]
    /\ UNCHANGED <<row, cached, updated, attempts, now, since>>

\* The extension is saved without a word to the cache.
ExtendBlock(r) ==
    /\ At(r, "extend")
    /\ Write(req[r].copy)
    /\ Finish(r)
    /\ UNCHANGED <<cached, updated, attempts, now>>

UpdateBlock(r) ==
    /\ At(r, "update")
    /\ Write(req[r].copy)
    /\ Goto(r, "add")
    /\ UNCHANGED <<cached, updated, attempts, now>>

\* The address is unique in the table, so a row that is there, active or not,
\* fails the insertion and with it the request.
InsertBlock(r) ==
    /\ At(r, "insert")
    /\ IF row.exists
       THEN Finish(r) /\ UNCHANGED <<row, since>>
       ELSE Write(req[r].copy) /\ Goto(r, "add")
    /\ UNCHANGED <<cached, updated, attempts, now>>

AddToCache(r) ==
    /\ At(r, "add")
    /\ cached' = TRUE
    /\ Finish(r)
    /\ UNCHANGED <<row, updated, attempts, now, since>>

UnblockIp(r) ==
    /\ At(r, "idle")
    /\ row.exists
    /\ req' = [req EXCEPT ![r] =
          [kind |-> "unblock", pc |-> "lapse", copy |-> [row EXCEPT !.active = FALSE],
           began |-> now]]
    /\ UNCHANGED <<row, cached, updated, attempts, now, since>>

CleanExpiredBlocks(r) ==
    /\ row.active /\ Expired(row)
    /\ Arrive(r, "clean", "find")
    /\ Write([row EXCEPT !.active = FALSE])
    /\ UNCHANGED <<cached, updated, attempts, now>>

-----------------------------------------------------------------------------
\* The process is started again: its cache and its requests are gone, and the
\* constructor reads the blocks in the background.
Restart(r) ==
    /\ cached' = FALSE
    /\ updated' = 0
    /\ req' = [s \in Requests |->
                  IF s = r THEN [Idle EXCEPT !.kind = "boot", !.pc = "find", !.began = now]
                  ELSE Idle]
    /\ UNCHANGED <<row, attempts, now, since>>

Tick ==
    /\ now < MaxNow
    /\ \A r \in Requests : At(r, "idle") \/ now < req[r].began + Patience
    /\ now' = now + 1
    /\ UNCHANGED <<row, cached, updated, attempts, req, since>>

\* The routes of SecurityAdminController.
AdminBlocks(r) ==
    \/ \E term \in Terms : BlockIp(r, term)
    \/ UnblockIp(r) \/ CleanExpiredBlocks(r)

Next ==
    \/ \E r \in Requests :
          \/ Attempt(r) \/ ReadBlocks(r) \/ FillCache(r) \/ LookUpBlock(r)
          \/ SaveBlock(r) \/ DropFromCache(r)
          \/ CountAttempts(r) \/ RecordSuccess(r) \/ RecordFailure(r) \/ CountFailures(r)
          \/ AutoBlock(r) \/ ExtendBlock(r) \/ UpdateBlock(r) \/ InsertBlock(r)
          \/ AddToCache(r) \/ AdminBlocks(r) \/ Restart(r)
    \/ Tick

Spec == Init /\ [][Next]_vars

-----------------------------------------------------------------------------
(* Properties.                                                             *)

Block == [exists: BOOLEAN, active: BOOLEAN, permanent: BOOLEAN, expires: Nat]

\* The block ends no later than if it had been made now, on the terms of the
\* system or on some that an administrator asks for.
WithinTerms(block) ==
    \E term \in (Terms \ {Permanent}) \cup {BlockFor} : block.expires <= now + term

\* The types: in particular no block, saved or about to be saved, outlasts the
\* longest term that anybody asks for, counted from now: extensions do not add up.
TypeOK ==
    /\ row \in Block /\ cached \in BOOLEAN /\ updated \in 0..(now + 1)
    /\ now \in Minutes /\ since \in 0..now
    /\ \A t \in Minutes : attempts[t] \in [right: Nat, wrong: Nat, refused: Nat]
    /\ \A r \in Requests : req[r].copy \in Block /\ req[r].began \in 0..now
    /\ WithinTerms(row) /\ \A r \in Requests : WithinTerms(req[r].copy)

\* The passwords of one address that are checked within RateWindow, those whose
\* attempt is still to be recorded included, exceed the rate limit by no more
\* than the requests that raced: one for each other request in flight.  (A
\* restart forgets the attempts that it interrupts before they are recorded.)
ChecksBounded ==
    MapThenSumSet(Checked, InLast(RateWindow))
      + Cardinality({r \in Requests : req[r].pc \in {"right", "wrong"}})
        <= Rate + Cardinality(Requests) - 1

\* A block before its last instant, in which isBlocked still takes it for live
\* and refreshCache, which asks for a later expiry, does not.
InForce == row.active /\ (row.permanent \/ now < row.expires)

\* A block that is in force for longer than the cache may be stale stops a login,
\* even when a refresh that had read the table before it overwrote the cache.
BlockBites ==
    [][ \A r \in Requests :
          /\ InForce
          /\ req[r].pc \in {"idle", "fill"} /\ req'[r].pc = "count"
          => now <= since + Ttl + Patience ]_vars

\* What autoBlockIp says of itself, and what its test is called after: an address
\* that is blocked already has its block extended, so that the block does not end
\* earlier than it would have done without the new failures.
ExtensionsExtend ==
    [][ \A r \in Requests :
          At(r, "auto") /\ req'[r].pc = "extend" =>
              req'[r].copy.permanent \/ req'[r].copy.expires >= row.expires ]_vars

\* A block that is asked for is in force once its row has been written.
BlockTakesEffect ==
    [][ \A r \in Requests :
          At(r, "insert") /\ req'[r].pc \in {"idle", "add"} => row'.active ]_vars
=============================================================================

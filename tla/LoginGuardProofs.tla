-------------------------- MODULE LoginGuardProofs ---------------------------
(***************************************************************************)
(* No block outlasts the longest term that anybody asks for; a block that  *)
(* is in force stops logins once the cache has had the time to hear of it; *)
(* and the limit of logins per address holds but for the logins that are   *)
(* under way: for every number of requests in flight, all the limits and   *)
(* times of the configuration and all the terms that administrators ask    *)
(* for.                                                                    *)
(*                                                                         *)
(* BlockBites is not inductive: a login slips past a block because of what *)
(* the cache says, and that was put there by a refresh that read the table *)
(* some time before, or by a handler that had switched the row off before  *)
(* somebody else switched it on. CacheInv says that such a handler came in *)
(* before the block did, so that the cache is wrong only for as long as a  *)
(* request lasts, and is believed only for Ttl from then on.               *)
(*                                                                         *)
(* ChecksBounded bounds the logins that were checked in a window by the    *)
(* limit and the number of slots. While those under way go on, one moves   *)
(* from the slots to the recorded attempts; when a new one is let in, the  *)
(* attempts recorded in its window are fewer than the limit. What is added *)
(* up over a window is a recursive function of the community modules; that *)
(* it exists, and what its values are, follows from a counterexample that  *)
(* is least by inclusion.                                                  *)
(***************************************************************************)
EXTENDS LoginGuard, FiniteSetTheorems, WellFoundedInduction, TLAPS

Kinds == {"none", "boot", "login", "block", "unblock", "clean"}

Pcs == {"idle", "find", "fill", "lookup", "lapse", "touch", "drop", "count", "right", "wrong",
        "refused", "failures", "auto", "extend", "insert", "update", "add"}

Slot == [kind: Kinds, pc: Pcs, copy: Block, began: Nat]

Counts == [right: Nat, wrong: Nat, refused: Nat]

Typed ==
    /\ row \in Block /\ cached \in BOOLEAN /\ updated \in 0..(now + 1)
    /\ now \in Minutes /\ since \in 0..now
    /\ attempts \in [Minutes -> Counts]
    /\ req \in [Requests -> Slot]
    /\ \A r \in Requests : req[r].began <= now

LEMMA Numbers ==
    /\ Rate \in Nat /\ RateWindow \in Nat /\ Threshold \in Nat /\ FailWindow \in Nat
    /\ BlockFor \in Nat /\ Ttl \in Nat /\ Patience \in Nat /\ MaxNow \in Nat
BY GuardConstants

\* Nothing is saved, or about to be, that ends later than its terms allow.
AllWithinTerms == WithinTerms(row) /\ \A r \in Requests : WithinTerms(req[r].copy)

LEMMA TypedTypes == Typed /\ AllWithinTerms => TypeOK
BY DEF Typed, TypeOK, AllWithinTerms, Slot, Counts

LEMMA FirstRows == NoBlock \in Block /\ Idle \in Slot /\ Idle.began = 0 /\ Idle.pc = "idle"
BY Numbers DEF NoBlock, Block, Idle, Slot, Kinds, Pcs

-----------------------------------------------------------------------------
(* How a slot moves.                                                       *)

\* r moves to q and the others stay where they are.
MovesTo(r, q) ==
    /\ req' = [req EXCEPT ![r] = q]
    /\ req'[r] = q
    /\ \A s \in Requests : s # r => req'[s] = req[s]

LEMMA SlotMoves ==
    ASSUME Typed, NEW r \in Requests, NEW q \in Slot, q.began <= now,
           req' = [req EXCEPT ![r] = q]
    PROVE  /\ req' \in [Requests -> Slot]
           /\ \A s \in Requests : req'[s].began <= now
           /\ MovesTo(r, q)
BY DEF Typed, MovesTo

LEMMA GotoMoves ==
    ASSUME Typed, NEW r \in Requests, NEW pc \in Pcs, NEW copy \in Block,
           GotoWith(r, pc, copy)
    PROVE  /\ req' \in [Requests -> Slot]
           /\ \A s \in Requests : req'[s].began <= now
           /\ \A s \in Requests : s # r => req'[s] = req[s]
           /\ req'[r].pc = pc /\ req'[r].copy = copy
           /\ req'[r].kind = req[r].kind /\ req'[r].began = req[r].began
<1> DEFINE q == [req[r] EXCEPT !.pc = pc, !.copy = copy]
<1>1. req[r] \in Slot /\ req[r].began <= now
  BY DEF Typed
<1>2. /\ q \in Slot /\ q.pc = pc /\ q.copy = copy /\ q.kind = req[r].kind
      /\ q.began = req[r].began
  BY <1>1 DEF Slot
<1>3. req' = [req EXCEPT ![r] = q]
  BY DEF GotoWith, Typed
<1> HIDE DEF q
<1> QED BY <1>1, <1>2, <1>3, SlotMoves DEF MovesTo

LEMMA GotoPlain ==
    ASSUME NEW r, NEW pc, Goto(r, pc)
    PROVE  GotoWith(r, pc, NoBlock)
BY DEF Goto, GotoWith

LEMMA FinishMoves ==
    ASSUME Typed, NEW r \in Requests, Finish(r)
    PROVE  /\ req' \in [Requests -> Slot]
           /\ \A s \in Requests : req'[s].began <= now
           /\ \A s \in Requests : s # r => req'[s] = req[s]
           /\ req'[r] = Idle
<1>1. Idle \in Slot /\ Idle.began <= now
  BY Numbers, FirstRows DEF Typed, Minutes
<1>2. req' = [req EXCEPT ![r] = Idle]
  BY DEF Finish
<1> QED BY <1>1, <1>2, SlotMoves DEF MovesTo

LEMMA ArriveMoves ==
    ASSUME Typed, NEW r \in Requests, NEW kind \in Kinds, NEW pc \in Pcs, Arrive(r, kind, pc)
    PROVE  /\ req' \in [Requests -> Slot]
           /\ \A s \in Requests : req'[s].began <= now
           /\ \A s \in Requests : s # r => req'[s] = req[s]
           /\ req[r].pc = "idle"
           /\ req'[r].pc = pc /\ req'[r].began = now
<1> DEFINE q == [Idle EXCEPT !.kind = kind, !.pc = pc, !.began = now]
<1>1. now \in Nat
  BY Numbers DEF Typed, Minutes
<1>2. q \in Slot /\ q.pc = pc /\ q.began = now
  BY <1>1, FirstRows DEF Idle, Slot
<1>3. req' = [req EXCEPT ![r] = q] /\ req[r].pc = "idle"
  BY DEF Arrive, At
<1> HIDE DEF q
<1>4. q.began <= now
  BY <1>1, <1>2
<1> QED BY <1>2, <1>3, <1>4, SlotMoves DEF MovesTo

\* A write makes the block of this minute unless it changes nothing.
LEMMA RowWrites ==
    ASSUME Typed, NEW block \in Block, Write(block)
    PROVE  /\ row' \in Block /\ row' = block /\ since' \in 0..now
           /\ \/ ~row'.active
              \/ since' = now
              \/ row' = row /\ since' = since
BY Numbers DEF Typed, Write, Block, Minutes

LEMMA NewBlocks ==
    ASSUME Typed
    PROVE  SystemBlock \in Block /\ \A term \in Terms : NewBlock(term) \in Block
<1>1. now \in Nat /\ BlockFor \in Nat /\ \A term \in Terms : term # Permanent => term \in Nat
  BY Numbers, GuardConstants DEF Typed, Minutes
<1> QED BY <1>1 DEF NewBlock, SystemBlock, Block
-----------------------------------------------------------------------------
(* The types and the age of the cache.                                     *)

\* What a request may be wrong about.  It is in flight no longer than Patience;
\* about to fill the cache it holds the row, and about to drop the address from
\* the cache it has seen the row switched off, unless a later block came in between.
SlotFine(q, block, from, t) ==
    /\ q.pc # "idle" => t <= q.began + Patience
    /\ q.pc = "lapse" => ~q.copy.active
    /\ q.pc = "fill" => ~block.active \/ q.copy = block \/ q.began <= from
    /\ q.pc = "drop" => ~block.active \/ q.began <= from

\* A cache that misses a block in force was filled before the block had been there
\* for as long as a request lasts.
CacheTells(hit, filled, block, from, t) ==
    ~hit /\ block.active /\ (block.permanent \/ t < block.expires) /\ filled # 0
        => filled <= from + Patience + 1

CacheInv ==
    /\ Typed
    /\ \A r \in Requests : SlotFine(req[r], row, since, now)
    /\ CacheTells(cached, updated, row, since, now)

LEMMA InitCache == Init => CacheInv
<1> SUFFICES ASSUME Init PROVE CacheInv
  OBVIOUS
<1>1. PICK r \in Requests :
        req = [s \in Requests |->
                  IF s = r THEN [Idle EXCEPT !.kind = "boot", !.pc = "find"] ELSE Idle]
  BY DEF Init
<1>2. /\ [Idle EXCEPT !.kind = "boot", !.pc = "find"] \in Slot
      /\ [Idle EXCEPT !.kind = "boot", !.pc = "find"].began = 0
      /\ [Idle EXCEPT !.kind = "boot", !.pc = "find"].pc = "find"
  BY FirstRows DEF Slot, Kinds, Pcs, Idle
<1>3. \A s \in Requests : req[s] \in Slot /\ req[s].began = 0 /\ req[s].pc \in {"idle", "find"}
  BY <1>1, <1>2, FirstRows
<1>4. req \in [Requests -> Slot]
  BY <1>1, <1>3
<1>5. Typed
  <2>1. attempts \in [Minutes -> Counts]
    BY DEF Init, Counts, NoAttempts
  <2>2. now = 0 /\ since = 0 /\ updated = 0 /\ cached = FALSE /\ row \in Block /\ now \in Minutes
    BY Numbers, FirstRows DEF Init, Minutes
  <2>3. updated \in 0..(now + 1) /\ since \in 0..now
    <3>1. now = 0 /\ since = 0 /\ updated = 0
      BY <2>2
    <3> QED BY <3>1
  <2>c. cached \in BOOLEAN
    BY <2>2
  <2>4. \A s \in Requests : req[s].began <= now
    BY <1>3, <2>2
  <2> QED BY <1>4, <2>1, <2>2, <2>c, <2>3, <2>4 DEF Typed
<1>6. \A s \in Requests : SlotFine(req[s], row, since, now)
  BY <1>3, Numbers DEF Init, SlotFine
<1> QED BY <1>5, <1>6 DEF Init, CacheInv, CacheTells

\* The others do not mind what a handler does to the row.
LEMMA OthersFine ==
    ASSUME Typed, NEW q, q.began \in Nat, q.began <= now, SlotFine(q, row, since, now),
           now' = now,
           ~row'.active \/ since' = now \/ (row' = row /\ since' = since)
    PROVE  SlotFine(q, row', since', now')
BY DEF SlotFine

\* A step that leaves the clock, and what it has to show.
LEMMA CacheStep ==
    ASSUME CacheInv, NEW r \in Requests, now' = now,
           row' \in Block, cached' \in BOOLEAN, updated' \in 0..(now + 1), since' \in 0..now,
           attempts' \in [Minutes -> Counts],
           req' \in [Requests -> Slot], \A s \in Requests : req'[s].began <= now,
           \A s \in Requests : s # r => req'[s] = req[s],
           ~row'.active \/ since' = now \/ (row' = row /\ since' = since),
           SlotFine(req'[r], row', since', now),
           CacheTells(cached', updated', row', since', now)
    PROVE  CacheInv'
<1>1. Typed /\ Typed'
  BY DEF CacheInv, Typed
<1>2. ASSUME NEW s \in Requests PROVE SlotFine(req'[s], row', since', now')
  <2>1. CASE s = r
    BY <2>1
  <2>2. CASE s # r
    <3>1. /\ req'[s] = req[s] /\ SlotFine(req[s], row, since, now)
          /\ req[s].began \in Nat /\ req[s].began <= now
      BY <2>2, <1>1 DEF CacheInv, Typed, Slot
    <3> QED BY <1>1, <3>1, OthersFine
  <2> QED BY <2>1, <2>2
<1> QED BY <1>1, <1>2 DEF CacheInv

LEMMA StepCache == CacheInv /\ [Next]_vars => CacheInv'
<1> SUFFICES ASSUME CacheInv, [Next]_vars PROVE CacheInv'
  OBVIOUS
<1>0. /\ Typed /\ now \in Nat /\ row \in Block /\ cached \in BOOLEAN /\ updated \in 0..(now + 1)
      /\ since \in 0..now /\ attempts \in [Minutes -> Counts] /\ req \in [Requests -> Slot]
      /\ CacheTells(cached, updated, row, since, now)
      /\ Patience \in Nat /\ Ttl \in Nat /\ NoBlock \in Block
      /\ \A r \in Requests : /\ SlotFine(req[r], row, since, now)
                              /\ req[r].began \in 0..now /\ req[r].copy \in Block
  BY Numbers, FirstRows DEF CacheInv, Typed, Minutes, Slot
\* A request goes on and the cache is left alone.
<1>a. ASSUME NEW r \in Requests, UNCHANGED <<row, cached, updated, now, since>>,
             attempts' \in [Minutes -> Counts],
             req' \in [Requests -> Slot], \A s \in Requests : req'[s].began <= now,
             \A s \in Requests : s # r => req'[s] = req[s],
             SlotFine(req'[r], row, since, now)
      PROVE  CacheInv'
  BY <1>0, <1>a, CacheStep
<1>g. ASSUME NEW r \in Requests, UNCHANGED <<row, cached, updated, now, since>>,
             attempts' \in [Minutes -> Counts],
             NEW pc \in Pcs, NEW copy \in Block, GotoWith(r, pc, copy), req[r].pc # "idle",
             pc = "lapse" => ~copy.active,
             pc = "fill" => ~row.active \/ copy = row,
             pc # "drop"
      PROVE  CacheInv'
  <2>1. /\ req' \in [Requests -> Slot]
        /\ \A s \in Requests : req'[s].began <= now
        /\ \A s \in Requests : s # r => req'[s] = req[s]
        /\ req'[r].pc = pc /\ req'[r].copy = copy /\ req'[r].began = req[r].began
    BY <1>0, <1>g, GotoMoves
  <2>2. SlotFine(req'[r], row, since, now)
    BY <1>0, <1>g, <2>1 DEF SlotFine
  <2> QED BY <1>a, <1>g, <2>1, <2>2
<1>h. ASSUME NEW r \in Requests, UNCHANGED <<row, cached, updated, now, since>>,
             attempts' \in [Minutes -> Counts],
             NEW pc \in Pcs \ {"lapse", "fill", "drop"}, Goto(r, pc), req[r].pc # "idle"
      PROVE  CacheInv'
  BY <1>0, <1>g, <1>h, GotoPlain
<1>i. ASSUME NEW r \in Requests, Finish(r)
      PROVE  /\ req' \in [Requests -> Slot]
             /\ \A s \in Requests : req'[s].began <= now
             /\ \A s \in Requests : s # r => req'[s] = req[s]
             /\ \A block, from : SlotFine(req'[r], block, from, now)
  BY <1>0, <1>i, FinishMoves, FirstRows DEF SlotFine
<1>f. ASSUME NEW r \in Requests, UNCHANGED <<row, cached, updated, now, since>>,
             attempts' \in [Minutes -> Counts], Finish(r)
      PROVE  CacheInv'
  BY <1>a, <1>f, <1>i
\* A request comes in.
<1>n. ASSUME NEW r \in Requests, NEW q \in Slot, req' = [req EXCEPT ![r] = q], q.began = now,
             q.pc \notin {"fill", "drop"}, q.pc = "lapse" => ~q.copy.active
      PROVE  /\ req' \in [Requests -> Slot]
             /\ \A s \in Requests : req'[s].began <= now
             /\ \A s \in Requests : s # r => req'[s] = req[s]
             /\ \A block, from : SlotFine(req'[r], block, from, now)
  <2>1. q.began <= now
    BY <1>0, <1>n
  <2>2. /\ req' \in [Requests -> Slot]
        /\ \A s \in Requests : req'[s].began <= now
        /\ MovesTo(r, q)
    BY <1>0, <1>n, <2>1, SlotMoves
  <2> QED BY <1>0, <1>n, <2>2 DEF MovesTo, SlotFine
\* A handler writes the row.
<1>w. ASSUME NEW r \in Requests, NEW block \in Block, Write(block),
             UNCHANGED <<cached, updated, attempts, now>>,
             req' \in [Requests -> Slot], \A s \in Requests : req'[s].began <= now,
             \A s \in Requests : s # r => req'[s] = req[s],
             SlotFine(req'[r], row', since', now)
      PROVE  CacheInv'
  <2>1. /\ row' \in Block /\ since' \in 0..now
        /\ ~row'.active \/ since' = now \/ (row' = row /\ since' = since)
    BY <1>0, <1>w, RowWrites
  <2>2. CacheTells(cached', updated', row', since', now)
    BY <1>0, <1>w, <2>1 DEF CacheTells
  <2> QED BY <1>0, <1>w, <2>1, <2>2, CacheStep
\* isBlocked and refreshCache.
<1>1. ASSUME NEW r \in Requests, Attempt(r) PROVE CacheInv'
  <2> DEFINE pc == IF Stale THEN "find" ELSE Consult(cached)
             q == [Idle EXCEPT !.kind = "login", !.pc = pc, !.began = now]
  <2>1. pc \in {"find", "lookup", "count"}
    BY DEF Consult
  <2>2. Arrive(r, "login", pc)
    BY <1>1 DEF Attempt
  <2> HIDE DEF pc
  <2>3. q \in Slot /\ q.pc = pc /\ q.began = now
    BY <1>0, <2>1, FirstRows DEF Idle, Slot, Kinds, Pcs
  <2>4. req' = [req EXCEPT ![r] = q]
    BY <2>2 DEF Arrive
  <2> HIDE DEF q
  <2>5. /\ req' \in [Requests -> Slot]
        /\ \A s \in Requests : req'[s].began <= now
        /\ \A s \in Requests : s # r => req'[s] = req[s]
        /\ SlotFine(req'[r], row, since, now)
    BY <1>n, <2>1, <2>3, <2>4
  <2>6. UNCHANGED <<row, cached, updated, attempts, now, since>>
    BY <1>1 DEF Attempt
  <2> QED BY <1>0, <1>a, <2>5, <2>6
<1>2. ASSUME NEW r \in Requests, ReadBlocks(r) PROVE CacheInv'
  <2> DEFINE copy == IF row.active THEN row ELSE NoBlock
  <2>1. copy \in Block /\ (~row.active \/ copy = row)
    BY <1>0
  <2>2. GotoWith(r, "fill", copy) /\ req[r].pc # "idle"
        /\ UNCHANGED <<row, cached, updated, attempts, now, since>>
    BY <1>2 DEF ReadBlocks, At
  <2> HIDE DEF copy
  <2> QED BY <1>0, <1>g, <2>1, <2>2 DEF Pcs
<1>3. ASSUME NEW r \in Requests, FillCache(r) PROVE CacheInv'
  <2> DEFINE block == req[r].copy
             hit == block.active /\ (block.permanent \/ block.expires > now)
  <2>1. /\ req[r].pc = "fill" /\ cached' = hit /\ updated' = now + 1
        /\ UNCHANGED <<row, attempts, now, since>>
        /\ Finish(r) \/ Goto(r, "lookup") \/ Goto(r, "count")
    BY <1>3 DEF FillCache, At, Consult
  <2>2. CacheTells(hit, updated', row, since, now)
    BY <1>0, <2>1 DEF CacheTells, SlotFine, Block
  <2>3. cached' \in BOOLEAN
    BY <2>1
  <2> HIDE DEF hit, block
  <2>4. updated' \in 0..(now + 1)
    BY <1>0, <2>1
  <2>5. /\ req' \in [Requests -> Slot]
        /\ \A s \in Requests : req'[s].began <= now
        /\ \A s \in Requests : s # r => req'[s] = req[s]
        /\ SlotFine(req'[r], row, since, now)
    <3>1. CASE Finish(r)
      BY <1>i, <3>1
    <3>2. ASSUME NEW pc \in {"lookup", "count"}, Goto(r, pc)
          PROVE  /\ req' \in [Requests -> Slot]
                 /\ \A s \in Requests : req'[s].began <= now
                 /\ \A s \in Requests : s # r => req'[s] = req[s]
                 /\ SlotFine(req'[r], row, since, now)
      <4>1. GotoWith(r, pc, NoBlock) /\ pc \in Pcs
        BY <3>2, GotoPlain DEF Pcs
      <4>2. /\ req' \in [Requests -> Slot]
            /\ \A s \in Requests : req'[s].began <= now
            /\ \A s \in Requests : s # r => req'[s] = req[s]
            /\ req'[r].pc = pc /\ req'[r].began = req[r].began
        BY <1>0, <4>1, GotoMoves
      <4> QED BY <1>0, <2>1, <3>2, <4>2 DEF SlotFine
    <3> QED BY <2>1, <3>1, <3>2
  <2> QED BY <1>0, <2>1, <2>2, <2>3, <2>4, <2>5, CacheStep
<1>4. ASSUME NEW r \in Requests, LookUpBlock(r) PROVE CacheInv'
  <2>1. req[r].pc # "idle" /\ UNCHANGED <<row, cached, updated, attempts, now, since>>
    BY <1>4 DEF LookUpBlock, At
  <2>2. /\ [row EXCEPT !.active = FALSE] \in Block
        /\ [row EXCEPT !.active = FALSE].active = FALSE
    BY <1>0 DEF Block
  <2>3. \/ Goto(r, "count") \/ GotoWith(r, "lapse", [row EXCEPT !.active = FALSE])
        \/ GotoWith(r, "touch", row)
    BY <1>4 DEF LookUpBlock
  <2>4. CASE Goto(r, "count")
    BY <1>0, <1>h, <2>1, <2>4 DEF Pcs
  <2>5. CASE GotoWith(r, "lapse", [row EXCEPT !.active = FALSE])
    <3> DEFINE off == [row EXCEPT !.active = FALSE]
    <3>1. off \in Block /\ ~off.active /\ GotoWith(r, "lapse", off)
      BY <2>2, <2>5
    <3> HIDE DEF off
    <3> QED BY <1>0, <1>g, <2>1, <3>1 DEF Pcs
  <2>6. CASE GotoWith(r, "touch", row)
    BY <1>0, <1>g, <2>1, <2>6 DEF Pcs
  <2> QED BY <2>3, <2>4, <2>5, <2>6
<1>5. ASSUME NEW r \in Requests, SaveBlock(r) PROVE CacheInv'
  <2> PICK pc \in {"refused", "drop"} :
        /\ pc = "drop" => req[r].pc = "lapse"
        /\ Goto(r, pc) /\ req[r].pc # "idle"
    BY <1>5 DEF SaveBlock, At
  <2>1. Write(req[r].copy) /\ UNCHANGED <<cached, updated, attempts, now>>
    BY <1>5 DEF SaveBlock
  <2>2. GotoWith(r, pc, NoBlock) /\ pc \in Pcs
    BY GotoPlain DEF Pcs
  <2>3. /\ req' \in [Requests -> Slot]
        /\ \A s \in Requests : req'[s].began <= now
        /\ \A s \in Requests : s # r => req'[s] = req[s]
        /\ req'[r].pc = pc /\ req'[r].began = req[r].began
    BY <1>0, <2>2, GotoMoves
  <2>4. row' = req[r].copy
    BY <1>0, <2>1, RowWrites
  <2>5. SlotFine(req'[r], row', since', now)
    BY <1>0, <2>3, <2>4 DEF SlotFine
  <2> QED BY <1>0, <1>w, <2>1, <2>3, <2>5
<1>6. ASSUME NEW r \in Requests, DropFromCache(r) PROVE CacheInv'
  <2>1. /\ req[r].pc = "drop" /\ cached' = FALSE
        /\ UNCHANGED <<row, updated, attempts, now, since>>
        /\ Goto(r, "count") \/ Finish(r)
    BY <1>6 DEF DropFromCache, At
  <2>2. CacheTells(cached', updated', row', since', now)
    BY <1>0, <2>1 DEF CacheTells, SlotFine
  <2>3. /\ req' \in [Requests -> Slot]
        /\ \A s \in Requests : req'[s].began <= now
        /\ \A s \in Requests : s # r => req'[s] = req[s]
        /\ SlotFine(req'[r], row, since, now)
    <3>1. CASE Finish(r)
      BY <1>i, <3>1
    <3>2. CASE Goto(r, "count")
      <4>1. GotoWith(r, "count", NoBlock) /\ "count" \in Pcs
        BY <3>2, GotoPlain DEF Pcs
      <4>2. /\ req' \in [Requests -> Slot]
            /\ \A s \in Requests : req'[s].began <= now
            /\ \A s \in Requests : s # r => req'[s] = req[s]
            /\ req'[r].pc = "count" /\ req'[r].began = req[r].began
        BY <1>0, <4>1, GotoMoves
      <4> QED BY <1>0, <2>1, <4>2 DEF SlotFine
    <3> QED BY <2>1, <3>1, <3>2
  <2> QED BY <1>0, <2>1, <2>2, <2>3, CacheStep
\* The attempts.
<1>7. ASSUME NEW r \in Requests, CountAttempts(r) PROVE CacheInv'
  <2>1. req[r].pc # "idle" /\ UNCHANGED <<row, cached, updated, attempts, now, since>>
    BY <1>7 DEF CountAttempts, At
  <2>2. PICK pc \in {"refused", "right", "wrong"} : Goto(r, pc)
    BY <1>7 DEF CountAttempts
  <2> QED BY <1>0, <1>h, <2>1, <2>2 DEF Pcs
<1>8. ASSUME NEW r \in Requests, RecordSuccess(r) PROVE CacheInv'
  <2>1. attempts' \in [Minutes -> Counts]
    BY <1>0, <1>8 DEF RecordSuccess, Typed, Counts
  <2> QED BY <1>8, <1>f, <2>1 DEF RecordSuccess
<1>9. ASSUME NEW r \in Requests, RecordFailure(r) PROVE CacheInv'
  <2>1. attempts' \in [Minutes -> Counts]
    BY <1>0, <1>9 DEF RecordFailure, Typed, Counts
  <2>2. req[r].pc # "idle" /\ Goto(r, "failures")
        /\ UNCHANGED <<row, cached, updated, now, since>>
    BY <1>9 DEF RecordFailure, At
  <2> QED BY <1>h, <2>1, <2>2 DEF Pcs
<1>10. ASSUME NEW r \in Requests, CountFailures(r) PROVE CacheInv'
  <2>1. req[r].pc # "idle" /\ UNCHANGED <<row, cached, updated, attempts, now, since>>
    BY <1>10 DEF CountFailures, At
  <2>2. CASE Goto(r, "auto")
    BY <1>0, <1>h, <2>1, <2>2 DEF Pcs
  <2>3. CASE Finish(r)
    BY <1>0, <1>f, <2>1, <2>3
  <2> QED BY <1>10, <2>2, <2>3 DEF CountFailures
\* The blocks.
<1>11. ASSUME NEW r \in Requests, AutoBlock(r) PROVE CacheInv'
  <2>1. req[r].pc # "idle" /\ UNCHANGED <<row, cached, updated, attempts, now, since>>
    BY <1>11 DEF AutoBlock, At
  <2>a. now + BlockFor \in Nat
    BY <1>0, Numbers
  <2>b. SystemBlock \in Block
    BY <1>0, NewBlocks
  <2>2. [row EXCEPT !.expires = now + BlockFor] \in Block /\ SystemBlock \in Block
    BY <1>0, <2>a, <2>b DEF Block
  <2>3. \/ GotoWith(r, "extend", [row EXCEPT !.expires = now + BlockFor])
        \/ GotoWith(r, "insert", SystemBlock)
    BY <1>11 DEF AutoBlock
  <2>4. PICK pc \in {"extend", "insert"}, copy \in Block : GotoWith(r, pc, copy)
    BY <2>2, <2>3
  <2> QED BY <1>0, <1>g, <2>1, <2>4 DEF Pcs
<1>12. ASSUME NEW r \in Requests, NEW term \in Terms, BlockIp(r, term) PROVE CacheInv'
  <2> DEFINE q == [kind |-> "block", pc |-> IF Live THEN "update" ELSE "insert",
                   copy |-> NewBlock(term), began |-> now]
  <2>1. NewBlock(term) \in Block
    BY <1>0, NewBlocks
  <2>2. q \in Slot /\ q.began = now /\ q.pc \in {"update", "insert"}
    BY <1>0, <2>1 DEF Slot, Kinds, Pcs
  <2>3. req' = [req EXCEPT ![r] = q] /\ UNCHANGED <<row, cached, updated, attempts, now, since>>
    BY <1>12 DEF BlockIp
  <2> HIDE DEF q
  <2>4. /\ req' \in [Requests -> Slot]
        /\ \A s \in Requests : req'[s].began <= now
        /\ \A s \in Requests : s # r => req'[s] = req[s]
        /\ SlotFine(req'[r], row, since, now)
    BY <1>n, <2>2, <2>3
  <2> QED BY <1>0, <1>a, <2>3, <2>4
<1>13. ASSUME NEW r \in Requests, ExtendBlock(r) PROVE CacheInv'
  BY <1>0, <1>13, <1>i, <1>w DEF ExtendBlock
<1>14. ASSUME NEW r \in Requests, Goto(r, "add"), req[r].pc # "idle"
       PROVE  /\ req' \in [Requests -> Slot]
              /\ \A s \in Requests : req'[s].began <= now
              /\ \A s \in Requests : s # r => req'[s] = req[s]
              /\ \A block, from : SlotFine(req'[r], block, from, now)
  <2>1. GotoWith(r, "add", NoBlock) /\ "add" \in Pcs
    BY <1>14, GotoPlain DEF Pcs
  <2>2. /\ req' \in [Requests -> Slot]
        /\ \A s \in Requests : req'[s].began <= now
        /\ \A s \in Requests : s # r => req'[s] = req[s]
        /\ req'[r].pc = "add" /\ req'[r].began = req[r].began
    BY <1>0, <2>1, GotoMoves
  <2> QED BY <1>0, <1>14, <2>2 DEF SlotFine
<1>15. ASSUME NEW r \in Requests, UpdateBlock(r) PROVE CacheInv'
  <2>1. Goto(r, "add") /\ req[r].pc # "idle" /\ Write(req[r].copy)
        /\ UNCHANGED <<cached, updated, attempts, now>>
    BY <1>15 DEF UpdateBlock, At
  <2> QED BY <1>0, <1>14, <1>w, <2>1
<1>16. ASSUME NEW r \in Requests, InsertBlock(r) PROVE CacheInv'
  <2>1. UNCHANGED <<cached, updated, attempts, now>> /\ req[r].pc # "idle"
    BY <1>16 DEF InsertBlock, At
  <2>2. CASE Finish(r) /\ UNCHANGED <<row, since>>
    BY <1>0, <1>f, <2>1, <2>2
  <2>3. CASE Write(req[r].copy) /\ Goto(r, "add")
    BY <1>0, <1>14, <1>w, <2>1, <2>3
  <2> QED BY <1>16, <2>2, <2>3 DEF InsertBlock
<1>17. ASSUME NEW r \in Requests, AddToCache(r) PROVE CacheInv'
  <2>1. /\ cached' = TRUE /\ UNCHANGED <<row, updated, attempts, now, since>> /\ Finish(r)
    BY <1>17 DEF AddToCache
  <2>2. CacheTells(cached', updated', row', since', now)
    BY <2>1 DEF CacheTells
  <2> QED BY <1>0, <1>i, <2>1, <2>2, CacheStep
<1>18. ASSUME NEW r \in Requests, UnblockIp(r) PROVE CacheInv'
  <2> DEFINE copy == [row EXCEPT !.active = FALSE]
             q == [kind |-> "unblock", pc |-> "lapse", copy |-> copy, began |-> now]
  <2>1. copy \in Block /\ ~copy.active
    BY <1>0 DEF Block
  <2>2. req' = [req EXCEPT ![r] = q] /\ UNCHANGED <<row, cached, updated, attempts, now, since>>
    BY <1>18 DEF UnblockIp
  <2> HIDE DEF copy
  <2>3. q \in Slot /\ q.began = now /\ q.pc = "lapse" /\ q.copy = copy
    BY <1>0, <2>1 DEF Slot, Kinds, Pcs
  <2> HIDE DEF q
  <2>4. /\ req' \in [Requests -> Slot]
        /\ \A s \in Requests : req'[s].began <= now
        /\ \A s \in Requests : s # r => req'[s] = req[s]
        /\ SlotFine(req'[r], row, since, now)
    BY <1>n, <2>1, <2>2, <2>3
  <2> QED BY <1>0, <1>a, <2>2, <2>4
<1>19. ASSUME NEW r \in Requests, CleanExpiredBlocks(r) PROVE CacheInv'
  <2> DEFINE off == [row EXCEPT !.active = FALSE]
             q == [Idle EXCEPT !.kind = "clean", !.pc = "find", !.began = now]
  <2>1. off \in Block
    BY <1>0 DEF Block
  <2>2. q \in Slot /\ q.pc = "find" /\ q.began = now
    BY <1>0, FirstRows DEF Idle, Slot, Kinds, Pcs
  <2>3. req' = [req EXCEPT ![r] = q] /\ Write(off) /\ UNCHANGED <<cached, updated, attempts, now>>
    BY <1>19 DEF CleanExpiredBlocks, Arrive
  <2> HIDE DEF q, off
  <2>4. /\ req' \in [Requests -> Slot]
        /\ \A s \in Requests : req'[s].began <= now
        /\ \A s \in Requests : s # r => req'[s] = req[s]
        /\ SlotFine(req'[r], row', since', now)
    BY <1>n, <2>2, <2>3
  <2> QED BY <1>w, <2>1, <2>3, <2>4
<1>20. ASSUME NEW r \in Requests, Restart(r) PROVE CacheInv'
  <2> DEFINE q == [Idle EXCEPT !.kind = "boot", !.pc = "find", !.began = now]
  <2>1. q \in Slot /\ q.pc = "find" /\ q.began = now
    BY <1>0, FirstRows DEF Idle, Slot, Kinds, Pcs
  <2>2. /\ cached' = FALSE /\ updated' = 0 /\ UNCHANGED <<row, attempts, now, since>>
        /\ req' = [s \in Requests |-> IF s = r THEN q ELSE Idle]
    BY <1>20 DEF Restart
  <2> HIDE DEF q
  <2>3. /\ req' \in [Requests -> Slot]
        /\ \A s \in Requests : req'[s] \in {q, Idle}
    BY <2>1, <2>2, FirstRows
  <2>4. \A s \in Requests : req'[s].began <= now /\ SlotFine(req'[s], row, since, now)
    BY <1>0, <2>1, <2>3, FirstRows DEF SlotFine
  <2>5. updated' \in 0..(now' + 1)
    BY <1>0, <2>2
  <2>6. Typed'
    BY <1>0, <2>2, <2>3, <2>4, <2>5 DEF Typed
  <2> QED BY <2>2, <2>4, <2>6 DEF CacheInv, CacheTells
<1>21. ASSUME Tick PROVE CacheInv'
  <2>1. /\ now' = now + 1 /\ now' \in Minutes /\ now' \in Nat
        /\ UNCHANGED <<row, cached, updated, attempts, req, since>>
    BY <1>0, <1>21, Numbers DEF Tick, Typed, Minutes
  <2>2. Typed'
    BY <1>0, <2>1 DEF Typed
  <2>3. \A r \in Requests : SlotFine(req[r], row, since, now + 1)
    BY <1>0, <1>21 DEF Tick, At, SlotFine
  <2>4. CacheTells(cached, updated, row, since, now + 1)
    BY <1>0 DEF CacheTells, Block
  <2> QED BY <2>1, <2>2, <2>3, <2>4 DEF CacheInv
<1>22. ASSUME UNCHANGED vars PROVE CacheInv'
  BY <1>22 DEF vars, CacheInv, Typed
<1> QED BY <1>1, <1>2, <1>3, <1>4, <1>5, <1>6, <1>7, <1>8, <1>9, <1>10, <1>11, <1>12, <1>13,
           <1>15, <1>16, <1>17, <1>18, <1>19, <1>20, <1>21, <1>22 DEF Next, AdminBlocks

\* The two steps that let a login past the guard, and what they know.
LEMMA GuardPassed ==
    ASSUME Typed, Next, NEW r \in Requests,
           req[r].pc \in {"idle", "fill"}, req'[r].pc = "count"
    PROVE  \/ ~Stale /\ ~cached
           \/ /\ req[r].pc = "fill"
              /\ ~(/\ req[r].copy.active
                   /\ req[r].copy.permanent \/ req[r].copy.expires > now)
<1>0. req \in [Requests -> Slot] /\ Idle.pc = "idle"
  BY FirstRows DEF Typed
<1>q. \A q \in Slot : \A pc, copy : /\ [q EXCEPT !.pc = pc, !.copy = copy].pc = pc
                                      /\ [q EXCEPT !.pc = pc].pc = pc
  BY DEF Slot
<1>i. \A kind, pc, t : /\ [Idle EXCEPT !.kind = kind, !.pc = pc, !.began = t].pc = pc
                       /\ [Idle EXCEPT !.kind = kind, !.pc = pc].pc = pc
  BY DEF Idle
\* It is r that moves.
<1>a. ASSUME NEW s \in Requests, NEW q, req' = [req EXCEPT ![s] = q]
      PROVE  s = r /\ q.pc = "count"
  BY <1>0, <1>a
<1>1. ASSUME NEW s \in Requests, NEW pc, NEW copy, GotoWith(s, pc, copy)
      PROVE  s = r /\ pc = "count"
  <2>1. req' = [req EXCEPT ![s] = [req[s] EXCEPT !.pc = pc, !.copy = copy]]
    BY <1>0, <1>1 DEF GotoWith
  <2> QED BY <1>0, <1>a, <1>q, <2>1
<1>2. ASSUME NEW s \in Requests, Finish(s) PROVE FALSE
  BY <1>0, <1>2, <1>a DEF Finish
<1>3. ASSUME NEW s \in Requests, NEW pc, Goto(s, pc) PROVE s = r /\ pc = "count"
  BY <1>1, <1>3, GotoPlain
<1>4. ASSUME NEW s \in Requests, Attempt(s) PROVE ~Stale /\ ~cached
  <2> DEFINE pc == IF Stale THEN "find" ELSE Consult(cached)
  <2>1. req' = [req EXCEPT ![s] = [Idle EXCEPT !.kind = "login", !.pc = pc, !.began = now]]
    BY <1>4 DEF Attempt, Arrive
  <2>2. pc = "count"
    BY <1>a, <1>i, <2>1
  <2> QED BY <2>2 DEF Consult
<1>5. ASSUME NEW s \in Requests, FillCache(s)
      PROVE  /\ req[r].pc = "fill"
             /\ ~(/\ req[r].copy.active
                  /\ req[r].copy.permanent \/ req[r].copy.expires > now)
  <2> DEFINE block == req[s].copy
             hit == block.active /\ (block.permanent \/ block.expires > now)
  <2>1. req[s].pc = "fill" /\ Goto(s, Consult(hit))
    BY <1>2, <1>5 DEF FillCache, At
  <2>2. s = r /\ Consult(hit) = "count"
    BY <1>3, <2>1
  <2>3. ~hit
    BY <2>2 DEF Consult
  <2> QED BY <2>1, <2>2, <2>3
<1>6. ASSUME NEW s \in Requests,
             \/ LookUpBlock(s) \/ SaveBlock(s) \/ DropFromCache(s) \/ CountAttempts(s)
             \/ RecordSuccess(s) \/ RecordFailure(s) \/ CountFailures(s) \/ AutoBlock(s)
             \/ ExtendBlock(s) \/ UpdateBlock(s) \/ InsertBlock(s) \/ AddToCache(s)
      PROVE  FALSE
  <2>1. req[s].pc \notin {"idle", "fill"}
    BY <1>6 DEF LookUpBlock, SaveBlock, DropFromCache, CountAttempts, RecordSuccess,
       RecordFailure, CountFailures, AutoBlock, ExtendBlock, UpdateBlock, InsertBlock,
       AddToCache, At
  <2>2. \/ Finish(s) \/ \E pc, copy : GotoWith(s, pc, copy) \/ Goto(s, pc)
    BY <1>6 DEF LookUpBlock, SaveBlock, DropFromCache, CountAttempts, RecordSuccess,
       RecordFailure, CountFailures, AutoBlock, ExtendBlock, UpdateBlock, InsertBlock,
       AddToCache
  <2> QED BY <1>1, <1>2, <1>3, <2>1, <2>2
<1>7. ASSUME NEW s \in Requests, ReadBlocks(s) PROVE FALSE
  BY <1>1, <1>7 DEF ReadBlocks
<1>8. ASSUME NEW s \in Requests, AdminBlocks(s) PROVE FALSE
  <2>1. ASSUME NEW term \in Terms, BlockIp(s, term) PROVE FALSE
    <3> DEFINE q == [kind |-> "block", pc |-> IF Live THEN "update" ELSE "insert",
                     copy |-> NewBlock(term), began |-> now]
    <3>1. q.pc # "count" /\ req' = [req EXCEPT ![s] = q]
      BY <2>1 DEF BlockIp
    <3> HIDE DEF q
    <3> QED BY <1>a, <3>1
  <2>2. CASE UnblockIp(s)
    <3> DEFINE q == [kind |-> "unblock", pc |-> "lapse", copy |-> [row EXCEPT !.active = FALSE],
                     began |-> now]
    <3>1. q.pc # "count" /\ req' = [req EXCEPT ![s] = q]
      BY <2>2 DEF UnblockIp
    <3> HIDE DEF q
    <3> QED BY <1>a, <3>1
  <2>3. CASE CleanExpiredBlocks(s)
    <3>1. req' = [req EXCEPT ![s] = [Idle EXCEPT !.kind = "clean", !.pc = "find", !.began = now]]
      BY <2>3 DEF CleanExpiredBlocks, Arrive
    <3> QED BY <1>a, <1>i, <3>1
  <2> QED BY <1>8, <2>1, <2>2, <2>3 DEF AdminBlocks
<1>9. ASSUME NEW s \in Requests, Restart(s) PROVE FALSE
  <2> DEFINE q == [Idle EXCEPT !.kind = "boot", !.pc = "find", !.began = now]
  <2>1. q.pc = "find" /\ req' = [t \in Requests |-> IF t = s THEN q ELSE Idle]
    BY <1>9, <1>i DEF Restart
  <2> HIDE DEF q
  <2> QED BY <1>0, <2>1
<1>10. CASE Tick
  BY <1>10 DEF Tick
<1> QED BY <1>4, <1>5, <1>6, <1>7, <1>8, <1>9, <1>10 DEF Next

-----------------------------------------------------------------------------
(* How long blocks last.                                                   *)

\* What a step may put in the table or in a handler's hands: a block that ends when
\* one does that was there before, one made now, or none.
Ends(block) ==
    \/ block.expires = 0
    \/ \E term \in (Terms \ {Permanent}) \cup {BlockFor} : block.expires = now + term
    \/ block.expires = row.expires
    \/ \E s \in Requests : block.expires = req[s].copy.expires

LEMMA EndsWithin ==
    ASSUME Typed, AllWithinTerms, NEW block, Ends(block)
    PROVE  WithinTerms(block)
<1>1. now \in Nat /\ \A term \in (Terms \ {Permanent}) \cup {BlockFor} : term \in Nat
  BY Numbers, GuardConstants DEF Typed, Minutes
<1>2. CASE block.expires = 0
  BY <1>1, <1>2 DEF WithinTerms
<1>3. CASE \E term \in (Terms \ {Permanent}) \cup {BlockFor} : block.expires = now + term
  BY <1>1, <1>3 DEF WithinTerms
<1>4. CASE block.expires = row.expires \/ \E s \in Requests : block.expires = req[s].copy.expires
  BY <1>4 DEF AllWithinTerms, WithinTerms
<1> QED BY <1>2, <1>3, <1>4 DEF Ends

LEMMA TermsMove ==
    ASSUME Typed, AllWithinTerms, NEW r \in Requests, NEW q, req' = [req EXCEPT ![r] = q],
           now' = now, Ends(q.copy), Ends(row')
    PROVE  AllWithinTerms'
<1>1. WithinTerms(row')
  BY EndsWithin
<1>2. ASSUME NEW s \in Requests PROVE WithinTerms(req'[s].copy)
  <2>1. CASE s = r
    <3>1. req'[s] = q
      BY <2>1 DEF Typed
    <3> QED BY <3>1, EndsWithin
  <2>2. CASE s # r
    BY <2>2 DEF Typed, AllWithinTerms
  <2> QED BY <2>1, <2>2
<1> QED BY <1>1, <1>2 DEF AllWithinTerms, WithinTerms

LEMMA TermsGoto ==
    ASSUME Typed, AllWithinTerms, NEW r \in Requests, now' = now, Ends(row'),
           \/ Finish(r)
           \/ \E pc : Goto(r, pc)
           \/ \E pc, copy : GotoWith(r, pc, copy) /\ Ends(copy)
           \/ \E kind, pc : Arrive(r, kind, pc)
    PROVE  AllWithinTerms'
<1>1. Ends(NoBlock) /\ Ends(Idle.copy)
  BY DEF Ends, NoBlock, Idle
<1>2. CASE Finish(r)
  BY <1>1, <1>2, TermsMove DEF Finish
<1>3. ASSUME NEW pc, NEW copy, GotoWith(r, pc, copy), Ends(copy) PROVE AllWithinTerms'
  <2> DEFINE q == [req[r] EXCEPT !.pc = pc, !.copy = copy]
  <2>1. q.copy = copy /\ req' = [req EXCEPT ![r] = q]
    BY <1>3 DEF GotoWith, Typed, Slot
  <2> HIDE DEF q
  <2> QED BY <1>3, <2>1, TermsMove
<1>4. ASSUME NEW kind, NEW pc, Arrive(r, kind, pc) PROVE AllWithinTerms'
  <2> DEFINE q == [Idle EXCEPT !.kind = kind, !.pc = pc, !.began = now]
  <2>1. q.copy = Idle.copy /\ req' = [req EXCEPT ![r] = q]
    BY <1>4 DEF Arrive, Idle
  <2> HIDE DEF q
  <2> QED BY <1>1, <2>1, TermsMove
<1> QED BY <1>1, <1>2, <1>3, <1>4, GotoPlain

LEMMA StepTerms == Typed /\ AllWithinTerms /\ [Next]_vars => AllWithinTerms'
<1> SUFFICES ASSUME Typed, AllWithinTerms, [Next]_vars PROVE AllWithinTerms'
  OBVIOUS
<1>0. row \in Block /\ \A s \in Requests : req[s].copy \in Block
  BY DEF Typed, Slot
<1>1. Ends(row) /\ Ends(NoBlock) /\ \A s \in Requests : Ends(req[s].copy)
  BY DEF Ends, NoBlock
<1>2. Ends([row EXCEPT !.active = FALSE])
  BY <1>0 DEF Ends, Block
<1>3. Ends(SystemBlock) /\ Ends([row EXCEPT !.expires = now + BlockFor])
  BY <1>0 DEF Ends, SystemBlock, Block
<1>4. ASSUME NEW term \in Terms PROVE Ends(NewBlock(term))
  BY DEF Ends, NewBlock
\* The handlers that leave the row.
<1>5. ASSUME NEW r \in Requests,
             \/ Attempt(r) \/ ReadBlocks(r) \/ FillCache(r) \/ LookUpBlock(r)
             \/ DropFromCache(r) \/ CountAttempts(r) \/ RecordSuccess(r) \/ RecordFailure(r)
             \/ CountFailures(r) \/ AutoBlock(r) \/ AddToCache(r)
      PROVE  AllWithinTerms'
  <2>1. row' = row /\ now' = now
    BY <1>5 DEF Attempt, ReadBlocks, FillCache, LookUpBlock, DropFromCache, CountAttempts,
       RecordSuccess, RecordFailure, CountFailures, AutoBlock, AddToCache
  <2>2. \/ Finish(r)
        \/ \E pc : Goto(r, pc)
        \/ \E pc, copy : GotoWith(r, pc, copy) /\ Ends(copy)
        \/ \E kind, pc : Arrive(r, kind, pc)
    <3>1. CASE \/ Attempt(r) \/ FillCache(r) \/ DropFromCache(r) \/ CountAttempts(r)
               \/ RecordSuccess(r) \/ RecordFailure(r) \/ CountFailures(r) \/ AddToCache(r)
      BY <3>1 DEF Attempt, FillCache, DropFromCache, CountAttempts, RecordSuccess,
         RecordFailure, CountFailures, AddToCache
    <3>2. CASE ReadBlocks(r)
      BY <1>1, <3>2 DEF ReadBlocks
    <3>3. CASE LookUpBlock(r)
      BY <1>1, <1>2, <3>3 DEF LookUpBlock
    <3>4. CASE AutoBlock(r)
      BY <1>3, <3>4 DEF AutoBlock
    <3> QED BY <1>5, <3>1, <3>2, <3>3, <3>4
  <2> QED BY <1>1, <2>1, <2>2, TermsGoto
\* Those that write it.
<1>6. ASSUME NEW r \in Requests,
             SaveBlock(r) \/ ExtendBlock(r) \/ UpdateBlock(r) \/ InsertBlock(r)
      PROVE  AllWithinTerms'
  <2>1. /\ now' = now /\ row' \in {row, req[r].copy}
        /\ Finish(r) \/ \E pc : Goto(r, pc)
    BY <1>6 DEF SaveBlock, ExtendBlock, UpdateBlock, InsertBlock, Write
  <2> QED BY <1>1, <2>1, TermsGoto
<1>7. ASSUME NEW r \in Requests, CleanExpiredBlocks(r) PROVE AllWithinTerms'
  <2>1. /\ now' = now /\ row' = [row EXCEPT !.active = FALSE]
        /\ \E kind, pc : Arrive(r, kind, pc)
    BY <1>7 DEF CleanExpiredBlocks, Write
  <2> QED BY <1>2, <2>1, TermsGoto
\* The requests of administrators.
<1>8. ASSUME NEW r \in Requests, NEW term \in Terms, BlockIp(r, term) PROVE AllWithinTerms'
  <2> DEFINE q == [kind |-> "block", pc |-> IF Live THEN "update" ELSE "insert",
                   copy |-> NewBlock(term), began |-> now]
  <2>1. q.copy = NewBlock(term) /\ req' = [req EXCEPT ![r] = q] /\ row' = row /\ now' = now
    BY <1>8 DEF BlockIp
  <2> HIDE DEF q
  <2> QED BY <1>1, <1>4, <2>1, TermsMove
<1>9. ASSUME NEW r \in Requests, UnblockIp(r) PROVE AllWithinTerms'
  <2> DEFINE q == [kind |-> "unblock", pc |-> "lapse", copy |-> [row EXCEPT !.active = FALSE],
                   began |-> now]
  <2>1. /\ q.copy = [row EXCEPT !.active = FALSE] /\ req' = [req EXCEPT ![r] = q]
        /\ row' = row /\ now' = now
    BY <1>9 DEF UnblockIp
  <2> HIDE DEF q
  <2> QED BY <1>1, <1>2, <2>1, TermsMove
<1>10. ASSUME NEW r \in Requests, Restart(r) PROVE AllWithinTerms'
  <2> DEFINE q == [Idle EXCEPT !.kind = "boot", !.pc = "find", !.began = now]
  <2>1. q.copy = NoBlock /\ Idle.copy = NoBlock
    BY DEF Idle
  <2>2. /\ req' = [s \in Requests |-> IF s = r THEN q ELSE Idle]
        /\ row' = row /\ now' = now
    BY <1>10 DEF Restart
  <2> HIDE DEF q
  <2>3. \A s \in Requests : req'[s].copy = NoBlock
    BY <2>1, <2>2
  <2>4. WithinTerms(NoBlock)
    BY <1>1, EndsWithin
  <2> QED BY <2>2, <2>3, <2>4 DEF AllWithinTerms, WithinTerms
\* As time goes by.
<1>11. CASE Tick
  <2>1. now \in Nat /\ now' = now + 1 /\ UNCHANGED <<row, req>>
    BY <1>11, Numbers DEF Tick, Typed, Minutes
  <2>2. ASSUME NEW block \in Block, WithinTerms(block)
        PROVE  \E term \in (Terms \ {Permanent}) \cup {BlockFor} : block.expires <= now' + term
    <3>1. PICK term \in (Terms \ {Permanent}) \cup {BlockFor} : block.expires <= now + term
      BY <2>2 DEF WithinTerms
    <3>2. term \in Nat /\ block.expires \in Nat
      BY <2>2, Numbers, GuardConstants DEF Block
    <3> QED BY <2>1, <3>1, <3>2
  <2> QED BY <1>0, <2>1, <2>2 DEF AllWithinTerms, WithinTerms
<1>12. CASE UNCHANGED vars
  BY <1>12 DEF vars, AllWithinTerms, WithinTerms
<1> QED BY <1>5, <1>6, <1>7, <1>8, <1>9, <1>10, <1>11, <1>12 DEF Next, AdminBlocks

\* Every state has the types, and no block, saved or about to be saved, ends later
\* than if it had been made now, for block_duration_minutes or for some term that an
\* administrator asks for: however extensions and replacements race.
THEOREM GuardTyped == Spec => []TypeOK
<1>1. Init => AllWithinTerms
  <2> SUFFICES ASSUME Init PROVE AllWithinTerms
    OBVIOUS
  <2>1. Typed
    BY InitCache DEF CacheInv
  <2>2. row = NoBlock /\ \A s \in Requests : req[s].copy = NoBlock
    BY DEF Init, Idle
  <2>3. 0 <= now + BlockFor
    BY <2>1, Numbers DEF Typed, Minutes
  <2>4. WithinTerms(NoBlock)
    BY <2>3 DEF WithinTerms, NoBlock
  <2> QED BY <2>2, <2>4 DEF AllWithinTerms
<1>2. CacheInv /\ AllWithinTerms /\ [Next]_vars => (CacheInv /\ AllWithinTerms)'
  BY StepCache, StepTerms DEF CacheInv
<1>3. CacheInv /\ AllWithinTerms => TypeOK
  BY TypedTypes DEF CacheInv
<1> QED BY <1>1, <1>2, <1>3, InitCache, PTL DEF Spec

\* A block in force for longer than Ttl and a request's life stops every login:
\* whatever refreshes, expiries, unblockings and restarts were under way.
THEOREM BlocksBite == Spec => BlockBites
<1>1. CacheInv /\ [Next]_vars =>
        [ \A r \in Requests :
            /\ InForce
            /\ req[r].pc \in {"idle", "fill"} /\ req'[r].pc = "count"
            => now <= since + Ttl + Patience ]_vars
  <2> SUFFICES ASSUME CacheInv, Next, NEW r \in Requests, InForce,
                      req[r].pc \in {"idle", "fill"}, req'[r].pc = "count"
               PROVE  now <= since + Ttl + Patience
    BY DEF vars
  <2>0. /\ Typed /\ now \in Nat /\ since \in 0..now /\ updated \in 0..(now + 1)
        /\ Patience \in Nat /\ Ttl \in Nat /\ row \in Block
        /\ req[r].began \in 0..now /\ SlotFine(req[r], row, since, now)
        /\ CacheTells(cached, updated, row, since, now)
    BY Numbers DEF CacheInv, Typed, Minutes, Slot
  <2>1. ASSUME ~Stale, ~cached PROVE now <= since + Ttl + Patience
    <3>1. updated # 0 /\ now <= (updated - 1) + Ttl
      BY <2>0, <2>1 DEF Stale
    <3>2. updated <= since + Patience + 1
      BY <2>0, <2>1, <3>1 DEF CacheTells, InForce
    <3> QED BY <2>0, <3>1, <3>2
  <2>2. ASSUME req[r].pc = "fill",
               ~(/\ req[r].copy.active
                 /\ req[r].copy.permanent \/ req[r].copy.expires > now)
        PROVE  now <= since + Ttl + Patience
    <3>1. now <= req[r].began + Patience
      BY <2>0, <2>2 DEF SlotFine
    <3>2. req[r].began <= since
      <4>1. \/ ~row.active \/ req[r].copy = row \/ req[r].began <= since
        BY <2>0, <2>2 DEF SlotFine
      <4>2. row.expires \in Nat
        BY <2>0, Numbers DEF Block
      <4> QED BY <2>0, <2>2, <4>1, <4>2 DEF InForce
    <3> QED BY <2>0, <3>1, <3>2
  <2> QED BY <2>0, <2>1, <2>2, GuardPassed
<1> QED BY <1>1, InitCache, StepCache, PTL DEF Spec, BlockBites

-----------------------------------------------------------------------------
(* Sums over finite sets: they exist, they do not depend on the order in   *)
(* which the members are taken, they grow with the set and with the        *)
(* function.                                                               *)

\* The member of a set that a sum takes first.
First(s) == CHOOSE x \in s : TRUE

\* F[s] is the sum of g over s, for the subsets s of S that have at most n members.
SumsUpTo(F, g, S, n) ==
    F = [s \in {u \in SUBSET S : Cardinality(u) <= n} |->
            IF s = {} THEN 0 ELSE g[First(s)] + F[s \ {First(s)}]]

\* F[s] is the sum of g over s, for the subsets s of S.
Sums(F, g, S) ==
    F = [s \in SUBSET S |-> IF s = {} THEN 0 ELSE g[First(s)] + F[s \ {First(s)}]]

\* A set that is not empty has a member.
LEMMA FirstIsMember == \A s : s # {} => First(s) \in s
BY DEF First

\* Among the subsets of a finite set that have a property one is least.
LEMMA LeastSet ==
    ASSUME NEW S, IsFiniteSet(S), NEW T, T \subseteq SUBSET S, T # {}
    PROVE  \E s \in T : \A u \in T : u \subseteq s => u = s
<1>1. IsWellFoundedOn(StrictSubsetOrdering(S), SUBSET S)
  BY FS_StrictSubsetOrderingWellFounded, FS_FiniteSubsetsOfFinite
<1>2. PICK s \in T : \A u \in T : ~(<<u, s>> \in StrictSubsetOrdering(S))
  BY <1>1, WFMin
<1>3. \A u \in T : u \subseteq s /\ u # s => <<u, s>> \in StrictSubsetOrdering(S)
  BY DEF StrictSubsetOrdering
<1>4. \A u \in T : u \subseteq s => u = s
  BY <1>2, <1>3
<1> QED BY <1>4

\* A set of natural numbers that is not empty has a least one.
LEMMA LeastNumber ==
    ASSUME NEW T, T \subseteq Nat, T # {}
    PROVE  \E n \in T : \A k \in T : ~(k < n)
<1>1. IsWellFoundedOn(OpToRel(<, Nat), Nat)
  BY NatLessThanWellFounded
<1>2. PICK n \in T : \A k \in T : ~(<<k, n>> \in OpToRel(<, Nat))
  BY <1>1, WFMin
<1>3. \A k \in T : <<k, n>> \in OpToRel(<, Nat) <=> k < n
  BY DEF OpToRel
<1> QED BY <1>2, <1>3

\* The sums of the subsets of up to n members exist, by the least n for which
\* they would not,
LEMMA SumsUpToExists ==
    ASSUME NEW S, IsFiniteSet(S), NEW g, NEW n \in Nat
    PROVE  \E F : SumsUpTo(F, g, S, n)
<1> DEFINE T == {k \in Nat : ~\E F : SumsUpTo(F, g, S, k)}
<1>1. SUFFICES ASSUME T # {} PROVE FALSE
  OBVIOUS
<1>2. PICK k \in T : \A j \in T : ~(j < k)
  <2>1. T \subseteq Nat
    OBVIOUS
  <2> HIDE DEF T
  <2> QED BY <1>1, <2>1, LeastNumber
<1>3. \A u \in SUBSET S : IsFiniteSet(u) /\ Cardinality(u) \in Nat
  BY FS_Subset, FS_CardinalityType
<1>4. \A u \in SUBSET S : u # {} => First(u) \in u /\ u \ {First(u)} \in SUBSET S
  BY FirstIsMember
<1>5. \A u \in SUBSET S : u # {} => Cardinality(u \ {First(u)}) = Cardinality(u) - 1
  BY <1>3, <1>4, FS_RemoveElement
<1>6. CASE k = 0
  <2>1. \A u \in SUBSET S : Cardinality(u) <= 0 => u = {}
    BY <1>3, FS_EmptySet
  <2> DEFINE F == [u \in {w \in SUBSET S : Cardinality(w) <= 0} |-> 0]
  <2>2. F = [s \in {u \in SUBSET S : Cardinality(u) <= 0} |->
                IF s = {} THEN 0 ELSE g[First(s)] + F[s \ {First(s)}]]
    BY <2>1
  <2>3. SumsUpTo(F, g, S, 0)
    BY <2>2 DEF SumsUpTo
  <2> QED BY <1>6, <2>3
<1>7. CASE k # 0
  <2>1. k - 1 \in Nat /\ k - 1 < k /\ k \in Nat
    BY <1>7
  <2>2. PICK G : SumsUpTo(G, g, S, k - 1)
    BY <1>2, <2>1
  <2> DEFINE F == [s \in {u \in SUBSET S : Cardinality(u) <= k} |->
                     IF Cardinality(s) <= k - 1 THEN G[s] ELSE g[First(s)] + G[s \ {First(s)}]]
  <2>3. ASSUME NEW s \in SUBSET S, Cardinality(s) <= k
        PROVE  F[s] = IF s = {} THEN 0 ELSE g[First(s)] + F[s \ {First(s)}]
    <3>1. CASE s = {}
      <4>1. Cardinality(s) <= k - 1
        BY <2>1, <3>1, FS_EmptySet
      <4>2. G[s] = 0
        BY <2>2, <3>1, <4>1 DEF SumsUpTo
      <4> QED BY <2>3, <3>1, <4>1, <4>2
    <3>2. CASE s # {}
      <4>1. PICK u : u = s \ {First(s)}
        OBVIOUS
      <4>2. u \in SUBSET S /\ Cardinality(u) <= k - 1 /\ Cardinality(u) <= k
        BY <1>3, <1>4, <1>5, <2>1, <2>3, <3>2, <4>1
      <4>3. F[u] = G[u]
        BY <4>2
      <4>4. Cardinality(s) <= k - 1 => G[s] = g[First(s)] + G[u]
        BY <2>2, <3>2, <4>1 DEF SumsUpTo
      <4>5. F[s] = g[First(s)] + G[u]
        BY <2>3, <4>1, <4>4
      <4> QED BY <3>2, <4>1, <4>3, <4>5
    <3> QED BY <3>1, <3>2
  <2>4. F = [s \in {u \in SUBSET S : Cardinality(u) <= k} |-> F[s]]
    OBVIOUS
  <2> HIDE DEF F
  <2>5. SumsUpTo(F, g, S, k)
    BY <2>3, <2>4 DEF SumsUpTo
  <2> QED BY <2>5
<1> QED BY <1>6, <1>7

\* and those of all subsets of a finite set.
LEMMA SumsExist ==
    ASSUME NEW S, IsFiniteSet(S), NEW g
    PROVE  \E F : Sums(F, g, S)
<1>1. PICK F : SumsUpTo(F, g, S, Cardinality(S))
  BY FS_CardinalityType, SumsUpToExists
<1>2. {u \in SUBSET S : Cardinality(u) <= Cardinality(S)} = SUBSET S
  BY FS_Subset
<1>3. Sums(F, g, S)
  BY <1>1, <1>2 DEF SumsUpTo, Sums
<1> QED BY <1>3

\* One unfolding of a sum.
LEMMA SumOf ==
    ASSUME NEW S, NEW g, NEW F, Sums(F, g, S), NEW s \in SUBSET S
    PROVE  F[s] = IF s = {} THEN 0 ELSE g[First(s)] + F[s \ {First(s)}]
BY DEF Sums

\* A sum of numbers is a number.
LEMMA SumsAreNumbers ==
    ASSUME NEW S, IsFiniteSet(S), NEW g, \A x \in S : g[x] \in Nat, NEW F, Sums(F, g, S)
    PROVE  \A s \in SUBSET S : F[s] \in Nat
<1> DEFINE T == {s \in SUBSET S : F[s] \notin Nat}
<1>1. SUFFICES ASSUME T # {} PROVE FALSE
  OBVIOUS
<1>2. PICK s \in T : \A u \in T : u \subseteq s => u = s
  <2>1. T \subseteq SUBSET S
    OBVIOUS
  <2> HIDE DEF T
  <2> QED BY <1>1, <2>1, LeastSet
<1>3. F[s] = IF s = {} THEN 0 ELSE g[First(s)] + F[s \ {First(s)}]
  BY SumOf
<1>4. s # {}
  BY <1>3
<1>5. First(s) \in s
  BY <1>4, FirstIsMember
<1>6. F[s \ {First(s)}] \in Nat
  BY <1>2, <1>5
<1> QED BY <1>3, <1>4, <1>5, <1>6

\* Sums of numbers that are no greater are no greater, whatever they were made for.
LEMMA SumsGrow ==
    ASSUME NEW S, IsFiniteSet(S), NEW g, \A x \in S : g[x] \in Nat, NEW F, Sums(F, g, S),
           NEW R, IsFiniteSet(R), NEW h, \A x \in R : h[x] \in Nat, NEW G, Sums(G, h, R),
           NEW s, s \subseteq S, s \subseteq R, \A x \in s : g[x] <= h[x]
    PROVE  F[s] <= G[s]
<1> DEFINE T == {u \in SUBSET s : ~(F[u] <= G[u])}
<1>1. SUFFICES ASSUME T # {} PROVE FALSE
  OBVIOUS
<1>2. PICK u \in T : \A w \in T : w \subseteq u => w = u
  <2>1. T \subseteq SUBSET s
    OBVIOUS
  <2>2. IsFiniteSet(s)
    BY FS_Subset
  <2> HIDE DEF T
  <2> QED BY <1>1, <2>1, <2>2, LeastSet
<1>3. u \in SUBSET S /\ u \in SUBSET R
  OBVIOUS
<1>4. F[u] = IF u = {} THEN 0 ELSE g[First(u)] + F[u \ {First(u)}]
  BY <1>3 DEF Sums
<1>5. G[u] = IF u = {} THEN 0 ELSE h[First(u)] + G[u \ {First(u)}]
  BY <1>3 DEF Sums
<1>6. u # {}
  BY <1>4, <1>5
<1>7. First(u) \in u
  BY <1>6, FirstIsMember
<1>8. PICK w : w = u \ {First(u)}
  OBVIOUS
<1>9. F[w] <= G[w]
  BY <1>2, <1>7, <1>8
<1>10. F[w] \in Nat /\ G[w] \in Nat
  BY <1>3, <1>8, SumsAreNumbers
<1>11. g[First(u)] \in Nat /\ h[First(u)] \in Nat /\ g[First(u)] <= h[First(u)]
  BY <1>3, <1>7
<1>12. F[u] = g[First(u)] + F[w] /\ G[u] = h[First(u)] + G[w]
  BY <1>4, <1>5, <1>6, <1>8
<1>13. F[u] <= G[u]
  BY <1>9, <1>10, <1>11, <1>12
<1> QED BY <1>13

\* A sum does not depend on which member is taken first.
LEMMA SumsTakeAny ==
    ASSUME NEW S, IsFiniteSet(S), NEW g, \A x \in S : g[x] \in Nat, NEW F, Sums(F, g, S),
           NEW s \in SUBSET S, NEW x \in s
    PROVE  F[s] = g[x] + F[s \ {x}]
<1> DEFINE T == {u \in SUBSET S : \E y \in u : F[u] # g[y] + F[u \ {y}]}
<1>1. SUFFICES ASSUME T # {} PROVE FALSE
  OBVIOUS
<1>2. PICK u \in T : \A w \in T : w \subseteq u => w = u
  <2>1. T \subseteq SUBSET S
    OBVIOUS
  <2> HIDE DEF T
  <2> QED BY <1>1, <2>1, LeastSet
<1>3. PICK y \in u : F[u] # g[y] + F[u \ {y}]
  OBVIOUS
<1>4. PICK c : c = First(u)
  OBVIOUS
<1>5. c \in u /\ u \in SUBSET S
  BY <1>3, <1>4, FirstIsMember
<1>6. F[u] = g[c] + F[u \ {c}]
  BY <1>4, <1>5, SumOf
<1>7. y # c
  BY <1>3, <1>6
<1>a. ASSUME NEW v \in SUBSET S, v \subseteq u, v # u, NEW z \in v
      PROVE  F[v] = g[z] + F[v \ {z}]
  BY <1>2, <1>a
<1>8. F[u \ {c}] = g[y] + F[(u \ {c}) \ {y}]
  <2>1. PICK v : v = u \ {c}
    OBVIOUS
  <2>2. v \in SUBSET S /\ v \subseteq u /\ v # u /\ y \in v
    BY <1>5, <1>7, <2>1
  <2> QED BY <1>a, <2>1, <2>2
<1>9. F[u \ {y}] = g[c] + F[(u \ {y}) \ {c}]
  <2>1. PICK v : v = u \ {y}
    OBVIOUS
  <2>2. v \in SUBSET S /\ v \subseteq u /\ v # u /\ c \in v
    BY <1>5, <1>7, <2>1
  <2> QED BY <1>a, <2>1, <2>2
<1>10. PICK w : w = (u \ {c}) \ {y}
  OBVIOUS
<1>11. w = (u \ {y}) \ {c} /\ w \in SUBSET S
  BY <1>5, <1>10
<1>12. F[w] \in Nat /\ g[y] \in Nat /\ g[c] \in Nat
  BY <1>5, <1>11, SumsAreNumbers
<1>13. F[u] = g[c] + (g[y] + F[w]) /\ F[u \ {y}] = g[c] + F[w]
  BY <1>6, <1>8, <1>9, <1>10, <1>11
<1> QED BY <1>3, <1>12, <1>13

\* A part of a set has no greater sum.
LEMMA SumsOfParts ==
    ASSUME NEW S, IsFiniteSet(S), NEW g, \A x \in S : g[x] \in Nat, NEW F, Sums(F, g, S),
           NEW s \in SUBSET S, NEW part, part \subseteq s
    PROVE  F[part] <= F[s]
<1> DEFINE T == {u \in SUBSET S : part \subseteq u /\ ~(F[part] <= F[u])}
<1>1. SUFFICES ASSUME T # {} PROVE FALSE
  OBVIOUS
<1>2. PICK u \in T : \A w \in T : w \subseteq u => w = u
  <2>1. T \subseteq SUBSET S
    OBVIOUS
  <2> HIDE DEF T
  <2> QED BY <1>1, <2>1, LeastSet
<1>3. part \in SUBSET S /\ u \in SUBSET S
  OBVIOUS
<1>4. F[part] \in Nat /\ F[u] \in Nat
  BY <1>3, SumsAreNumbers
<1>5. part # u
  BY <1>4
<1>6. PICK x \in u : x \notin part
  BY <1>5
<1>7. F[u] = g[x] + F[u \ {x}]
  BY <1>3, <1>6, SumsTakeAny
<1>8. F[part] <= F[u \ {x}]
  BY <1>2, <1>6
<1>9. F[u \ {x}] \in Nat /\ g[x] \in Nat
  BY <1>3, <1>6, SumsAreNumbers
<1>10. F[part] <= F[u]
  BY <1>4, <1>7, <1>8, <1>9
<1> QED BY <1>10

-----------------------------------------------------------------------------
(* The limit of logins per address.                                        *)

\* What is counted in each minute.
Checks == [t \in Minutes |-> Checked(t)]
Records == [t \in Minutes |-> Recorded(t)]

\* A sum of the model, over S, of a function of the minutes.
Summed(total, g, S) == \E F : Sums(F, g, S) /\ total = F[S]

\* What the model adds up is such a sum, of the logins that were checked,
LEMMA ChecksSummed ==
    ASSUME NEW S, S \subseteq Minutes, IsFiniteSet(S)
    PROVE  Summed(MapThenSumSet(Checked, S), Checks, S)
<1> DEFINE G(F) == [s \in SUBSET S |-> IF s = {} THEN 0 ELSE Checked(First(s)) + F[s \ {First(s)}]]
           iter == CHOOSE F : F = G(F)
<1>1. \A s \in SUBSET S : s # {} => Checks[First(s)] = Checked(First(s))
  BY FirstIsMember DEF Checks
<1>2. \A F : Sums(F, Checks, S) <=> F = G(F)
  BY <1>1 DEF Sums
<1>3. \E F : F = G(F)
  BY <1>2, SumsExist
<1>4. iter = G(iter)
  BY <1>3
<1>5. Sums(iter, Checks, S)
  BY <1>2, <1>4
<1>6. MapThenSumSet(Checked, S) = iter[S]
  BY DEF MapThenSumSet, MapThenFoldSet, First
<1> QED BY <1>5, <1>6 DEF Summed

\* The same of the attempts, and of the checks after a step.
LEMMA ChecksSummedNext ==
    ASSUME NEW S, S \subseteq Minutes, IsFiniteSet(S)
    PROVE  Summed(MapThenSumSet(Checked, S)', Checks', S)
<1> DEFINE G(F) == [s \in SUBSET S |-> IF s = {} THEN 0 ELSE Checked(First(s))' + F[s \ {First(s)}]]
           iter == CHOOSE F : F = G(F)
<1>1. \A s \in SUBSET S : s # {} => Checks'[First(s)] = Checked(First(s))'
  BY FirstIsMember DEF Checks
<1>2. \A F : Sums(F, Checks', S) <=> F = G(F)
  BY <1>1 DEF Sums
<1>3. \E F : F = G(F)
  BY <1>2, SumsExist
<1>4. iter = G(iter)
  BY <1>3
<1>5. Sums(iter, Checks', S)
  BY <1>2, <1>4
<1>6. MapThenSumSet(Checked, S)' = iter[S]
  BY DEF MapThenSumSet, MapThenFoldSet, First
<1> QED BY <1>5, <1>6 DEF Summed

\* and of those that were recorded.
LEMMA RecordsSummed ==
    ASSUME NEW S, S \subseteq Minutes, IsFiniteSet(S)
    PROVE  Summed(MapThenSumSet(Recorded, S), Records, S)
<1> DEFINE G(F) == [s \in SUBSET S |-> IF s = {} THEN 0 ELSE Recorded(First(s)) + F[s \ {First(s)}]]
           iter == CHOOSE F : F = G(F)
<1>1. \A s \in SUBSET S : s # {} => Records[First(s)] = Recorded(First(s))
  BY FirstIsMember DEF Records
<1>2. \A F : Sums(F, Records, S) <=> F = G(F)
  BY <1>1 DEF Sums
<1>3. \E F : F = G(F)
  BY <1>2, SumsExist
<1>4. iter = G(iter)
  BY <1>3
<1>5. Sums(iter, Records, S)
  BY <1>2, <1>4
<1>6. MapThenSumSet(Recorded, S) = iter[S]
  BY DEF MapThenSumSet, MapThenFoldSet, First
<1> QED BY <1>5, <1>6 DEF Summed

-----------------------------------------------------------------------------
\* A total is no greater than one over more minutes that hold no less.
LEMMA TotalsGrow ==
    ASSUME NEW a, NEW g, NEW S, IsFiniteSet(S), \A t \in S : g[t] \in Nat, Summed(a, g, S),
           NEW b, NEW h, NEW T, IsFiniteSet(T), \A t \in T : h[t] \in Nat, Summed(b, h, T),
           S \subseteq T, \A t \in S : g[t] <= h[t]
    PROVE  a \in Nat /\ b \in Nat /\ a <= b
<1>1. PICK F : Sums(F, g, S) /\ a = F[S]
  BY DEF Summed
<1>2. PICK G : Sums(G, h, T) /\ b = G[T]
  BY DEF Summed
<1>3. F[S] \in Nat /\ G[S] \in Nat /\ G[T] \in Nat
  BY <1>1, <1>2, SumsAreNumbers
<1>4. F[S] <= G[S]
  BY <1>1, <1>2, SumsGrow
<1>5. G[S] <= G[T]
  BY <1>2, SumsOfParts
<1> QED BY <1>1, <1>2, <1>3, <1>4, <1>5

\* One more in one minute makes the total one more.
LEMMA TotalsCount ==
    ASSUME NEW S, IsFiniteSet(S), NEW n \in S,
           NEW a, NEW g, \A t \in S : g[t] \in Nat, Summed(a, g, S),
           NEW b, NEW h, \A t \in S : h[t] = IF t = n THEN g[t] + 1 ELSE g[t], Summed(b, h, S)
    PROVE  a \in Nat /\ b = a + 1
<1>1. PICK F : Sums(F, g, S) /\ a = F[S]
  BY DEF Summed
<1>2. PICK G : Sums(G, h, S) /\ b = G[S]
  BY DEF Summed
<1>3. \A t \in S : h[t] \in Nat
  OBVIOUS
<1>4. F[S] = g[n] + F[S \ {n}]
  BY <1>1, SumsTakeAny
<1>5. G[S] = h[n] + G[S \ {n}]
  BY <1>2, <1>3, SumsTakeAny
<1>6. PICK s : s = S \ {n}
  OBVIOUS
<1>7. s \subseteq S /\ (\A t \in s : g[t] <= h[t]) /\ (\A t \in s : h[t] <= g[t])
  BY <1>6
<1>8. F[s] <= G[s]
  BY <1>1, <1>2, <1>3, <1>7, SumsGrow
<1>9. G[s] <= F[s]
  BY <1>1, <1>2, <1>3, <1>7, SumsGrow
<1>10. F[s] \in Nat /\ G[s] \in Nat
  BY <1>1, <1>2, <1>3, <1>7, SumsAreNumbers
<1>11. F[s] = G[s]
  BY <1>8, <1>9, <1>10
<1> QED BY <1>1, <1>2, <1>4, <1>5, <1>6, <1>10, <1>11

\* A minute in which nothing has happened yet adds nothing.
LEMMA TotalsSkip ==
    ASSUME NEW S, IsFiniteSet(S), NEW n, NEW T, IsFiniteSet(T), T \subseteq S \cup {n},
           NEW a, NEW g, \A t \in S : g[t] \in Nat, Summed(a, g, S),
           NEW b, NEW h, \A t \in T : h[t] = IF t = n THEN 0 ELSE g[t], Summed(b, h, T)
    PROVE  a \in Nat /\ b \in Nat /\ b <= a
<1>1. PICK F : Sums(F, g, S) /\ a = F[S]
  BY DEF Summed
<1>2. PICK G : Sums(G, h, T) /\ b = G[T]
  BY DEF Summed
<1>3. \A t \in T : h[t] \in Nat
  OBVIOUS
<1>4. PICK s : s = T \ {n}
  OBVIOUS
<1>5. s \subseteq S /\ s \subseteq T /\ \A t \in s : h[t] <= g[t]
  BY <1>4
<1>6. G[s] <= F[s]
  BY <1>1, <1>2, <1>3, <1>5, SumsGrow
<1>7. F[s] <= F[S]
  BY <1>1, <1>5, SumsOfParts
<1>8. F[s] \in Nat /\ G[s] \in Nat /\ F[S] \in Nat
  BY <1>1, <1>2, <1>3, <1>5, SumsAreNumbers
<1>9. CASE n \notin T
  <2>1. s = T
    BY <1>4, <1>9
  <2> QED BY <1>1, <1>2, <1>6, <1>7, <1>8, <2>1
<1>10. CASE n \in T
  <2>0. G[T] = h[n] + G[T \ {n}]
    BY <1>2, <1>3, <1>10, SumsTakeAny
  <2>1. G[T] = h[n] + G[T \ {n}] /\ h[n] = 0
    BY <1>10, <2>0
  <2>2. G[T] = G[s]
    BY <1>4, <1>8, <2>1
  <2> QED BY <1>1, <1>2, <1>6, <1>7, <1>8, <2>2
<1> QED BY <1>9, <1>10

-----------------------------------------------------------------------------
CheckedLately == MapThenSumSet(Checked, InLast(RateWindow))
Checkers == {r \in Requests : req[r].pc \in {"right", "wrong"}}

\* Nothing has been recorded for a minute that has not begun.
FutureEmpty == \A t \in Minutes : t > now => attempts[t] = NoAttempts

\* The sum of the window that ends now,
LEMMA LatelyNow ==
    ASSUME Typed
    PROVE  LET S == InLast(RateWindow)
           IN  /\ S \subseteq Minutes /\ IsFiniteSet(S) /\ now \in S
               /\ \A t \in Minutes : Checks[t] = attempts[t].right + attempts[t].wrong
               /\ Checks \in [Minutes -> Nat]
               /\ Summed(CheckedLately, Checks, S)
<1>1. PICK S : S = InLast(RateWindow)
  OBVIOUS
<1>2. S \subseteq Minutes
  BY <1>1 DEF InLast
<1>3. IsFiniteSet(S)
  <2>1. IsFiniteSet(Minutes)
    BY Numbers, FS_Interval DEF Minutes
  <2> QED BY <1>2, <2>1, FS_Subset
<1>4. now \in S
  BY <1>1, Numbers DEF Typed, InLast, Minutes
<1>5. \A t \in Minutes : Checks[t] = attempts[t].right + attempts[t].wrong
  BY DEF Checks, Checked
<1>6. Checks \in [Minutes -> Nat]
  <2>1. \A t \in Minutes : Checks[t] \in Nat
    BY <1>5 DEF Typed, Counts
  <2> QED BY <2>1 DEF Checks
<1>7. Summed(MapThenSumSet(Checked, S), Checks, S)
  BY <1>2, <1>3, ChecksSummed
<1>8. CheckedLately = MapThenSumSet(Checked, S)
  BY <1>1 DEF CheckedLately, MapThenSumSet, MapThenFoldSet
<1>9. Summed(CheckedLately, Checks, S)
  BY <1>7, <1>8
<1> QED BY <1>1, <1>2, <1>3, <1>4, <1>5, <1>6, <1>9

\* and of the one that ends after the step.
LEMMA LatelyNext ==
    ASSUME Typed'
    PROVE  LET S == InLast(RateWindow)'
           IN  /\ S \subseteq Minutes /\ IsFiniteSet(S) /\ now' \in S
               /\ \A t \in Minutes : Checks'[t] = attempts'[t].right + attempts'[t].wrong
               /\ Checks' \in [Minutes -> Nat]
               /\ Summed(CheckedLately', Checks', S)
<1>1. PICK S : S = InLast(RateWindow)'
  OBVIOUS
<1>2. S \subseteq Minutes
  BY <1>1 DEF InLast
<1>3. IsFiniteSet(S)
  <2>1. IsFiniteSet(Minutes)
    BY Numbers, FS_Interval DEF Minutes
  <2> QED BY <1>2, <2>1, FS_Subset
<1>4. now' \in S
  <2>1. PICK n : n = now'
    OBVIOUS
  <2>2. n \in Minutes /\ n \in Nat
    BY <2>1, Numbers DEF Typed, Minutes
  <2>3. n <= n /\ n <= n + RateWindow
    BY <2>2, Numbers
  <2> QED BY <1>1, <2>1, <2>2, <2>3 DEF InLast
<1>5. \A t \in Minutes : Checks'[t] = attempts'[t].right + attempts'[t].wrong
  BY DEF Checks, Checked
<1>6. Checks' \in [Minutes -> Nat]
  <2>1. \A t \in Minutes : Checks'[t] \in Nat
    BY <1>5 DEF Typed, Counts
  <2> QED BY <2>1 DEF Checks
<1>7. Summed(MapThenSumSet(Checked, S)', Checks', S)
  BY <1>2, <1>3, ChecksSummedNext
<1>8. CheckedLately' = MapThenSumSet(Checked, S)'
  BY <1>1 DEF CheckedLately, MapThenSumSet, MapThenFoldSet
<1>9. Summed(CheckedLately', Checks', S)
  BY <1>7, <1>8
<1> QED BY <1>1, <1>2, <1>3, <1>4, <1>5, <1>6, <1>9

\* How many are under way when one has left.
LEMMA CheckersCounted ==
    ASSUME NEW now1 \in SUBSET Requests, NEW then \in SUBSET Requests
    PROVE  /\ Cardinality(now1) \in Nat /\ Cardinality(Requests) \in Nat
           /\ Cardinality(now1) <= Cardinality(Requests)
           /\ then \subseteq now1 => Cardinality(then) <= Cardinality(now1)
           /\ \A r \in now1 : then = now1 \ {r} => Cardinality(then) = Cardinality(now1) - 1
<1>1. IsFiniteSet(Requests) /\ IsFiniteSet(now1)
  BY GuardConstants, FS_Subset
<1>2. \A r \in now1 : Cardinality(now1 \ {r}) = Cardinality(now1) - 1
  BY <1>1, FS_RemoveElement
<1> QED BY <1>1, <1>2, FS_Subset, FS_CardinalityType

\* A step that records no check and takes nobody to a password.
LEMMA NobodyChecks ==
    ASSUME Typed, Typed', ChecksBounded, FutureEmpty, UNCHANGED <<Checks, now>>,
           \A t \in Minutes : t > now => attempts'[t] = attempts[t],
           Checkers' \subseteq Checkers
    PROVE  ChecksBounded' /\ FutureEmpty'
<1>1. PICK S : S = InLast(RateWindow)
  OBVIOUS
<1>2. S = InLast(RateWindow)'
  BY <1>1 DEF InLast
<1>3. PICK a, b, g : a = CheckedLately /\ b = CheckedLately' /\ g = Checks
  OBVIOUS
<1>4. g = Checks'
  BY <1>3
<1>5. /\ IsFiniteSet(S) /\ S \subseteq Minutes /\ g \in [Minutes -> Nat]
      /\ Summed(a, g, S) /\ Summed(b, g, S)
  BY <1>1, <1>2, <1>3, <1>4, LatelyNow, LatelyNext
<1>6. \A t \in S : g[t] \in Nat /\ g[t] <= g[t]
  BY <1>5
<1>7. a \in Nat /\ b \in Nat /\ b <= a
  BY <1>5, <1>6, TotalsGrow
<1>8. PICK C, D : C = Checkers /\ D = Checkers'
  OBVIOUS
<1>9. C \in SUBSET Requests /\ D \in SUBSET Requests /\ D \subseteq C
  BY <1>8 DEF Checkers
<1>10. Cardinality(D) \in Nat /\ Cardinality(C) \in Nat /\ Cardinality(D) <= Cardinality(C)
  BY <1>9, CheckersCounted
<1>11. a + Cardinality(C) <= Rate + Cardinality(Requests) - 1
  BY <1>3, <1>8 DEF ChecksBounded, CheckedLately, Checkers
<1>12. b + Cardinality(D) <= Rate + Cardinality(Requests) - 1
  BY <1>7, <1>9, <1>10, <1>11, CheckersCounted, Numbers
<1>13. ChecksBounded'
  BY <1>3, <1>8, <1>12 DEF ChecksBounded, CheckedLately, Checkers
<1> QED BY <1>13 DEF FutureEmpty

\* A step that records no attempt, and after which no more logins are under way.
LEMMA NobodyRecords ==
    ASSUME Typed, Typed', ChecksBounded, FutureEmpty, UNCHANGED <<attempts, now>>,
           Checkers' \subseteq Checkers
    PROVE  ChecksBounded' /\ FutureEmpty'
<1>1. Checks' = Checks
  BY DEF Checks, Checked
<1> QED BY <1>1, NobodyChecks

\* A request whose password was being checked has its attempt recorded.
LEMMA CheckRecorded ==
    ASSUME Typed, Typed', ChecksBounded, FutureEmpty, UNCHANGED now,
           NEW r \in Requests, r \in Checkers, Checkers' = Checkers \ {r},
           \A t \in Minutes :
              Checks'[t] = IF t = now THEN Checks[t] + 1 ELSE Checks[t],
           \A t \in Minutes : t # now => attempts'[t] = attempts[t]
    PROVE  ChecksBounded' /\ FutureEmpty'
<1>1. PICK S, n : S = InLast(RateWindow) /\ n = now
  OBVIOUS
<1>2. S = InLast(RateWindow)'
  BY <1>1 DEF InLast
<1>3. PICK a, b, g, h : a = CheckedLately /\ b = CheckedLately' /\ g = Checks /\ h = Checks'
  OBVIOUS
<1>4. /\ IsFiniteSet(S) /\ S \subseteq Minutes /\ n \in S /\ g \in [Minutes -> Nat]
      /\ Summed(a, g, S) /\ Summed(b, h, S)
  BY <1>1, <1>2, <1>3, LatelyNow, LatelyNext
<1>5. \A t \in S : g[t] \in Nat /\ h[t] = IF t = n THEN g[t] + 1 ELSE g[t]
  BY <1>1, <1>3, <1>4
<1>6. a \in Nat /\ b = a + 1
  BY <1>4, <1>5, TotalsCount
<1>7. PICK C, D : C = Checkers /\ D = Checkers'
  OBVIOUS
<1>8. C \in SUBSET Requests /\ D \in SUBSET Requests /\ r \in C /\ D = C \ {r}
  BY <1>7 DEF Checkers
<1>9. Cardinality(C) \in Nat /\ Cardinality(D) = Cardinality(C) - 1
  BY <1>8, CheckersCounted
<1>10. a + Cardinality(C) <= Rate + Cardinality(Requests) - 1
  BY <1>3, <1>7 DEF ChecksBounded, CheckedLately, Checkers
<1>11. b + Cardinality(D) = a + Cardinality(C)
  BY <1>6, <1>9
<1>12. b + Cardinality(D) <= Rate + Cardinality(Requests) - 1
  BY <1>10, <1>11
<1>13. ChecksBounded'
  BY <1>3, <1>7, <1>12 DEF ChecksBounded, CheckedLately, Checkers
<1>14. FutureEmpty'
  BY Numbers DEF FutureEmpty, Typed, Minutes
<1> QED BY <1>13, <1>14

\* A minute passes.
LEMMA MinutePasses ==
    ASSUME Typed, Typed', ChecksBounded, FutureEmpty, UNCHANGED <<attempts, req>>, now' = now + 1
    PROVE  ChecksBounded' /\ FutureEmpty'
<1>1. PICK S, T, n : S = InLast(RateWindow) /\ T = InLast(RateWindow)' /\ n = now + 1
  OBVIOUS
<1>2. now \in Nat /\ RateWindow \in Nat /\ n \in Minutes /\ \A t \in Minutes : t \in Nat
  BY <1>1, Numbers DEF Typed, Minutes
<1>3. PICK a, b, g : a = CheckedLately /\ b = CheckedLately' /\ g = Checks
  OBVIOUS
<1>4. g = Checks'
  BY <1>3 DEF Checks, Checked
<1>5. /\ IsFiniteSet(S) /\ S \subseteq Minutes /\ g \in [Minutes -> Nat]
      /\ Summed(a, g, S)
  BY <1>1, <1>3, LatelyNow
<1>6. IsFiniteSet(T) /\ T \subseteq Minutes /\ Summed(b, g, T)
  BY <1>1, <1>3, <1>4, LatelyNext
<1>7. T \subseteq S \cup {n}
  <2> SUFFICES ASSUME NEW t \in T, t # n PROVE t \in S
    OBVIOUS
  <2>1. t \in Minutes /\ t \in Nat /\ t <= now + 1 /\ now + 1 <= t + RateWindow
    BY <1>1, <1>2, <1>6 DEF InLast
  <2>2. t <= now /\ now <= t + RateWindow
    BY <1>1, <1>2, <2>1
  <2> QED BY <1>1, <2>1, <2>2 DEF InLast
<1>8. g[n] = 0
  <2>1. n > now
    BY <1>1, <1>2
  <2>2. attempts[n] = NoAttempts
    BY <1>2, <2>1 DEF FutureEmpty
  <2> QED BY <1>2, <1>3, <2>2 DEF Checks, Checked, NoAttempts
<1>9. \A t \in T : g[t] = IF t = n THEN 0 ELSE g[t]
  BY <1>8
<1>10. \A t \in S : g[t] \in Nat
  BY <1>5
<1>11. a \in Nat /\ b \in Nat /\ b <= a
  BY <1>5, <1>6, <1>7, <1>9, <1>10, TotalsSkip
<1>12. PICK C : C = Checkers /\ C = Checkers'
  BY DEF Checkers
<1>13. Cardinality(C) \in Nat /\ Cardinality(Requests) \in Nat
  <2>1. C \in SUBSET Requests
    BY <1>12 DEF Checkers
  <2> QED BY <2>1, CheckersCounted
<1>14. a + Cardinality(C) <= Rate + Cardinality(Requests) - 1
  BY <1>3, <1>12 DEF ChecksBounded, CheckedLately, Checkers
<1>15. b + Cardinality(C) <= Rate + Cardinality(Requests) - 1
  BY <1>11, <1>13, <1>14, Numbers
<1>16. ChecksBounded'
  BY <1>3, <1>12, <1>15 DEF ChecksBounded, CheckedLately, Checkers
<1>17. FutureEmpty'
  <2>1. \A t \in Minutes : t > now + 1 => t > now
    BY <1>2
  <2> QED BY <2>1 DEF FutureEmpty
<1> QED BY <1>16, <1>17

\* Where fewer attempts than the limit are recorded, whoever else is about to have
\* a password checked, the bound has room for all of them.
LEMMA CheckBegins ==
    ASSUME Typed, Typed', FutureEmpty, UNCHANGED <<attempts, now>>, ~(RecentAttempts >= Rate)
    PROVE  ChecksBounded' /\ FutureEmpty'
<1>1. PICK S : S = InLast(RateWindow)
  OBVIOUS
<1>2. S = InLast(RateWindow)'
  BY <1>1 DEF InLast
<1>3. PICK a, b, g, h : a = RecentAttempts /\ b = CheckedLately' /\ g = Checks' /\ h = Records
  OBVIOUS
<1>4. /\ IsFiniteSet(S) /\ S \subseteq Minutes /\ g \in [Minutes -> Nat] /\ Summed(b, g, S)
      /\ \A t \in Minutes : g[t] = attempts[t].right + attempts[t].wrong
  BY <1>2, <1>3, LatelyNext
<1>5. Summed(a, h, S)
  <2>1. Summed(MapThenSumSet(Recorded, S), Records, S)
    BY <1>4, RecordsSummed
  <2>2. RecentAttempts = MapThenSumSet(Recorded, S)
    BY <1>1 DEF RecentAttempts, MapThenSumSet, MapThenFoldSet
  <2> QED BY <1>3, <2>1, <2>2
<1>6. \A t \in S : g[t] \in Nat /\ h[t] \in Nat /\ g[t] <= h[t]
  <2> SUFFICES ASSUME NEW t \in S PROVE g[t] \in Nat /\ h[t] \in Nat /\ g[t] <= h[t]
    OBVIOUS
  <2>1. t \in Minutes
    BY <1>4
  <2>2. attempts[t].refused \in Nat /\ attempts[t].right \in Nat /\ attempts[t].wrong \in Nat
    BY <2>1 DEF Typed, Counts
  <2>3. h[t] = (attempts[t].right + attempts[t].wrong) + attempts[t].refused
    BY <1>3, <2>1 DEF Records, Recorded, Checked
  <2> QED BY <1>4, <2>1, <2>2, <2>3
<1>7. a \in Nat /\ b \in Nat /\ b <= a
  BY <1>4, <1>5, <1>6, TotalsGrow
<1>8. a < Rate
  BY <1>3, <1>7, Numbers
<1>9. PICK D : D = Checkers'
  OBVIOUS
<1>10. /\ Cardinality(D) \in Nat /\ Cardinality(Requests) \in Nat
       /\ Cardinality(D) <= Cardinality(Requests)
  <2>1. D \in SUBSET Requests
    BY <1>9 DEF Checkers
  <2> QED BY <2>1, CheckersCounted
<1>11. b + Cardinality(D) <= Rate + Cardinality(Requests) - 1
  BY <1>7, <1>8, <1>10, Numbers
<1>12. ChecksBounded'
  BY <1>3, <1>9, <1>11 DEF ChecksBounded, CheckedLately, Checkers
<1> QED BY <1>12 DEF FutureEmpty

-----------------------------------------------------------------------------
\* A handler that goes anywhere but to a password leaves those whose password is
\* being checked.
LEMMA SlotLeaves ==
    ASSUME Typed, NEW r \in Requests, NEW q, req' = [req EXCEPT ![r] = q],
           q.pc \notin {"right", "wrong"}
    PROVE  Checkers' = Checkers \ {r}
BY DEF Typed, Checkers

\* A handler that finishes, or goes where nothing is checked, is under way no more.
LEMMA HandlerLeaves ==
    ASSUME Typed, NEW r \in Requests,
           \/ Finish(r)
           \/ \E pc : pc \notin {"right", "wrong"} /\ (Goto(r, pc) \/ \E copy : GotoWith(r, pc, copy))
           \/ \E kind, pc : pc \notin {"right", "wrong"} /\ Arrive(r, kind, pc)
    PROVE  Checkers' = Checkers \ {r}
<1>0. req[r] \in Slot
  BY DEF Typed
<1>1. CASE Finish(r)
  <2>1. Idle.pc = "idle"
    BY DEF Idle
  <2> QED BY <1>1, <2>1, SlotLeaves DEF Finish
<1>2. ASSUME NEW pc, pc \notin {"right", "wrong"}, NEW copy, GotoWith(r, pc, copy)
      PROVE  Checkers' = Checkers \ {r}
  <2>1. PICK q : q = [req[r] EXCEPT !.pc = pc, !.copy = copy]
    OBVIOUS
  <2>2. q.pc = pc /\ req' = [req EXCEPT ![r] = q]
    BY <1>0, <1>2, <2>1 DEF GotoWith, Slot, Typed
  <2> QED BY <1>2, <2>2, SlotLeaves
<1>3. ASSUME NEW pc, pc \notin {"right", "wrong"}, NEW kind, Arrive(r, kind, pc)
      PROVE  Checkers' = Checkers \ {r}
  <2>1. PICK q : q = [Idle EXCEPT !.kind = kind, !.pc = pc, !.began = now]
    OBVIOUS
  <2>2. q.pc = pc /\ req' = [req EXCEPT ![r] = q]
    BY <1>3, <2>1 DEF Arrive, Idle
  <2> QED BY <1>3, <2>2, SlotLeaves
<1> QED BY <1>1, <1>2, <1>3, GotoPlain

ChecksInv == CacheInv /\ FutureEmpty /\ ChecksBounded

\* Every step keeps the bound,
LEMMA ChecksStep ==
    ASSUME ChecksInv, [Next]_vars
    PROVE  ChecksInv'
<1>0. Typed /\ Typed' /\ CacheInv' /\ FutureEmpty /\ ChecksBounded
  BY StepCache DEF ChecksInv, CacheInv
<1>q. SUFFICES ChecksBounded' /\ FutureEmpty'
  BY <1>0 DEF ChecksInv
\* Those who record nothing and check nothing.
<1>1. ASSUME NEW r \in Requests,
             \/ Attempt(r) \/ ReadBlocks(r) \/ FillCache(r) \/ LookUpBlock(r)
             \/ SaveBlock(r) \/ DropFromCache(r) \/ CountFailures(r)
             \/ AutoBlock(r) \/ ExtendBlock(r) \/ UpdateBlock(r) \/ InsertBlock(r) \/ AddToCache(r)
             \/ CleanExpiredBlocks(r)
      PROVE  ChecksBounded' /\ FutureEmpty'
  <2>1. UNCHANGED <<attempts, now>>
    BY <1>1 DEF Attempt, ReadBlocks, FillCache, LookUpBlock, SaveBlock, DropFromCache,
       CountFailures, AutoBlock, ExtendBlock, UpdateBlock, InsertBlock, AddToCache,
       CleanExpiredBlocks
  <2>2. \/ Finish(r)
        \/ \E pc : pc \notin {"right", "wrong"} /\ (Goto(r, pc) \/ \E copy : GotoWith(r, pc, copy))
        \/ \E kind, pc : pc \notin {"right", "wrong"} /\ Arrive(r, kind, pc)
    <3>1. CASE Attempt(r)
      <4>1. PICK pc : pc = IF Stale THEN "find" ELSE Consult(cached)
        OBVIOUS
      <4>2. pc \notin {"right", "wrong"}
        BY <4>1 DEF Consult
      <4> QED BY <3>1, <4>1, <4>2 DEF Attempt
    <3>2. CASE FillCache(r) \/ DropFromCache(r) \/ LookUpBlock(r)
      <4>1. \A hit : Consult(hit) \notin {"right", "wrong"}
        BY DEF Consult
      <4> QED BY <3>2, <4>1 DEF FillCache, DropFromCache, LookUpBlock
    <3>3. CASE ReadBlocks(r) \/ SaveBlock(r) \/ CountFailures(r) \/ AutoBlock(r)
      BY <3>3 DEF ReadBlocks, SaveBlock, CountFailures, AutoBlock
    <3>4. CASE ExtendBlock(r) \/ UpdateBlock(r) \/ InsertBlock(r) \/ AddToCache(r)
               \/ CleanExpiredBlocks(r)
      BY <3>4 DEF ExtendBlock, UpdateBlock, InsertBlock, AddToCache, CleanExpiredBlocks
    <3> QED BY <1>1, <3>1, <3>2, <3>3, <3>4
  <2>3. Checkers' \subseteq Checkers
    BY <1>0, <2>2, HandlerLeaves
  <2> QED BY <1>0, <2>1, <2>3, NobodyRecords
<1>2. ASSUME NEW r \in Requests, UnblockIp(r) \/ \E term \in Terms : BlockIp(r, term)
      PROVE  ChecksBounded' /\ FutureEmpty'
  <2>1. \E q : req' = [req EXCEPT ![r] = q] /\ q.pc \notin {"right", "wrong"}
    <3>1. CASE UnblockIp(r)
      <4> DEFINE q == [kind |-> "unblock", pc |-> "lapse", copy |-> [row EXCEPT !.active = FALSE],
                       began |-> now]
      <4>1. q.pc = "lapse" /\ req' = [req EXCEPT ![r] = q]
        BY <3>1 DEF UnblockIp
      <4> HIDE DEF q
      <4> QED BY <4>1
    <3>2. ASSUME NEW term \in Terms, BlockIp(r, term)
          PROVE  \E q : req' = [req EXCEPT ![r] = q] /\ q.pc \notin {"right", "wrong"}
      <4> DEFINE q == [kind |-> "block", pc |-> IF Live THEN "update" ELSE "insert",
                       copy |-> NewBlock(term), began |-> now]
      <4>1. q.pc \in {"update", "insert"} /\ req' = [req EXCEPT ![r] = q]
        BY <3>2 DEF BlockIp
      <4> HIDE DEF q
      <4> QED BY <4>1
    <3> QED BY <1>2, <3>1, <3>2
  <2>2. Checkers' \subseteq Checkers
    BY <1>0, <2>1, SlotLeaves
  <2> QED BY <1>0, <1>2, <2>2, NobodyRecords DEF UnblockIp, BlockIp
<1>3. ASSUME NEW r \in Requests, Restart(r)
      PROVE  ChecksBounded' /\ FutureEmpty'
  <2>1. PICK q : q = [Idle EXCEPT !.kind = "boot", !.pc = "find", !.began = now]
    OBVIOUS
  <2>2. q.pc = "find" /\ Idle.pc = "idle"
    BY <2>1 DEF Idle
  <2>3. Checkers' = {}
    BY <1>3, <2>1, <2>2 DEF Restart, Checkers
  <2> QED BY <1>0, <1>3, <2>3, NobodyRecords DEF Restart
<1>4. ASSUME NEW r \in Requests, CountAttempts(r)
      PROVE  ChecksBounded' /\ FutureEmpty'
  <2>1. UNCHANGED <<attempts, now>>
    BY <1>4 DEF CountAttempts
  <2>2. CASE RecentAttempts >= Rate
    <3>1. Checkers' \subseteq Checkers
      BY <1>0, <1>4, <2>2, HandlerLeaves DEF CountAttempts
    <3> QED BY <1>0, <2>1, <3>1, NobodyRecords
  <2>3. CASE ~(RecentAttempts >= Rate)
    BY <1>0, <2>1, <2>3, CheckBegins
  <2> QED BY <2>2, <2>3
<1>5. ASSUME NEW r \in Requests, r \in Checkers, NEW c, c = attempts[now],
             \/ attempts' = [attempts EXCEPT ![now] = [c EXCEPT !.right = c.right + 1]]
             \/ attempts' = [attempts EXCEPT ![now] = [c EXCEPT !.wrong = c.wrong + 1]],
             UNCHANGED now, Finish(r) \/ Goto(r, "failures")
      PROVE  ChecksBounded' /\ FutureEmpty'
  <2>1. Checkers' = Checkers \ {r}
    BY <1>0, <1>5, HandlerLeaves
  <2>2. \A t \in Minutes : t # now => attempts'[t] = attempts[t]
    BY <1>0, <1>5 DEF Typed
  <2>3. c \in Counts /\ now \in Minutes
    BY <1>0, <1>5 DEF Typed
  <2>4. attempts'[now].right + attempts'[now].wrong = (c.right + c.wrong) + 1
    BY <1>0, <1>5, <2>3 DEF Typed, Counts
  <2>5. \A t \in Minutes : Checks'[t] = IF t = now THEN Checks[t] + 1 ELSE Checks[t]
    BY <1>5, <2>2, <2>3, <2>4 DEF Checks, Checked
  <2> QED BY <1>0, <1>5, <2>1, <2>2, <2>5, CheckRecorded
<1>6. ASSUME NEW r \in Requests, RecordSuccess(r)
      PROVE  ChecksBounded' /\ FutureEmpty'
  <2>1. r \in Checkers /\ UNCHANGED now /\ Finish(r)
    BY <1>6 DEF RecordSuccess, At, Checkers
  <2>2. PICK c : c = attempts[now]
    OBVIOUS
  <2>3. attempts' = [attempts EXCEPT ![now] = [c EXCEPT !.right = c.right + 1]]
    BY <1>6, <2>2 DEF RecordSuccess
  <2> QED BY <1>5, <2>1, <2>2, <2>3
<1>7. ASSUME NEW r \in Requests, RecordFailure(r)
      PROVE  ChecksBounded' /\ FutureEmpty'
  <2>1. UNCHANGED now /\ Goto(r, "failures")
    BY <1>7 DEF RecordFailure
  <2>2. PICK c : c = attempts[now]
    OBVIOUS
  <2>3. CASE At(r, "wrong") /\ attempts' = [attempts EXCEPT ![now].wrong = @ + 1]
    <3>1. r \in Checkers
      BY <2>3 DEF At, Checkers
    <3>2. attempts' = [attempts EXCEPT ![now] = [c EXCEPT !.wrong = c.wrong + 1]]
      BY <2>2, <2>3
    <3> QED BY <1>5, <2>1, <2>2, <3>1, <3>2
  <2>4. CASE At(r, "refused") /\ attempts' = [attempts EXCEPT ![now].refused = @ + 1]
    <3>1. Checkers' \subseteq Checkers
      BY <1>0, <2>1, HandlerLeaves
    <3>2. c \in Counts /\ now \in Minutes
      BY <1>0, <2>2 DEF Typed
    <3>3. /\ \A t \in Minutes : t # now => attempts'[t] = attempts[t]
          /\ attempts'[now].right = c.right /\ attempts'[now].wrong = c.wrong
      BY <1>0, <2>2, <2>4, <3>2 DEF Typed, Counts
    <3>4. Checks' = Checks
      BY <2>2, <3>2, <3>3 DEF Checks, Checked
    <3>5. \A t \in Minutes : t > now => attempts'[t] = attempts[t]
      BY <1>0, <3>3, Numbers DEF Typed, Minutes
    <3> QED BY <1>0, <2>1, <3>1, <3>4, <3>5, NobodyChecks
  <2> QED BY <1>7, <2>3, <2>4 DEF RecordFailure
<1>8. CASE Tick
  BY <1>0, <1>8, MinutePasses DEF Tick
<1>9. CASE UNCHANGED vars
  BY <1>0, <1>9, NobodyRecords DEF vars, Checkers
<1> QED BY <1>1, <1>2, <1>3, <1>4, <1>6, <1>7, <1>8, <1>9 DEF Next, AdminBlocks

\* which holds at first.
LEMMA ChecksInit == Init => ChecksInv
<1> SUFFICES ASSUME Init PROVE ChecksInv
  OBVIOUS
<1>1. CacheInv /\ Typed
  BY InitCache DEF CacheInv
<1>2. FutureEmpty
  BY DEF Init, FutureEmpty
<1>3. PICK T, b, g : T = InLast(RateWindow) /\ b = CheckedLately /\ g = Checks
  OBVIOUS
<1>4. IsFiniteSet(T) /\ Summed(b, g, T) /\ \A t \in Minutes : g[t] = 0
  BY <1>1, <1>3, LatelyNow DEF Init, NoAttempts
<1>5. T \subseteq {} \cup {0} /\ T \subseteq Minutes
  BY <1>1, <1>3, Numbers DEF Init, InLast, Minutes
<1>6. IsFiniteSet({}) /\ Summed(0, g, {})
  <2>1. PICK F : Sums(F, g, {})
    BY FS_EmptySet, SumsExist
  <2>2. F[{}] = 0
    BY <2>1, SumOf
  <2> QED BY <2>1, <2>2, FS_EmptySet DEF Summed
<1>7. \A t \in T : g[t] = IF t = 0 THEN 0 ELSE g[t]
  BY <1>4, <1>5
<1>8. b \in Nat /\ b <= 0
  BY <1>4, <1>5, <1>6, <1>7, TotalsSkip
<1>9. Checkers = {}
  BY FirstRows DEF Init, Checkers, Idle
<1>10. Cardinality({}) = 0 /\ Cardinality(Requests) \in Nat /\ Cardinality(Requests) # 0
  <2>1. Requests # {}
    BY DEF Init
  <2> QED BY <2>1, GuardConstants, FS_EmptySet, FS_CardinalityType
<1>11. b + Cardinality({}) <= Rate + Cardinality(Requests) - 1
  BY <1>8, <1>10, Numbers
<1>12. ChecksBounded
  BY <1>3, <1>9, <1>11 DEF ChecksBounded, CheckedLately, Checkers
<1> QED BY <1>1, <1>2, <1>12 DEF ChecksInv

\* However many requests race, no more than one for each of the others gets a
\* password checked beyond the rate limit in any window of time: for all limits,
\* windows and numbers of requests in flight.
THEOREM ChecksStayBounded == Spec => []ChecksBounded
<1>1. ChecksInv => ChecksBounded
  BY DEF ChecksInv
<1> QED BY <1>1, ChecksInit, ChecksStep, PTL DEF Spec
=============================================================================

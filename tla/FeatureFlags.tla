---------------------------- MODULE FeatureFlags ----------------------------
(***************************************************************************)
(* The feature flags: FeatureFlagsService and its controller.              *)
(*                                                                         *)
(* A flag's id is the place of its row in `flags'.  isEnabled asks the     *)
(* database for one flag after the other along dependsOn, which may name a *)
(* flag that does not exist.  All of them are judged for the same roles    *)
(* and store, so `on' stands for isEnabled, enabledForRoles and            *)
(* enabledForStores together, for one such context.                        *)
(***************************************************************************)
EXTENDS Handlers

CONSTANTS
    FlagRows,   \* bound: what administrators write: keys, `on', dependsOn
    MaxFlags    \* bound: rows of the table

VARIABLE flags  \* flags[f] : the row of flag f

NoKey == "no flag"

LiveFlag(f) == f \in DOMAIN flags /\ flags[f].live
Named(key) == {f \in DOMAIN flags : flags[f].live /\ flags[f].key = key}
On(key) == \E f \in Named(key) : flags[f].on
Needs(key) == IF Named(key) = {} THEN NoKey ELSE flags[CHOOSE f \in Named(key) : TRUE].needs

FlagRow(row) == [key |-> row.key, on |-> row.on, needs |-> row.needs, live |-> TRUE]

FlagsInit == flags = <<>>

\* create
CreateFlag(r, row) ==
    /\ Len(flags) + Pending({"flag.insert"}) < MaxFlags
    /\ Named(row.key) = {}
    /\ Receive(r, "flag.insert", [row |-> row])
    /\ UNCHANGED flags

\* The key is unique.
InsertFlag(r) ==
    LET row == My(r).row
    IN  /\ Awaits(r, "flag.insert")
        /\ flags' = IF Named(row.key) = {} THEN Append(flags, FlagRow(row)) ELSE flags
        /\ Answer(r)

\* update
UpdateFlag(r, f, row) ==
    /\ LiveFlag(f)
    /\ Receive(r, IF row.key = flags[f].key THEN "flag.save" ELSE "flag.taken",
               [id |-> f, row |-> row])
    /\ UNCHANGED flags

FindTaken(r) ==
    /\ Awaits(r, "flag.taken")
    /\ Demand(r, Named(My(r).row.key) = {}, "flag.save")
    /\ UNCHANGED flags

\* save inserts a row that is gone.
SaveFlag(r) ==
    LET my == My(r)
    IN  /\ Awaits(r, "flag.save")
        /\ flags' = IF Named(my.row.key) \subseteq {my.id}
                    THEN [flags EXCEPT ![my.id] = FlagRow(my.row)] ELSE flags
        /\ Answer(r)

\* remove
RemoveFlag(r, f) ==
    /\ LiveFlag(f)
    /\ Receive(r, "flag.remove", [id |-> f])
    /\ UNCHANGED flags

DropFlag(r) ==
    /\ Awaits(r, "flag.remove")
    /\ flags' = [flags EXCEPT ![My(r).id].live = FALSE]
    /\ Answer(r)

\* isEnabled, for a key: the place that the answer of the database leads to.
AfterFlag(key) == IF On(key) /\ Needs(key) # NoKey THEN "flag.find" ELSE "flag.answer"
Found(asked, key) == [asked |-> asked, next |-> Needs(key), enabled |-> On(key)]

CheckFlag(r, key) ==
    /\ Receive(r, AfterFlag(key), Found(key, key))
    /\ UNCHANGED flags

\* Mutant: a flag that does not exist is no obstacle to those that need it.
FindFlag_Lenient(r) ==
    LET my == My(r)
    IN  /\ Awaits(r, "flag.find")
        /\ Await(r, AfterFlag(my.next),
                 [Found(my.asked, my.next) EXCEPT !.enabled = @ \/ Named(my.next) = {}])
        /\ UNCHANGED flags

\* Mutant: the recursion starts from the key that was asked for again.
FindFlag_Again(r) ==
    LET my == My(r)
    IN  /\ Awaits(r, "flag.find")
        /\ Await(r, AfterFlag(my.asked), Found(my.asked, my.asked))
        /\ UNCHANGED flags

\* The flag that the one before depends on.
FindFlag(r) ==
    LET my == My(r)
    IN  /\ Awaits(r, "flag.find")
        /\ Await(r, AfterFlag(my.next), Found(my.asked, my.next))
        /\ UNCHANGED flags

\* The answer goes back through the recursion to the route or to the guard.
AnswerCheck(r) ==
    /\ Awaits(r, "flag.answer")
    /\ Answer(r)
    /\ UNCHANGED flags

FlagCalls(r) ==
    \/ InsertFlag(r) \/ FindTaken(r) \/ SaveFlag(r) \/ DropFlag(r)
    \/ FindFlag(r) \/ AnswerCheck(r)

FlagsNext(r) ==
    \/ \E row \in FlagRows : CreateFlag(r, row)
    \/ \E row \in FlagRows, f \in DOMAIN flags : UpdateFlag(r, f, row)
    \/ \E f \in DOMAIN flags : RemoveFlag(r, f)
    \/ \E key \in {row.key : row \in FlagRows} : CheckFlag(r, key)
    \/ FlagCalls(r)

\* The flags on their own.
FlagsSpec == HandlersInit /\ FlagsInit /\ [][\E r \in Slots : FlagsNext(r)]_<<calls, flags>>

-----------------------------------------------------------------------------
FlagKeys == {row.key : row \in FlagRows} \cup ({row.needs : row \in FlagRows} \ {NoKey})

\* The flag of this key and all flags that it depends on, directly or not.
Chain(key) ==
    {k \in FlagKeys :
        \A closed \in SUBSET FlagKeys :
            key \in closed /\ (\A c \in closed : Needs(c) \in closed \cup {NoKey}) => k \in closed}

\* "debe estar habilitado para que este funcione": a check that nobody disturbs
\* says yes exactly if the flag and all that it depends on are there and on.
FlagsAnswered ==
    \A r \in Slots :
        Awaits(r, "flag.answer") /\ calls[r].alone
        => (My(r).enabled <=> \A k \in Chain(My(r).asked) : On(k))

\* Flags that are on and need each other.
FlagCircle ==
    \E ring \in (SUBSET FlagKeys) \ {{}} : \A k \in ring : On(k) /\ Needs(k) \in ring
=============================================================================

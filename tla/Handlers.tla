------------------------------ MODULE Handlers ------------------------------
(***************************************************************************)
(* Handlers of services that share no table with the ones that module      *)
(* Requests serves.                                                        *)
(*                                                                         *)
(* A handler runs alone up to its next await.  `at' is the call it is      *)
(* about to make and `my' its local variables meanwhile.  `alone' is a     *)
(* history variable that no guard reads: it is TRUE while no other handler *)
(* has made a call since this one began.                                   *)
(***************************************************************************)
EXTENDS Naturals, Sequences, FiniteSets

CONSTANT Slots  \* handlers that can be between two awaits at the same time

\* A process has a handler, and no more than its memory holds.
ASSUME SlotsAssumption == IsFiniteSet(Slots) /\ Slots # {}

VARIABLE calls  \* calls[r] : the handler in slot r

Free == [at |-> "free", alone |-> TRUE, my |-> <<>>]

InFlight(r) == calls[r].at # "free"
Awaits(r, call) == calls[r].at = call
My(r) == calls[r].my

Overlapped(s) == IF InFlight(s) THEN [calls[s] EXCEPT !.alone = FALSE] ELSE calls[s]

\* A request arrives; its handler goes up to the given call.
Receive(r, call, locals) ==
    /\ ~InFlight(r)
    /\ calls' = [s \in Slots |->
                  IF s = r THEN [at |-> call, my |-> locals,
                                 alone |-> \A t \in Slots : ~InFlight(t)]
                           ELSE Overlapped(s)]

\* A handler of one call: it comes and goes between two steps of the others.
AtOnce == calls' = [s \in Slots |-> Overlapped(s)]

Await(r, call, locals) == calls' = [calls EXCEPT ![r].at = call, ![r].my = locals]
AwaitNext(r, call) == calls' = [calls EXCEPT ![r].at = call]

\* The handler answers, with a result or with an exception.
Answer(r) == calls' = [calls EXCEPT ![r] = Free]

\* A check of the handler: go on, or throw.
Demand(r, ok, call) == IF ok THEN AwaitNext(r, call) ELSE Answer(r)

Pending(places) == Cardinality({r \in Slots : calls[r].at \in places})

HandlersInit == calls = [r \in Slots |-> Free]

\* Some handler has overlapped with another one.
Raced == \E r \in Slots : InFlight(r) /\ ~calls[r].alone
=============================================================================

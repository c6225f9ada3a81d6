------------------------------ MODULE Requests ------------------------------
(***************************************************************************)
(* The in-flight HTTP requests of the backend.                             *)
(*                                                                         *)
(* A NestJS handler runs alone up to its next await; while it waits for    *)
(* the database other handlers run.  A request is therefore a small        *)
(* process: `pc' is the database call it is about to make, the other       *)
(* fields are what the handler holds in its local variables meanwhile.     *)
(* Requests is the set of slots, i.e. the number of requests that can be   *)
(* between two awaits at the same time.                                    *)
(***************************************************************************)
EXTENDS Naturals, Sequences

CONSTANTS
    Requests,   \* slots for requests in flight
    Endpoints,  \* bound: the endpoints that clients call
    None        \* the SQL NULL / JavaScript undefined of a field

VARIABLE req    \* req[r] : the request in slot r

\* A free slot.  by: the authenticated user (or, inside accept, the inviter
\* on whose behalf addMember is called); user, org, proj, role, projRole: the
\* parameters; row: the primary key of a membership row that was read; inv:
\* an invitation's id; copy: an entity that was read; ret: where the handler
\* goes on after a service call it made, "idle" when that call was its last.
Idle == [pc |-> "idle", by |-> None, user |-> None, org |-> None,
         proj |-> None, role |-> None, projRole |-> None, row |-> 0,
         inv |-> None, copy |-> None, ret |-> <<>>]

At(r, pc) == req[r].pc = pc

\* The slot takes a new request.
Begin(r, request) == req' = [req EXCEPT ![r] = request]

\* The handler awaits its next database call.
Goto(r, pc) == req' = [req EXCEPT ![r].pc = pc]

\* The handler answers, with a result or with an exception.
Finish(r) == req' = [req EXCEPT ![r] = Idle]

\* A check of the handler: go on, or throw.
Check(r, ok, pc) == IF ok THEN Goto(r, pc) ELSE Finish(r)

\* A service method returns to the handler that called it.
Return(r) ==
    IF req[r].ret = <<>>
    THEN Finish(r)
    ELSE req' = [req EXCEPT ![r].pc = Head(req[r].ret), ![r].ret = Tail(req[r].ret)]
=============================================================================

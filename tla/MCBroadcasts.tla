---------------------------- MODULE MCBroadcasts ----------------------------
(***************************************************************************)
(* The lists of recipients for TLC: nobody, and two users in this order.   *)
(***************************************************************************)
EXTENDS Broadcasts

CONSTANTS u1, u2

Lists == {<<>>, <<u1, u2>>}
=============================================================================

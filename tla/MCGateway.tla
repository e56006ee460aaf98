----------------------------- MODULE MCGateway -----------------------------
(***************************************************************************)
(* Model values for Gateway: three requests and one slot, so that one      *)
(* request connects, one waits at the head of the queue and one behind it. *)
(***************************************************************************)
EXTENDS Gateway

CONSTANTS r1, r2, r3

MCRequests == {r1, r2, r3}
=============================================================================

---------------------------- MODULE MCListEvents ----------------------------
(* The event publisher for TLC: a queue of one, for three requests. *)
EXTENDS ListEvents

CONSTANTS r1, r2, r3

MCRequests == {r1, r2, r3}
=============================================================================

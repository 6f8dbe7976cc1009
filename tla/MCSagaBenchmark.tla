--------------------------- MODULE MCSagaBenchmark ---------------------------
(* The benchmark for TLC. *)
EXTENDS SagaBenchmark

CONSTANTS u1, s1
=============================================================================

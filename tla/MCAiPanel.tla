------------------------------ MODULE MCAiPanel ------------------------------
(* The panel and ai-service for TLC. *)
EXTENDS AiPanel

CONSTANTS j1, j2, c1, c2, p1, p2

MCJobs == {j1, j2}
MCChildren == {c1, c2}
MCPolls == {p1, p2}
=============================================================================

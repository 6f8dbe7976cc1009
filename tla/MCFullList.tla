----------------------------- MODULE MCFullList -----------------------------
(* The readers and writers of list_db for TLC. *)
EXTENDS FullList, TLC

CONSTANTS u1, u2, s1, s2, i1, i2, i3, n1

MCUserIds == {u1, u2}
MCSections == {s1, s2}
MCItems == {i1, i2, i3}
MCNames == {n1}
Interchangeable == Permutations(MCUserIds) \cup Permutations(MCSections) \cup Permutations(MCItems)
=============================================================================

----------------------------- MODULE MCListPage -----------------------------
(* The list page for TLC: one user, two names, two requests at a time. *)
EXTENDS ListPage, TLC

CONSTANTS u1, s1, i1, p1, p2, n1, n2

MCSlots == {p1, p2}
MCNames == {n1, n2}
SlotSymmetry == Permutations(MCSlots)
=============================================================================

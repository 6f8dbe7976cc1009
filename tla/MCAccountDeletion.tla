-------------------------- MODULE MCAccountDeletion --------------------------
(* The whole stack for TLC: one user, who has an address of their own. *)
EXTENDS AccountDeletion

CONSTANTS u1, r1, s1, s2, i1, n1

MCUserIds == {u1}
OwnEmail == [u \in UserIds |-> u]
MCRequests == {r1}
OneSection == {s1}
TwoSections == {s1, s2}
MCItems == {i1}
MCNames == {n1}
=============================================================================

---------------------------- MODULE MCUserService ----------------------------
(* user-service for TLC: two ids that register the same e-mail address. *)
EXTENDS UserService

CONSTANTS u1, u2, r1, r2, email

MCUserIds == {u1, u2}
MCEmailOf == [u \in MCUserIds |-> email]
MCRequests == {r1, r2}
=============================================================================

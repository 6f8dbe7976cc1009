--------------------------- MODULE DeletionPromise ---------------------------
(***************************************************************************)
(* What deleting an account promises, with neither services nor queues: a  *)
(* user's sections disappear from the lists only one at a time, by the     *)
(* user's own hand, or all at once after the account was deleted, and      *)
(* after it was deleted they do all disappear.  A client that still holds  *)
(* a token may go on writing for a while.                                  *)
(***************************************************************************)
CONSTANTS
  UserIds,
  SectionIds

VARIABLES
  account,  \* unused, live, deleted
  visible   \* the sections each user would be shown

promiseVars == <<account, visible>>

PromiseInit ==
  /\ account = [u \in UserIds |-> "unused"]
  /\ visible = [u \in UserIds |-> {}]

Open(u) ==
  /\ account[u] = "unused"
  /\ account' = [account EXCEPT ![u] = "live"]
  /\ UNCHANGED visible

Close(u) ==
  /\ account[u] = "live"
  /\ account' = [account EXCEPT ![u] = "deleted"]
  /\ UNCHANGED visible

Add(u, s) ==
  /\ account[u] # "unused"
  /\ \A v \in UserIds : s \notin visible[v]
  /\ visible' = [visible EXCEPT ![u] = @ \cup {s}]
  /\ UNCHANGED account

Remove(u, s) ==
  /\ s \in visible[u]
  /\ visible' = [visible EXCEPT ![u] = @ \ {s}]
  /\ UNCHANGED account

Purge(u) ==
  /\ account[u] = "deleted"
  /\ visible[u] # {}
  /\ visible' = [visible EXCEPT ![u] = {}]
  /\ UNCHANGED account

PromiseNext ==
  \E u \in UserIds :
    \/ Open(u) \/ Close(u) \/ Purge(u)
    \/ \E s \in SectionIds : Add(u, s) \/ Remove(u, s)

(* The safety half and the whole promise. *)
PromiseSpec == PromiseInit /\ [][PromiseNext]_promiseVars

PromiseFairSpec == PromiseSpec /\ \A u \in UserIds : WF_promiseVars(Purge(u))
=============================================================================

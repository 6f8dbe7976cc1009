----------------------------- MODULE LossyFifo -----------------------------
(***************************************************************************)
(* What list-service's event publisher promises whoever binds a queue to   *)
(* the exchange "list": events arrive in the order in which the handlers   *)
(* handed them over, each at most once, but a run of them may be lost.     *)
(***************************************************************************)
EXTENDS Naturals, Sequences

CONSTANT Events

VARIABLES
  accepted,  \* events handed over so far
  pending,   \* those under way
  received   \* what the exchange got

fifoVars == <<accepted, pending, received>>

FifoInit ==
  /\ accepted = {}
  /\ pending = <<>>
  /\ received = <<>>

Accept(e) ==
  /\ e \notin accepted
  /\ accepted' = accepted \cup {e}
  /\ pending' = Append(pending, e)
  /\ UNCHANGED received

Deliver ==
  /\ pending # <<>>
  /\ received' = Append(received, Head(pending))
  /\ pending' = Tail(pending)
  /\ UNCHANGED accepted

(* Everything after the first i and before the last k is lost. *)
Lose(i, k) ==
  /\ pending' = SubSeq(pending, 1, i) \o SubSeq(pending, Len(pending) - k + 1, Len(pending))
  /\ UNCHANGED <<accepted, received>>

FifoNext ==
  \/ \E e \in Events : Accept(e)
  \/ Deliver
  \/ \E i, k \in 0..Len(pending) : i + k <= Len(pending) /\ Lose(i, k)

FifoSpec == FifoInit /\ [][FifoNext]_fifoVars
=============================================================================

------------------------------- MODULE Faults -------------------------------
(***************************************************************************)
(* A finite budget of environment faults, shared by the modules that model *)
(* the services.  A run names the kinds of fault it admits; once the       *)
(* budget is spent the environment behaves, which is what "eventually"     *)
(* means in the liveness properties.                                       *)
(***************************************************************************)
EXTENDS Naturals

CONSTANTS
  MaxFaults,   \* bound: how many faults a behaviour may contain
  FaultKinds   \* the kinds of fault a run admits

ASSUME MaxFaultsAssumption == MaxFaults \in Nat

VARIABLE faults

FaultsInit == faults = 0

(* One fault of kind k happens in this step. *)
Fault(k) ==
  /\ k \in FaultKinds
  /\ faults < MaxFaults
  /\ faults' = faults + 1

NoFault == UNCHANGED faults
=============================================================================

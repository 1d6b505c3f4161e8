-------------------------------- MODULE Faults ---------------------------------
(***************************************************************************)
(* A budget of faults, shared by every component of a composed model.  A   *)
(* component takes an error path of the code only through Fault(kind).     *)
(***************************************************************************)
EXTENDS Integers

CONSTANTS
  FaultKinds,   \* the kinds of fault that may happen
  MaxFaults     \* how many may happen in a behaviour

VARIABLE faults \* how many have happened

FaultsTypeOK == faults \in Nat

FaultsInit == faults = 0

Fault(kind) ==
  /\ kind \in FaultKinds
  /\ faults < MaxFaults
  /\ faults' = faults + 1

NoFault == UNCHANGED faults
================================================================================

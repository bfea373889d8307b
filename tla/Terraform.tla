------------------------------ MODULE Terraform ------------------------------
(***************************************************************************)
(* What Limits, Autoscale and RolePermission have in common, whose proofs  *)
(* stand in one module: the configuration, the Terraform state, the        *)
(* handlers, and the faults the environment may inject.  A race is a       *)
(* change by somebody else in the middle of a run.                         *)
(***************************************************************************)
EXTENDS Naturals

CONSTANTS Faults,      \* which faults the environment may inject
          MaxFaults,   \* bound: how many of them
          MaxChanges   \* bound: how often the user edits the configuration, or imports

FaultKinds == {"apiError", "lostReply", "crash", "outOfBand", "race"}

ASSUME EnvironmentAssumption ==
  Faults \subseteq FaultKinds /\ MaxFaults \in Nat /\ MaxChanges \in Nat

VARIABLES config,    \* what the user wants
          saved,     \* the Terraform state
          h,         \* the running handlers: the step each is at, its data
          faults,    \* the faults injected so far: [number, kinds]
          changes    \* edits and imports made so far

Fault(k) ==
  /\ k \in Faults /\ faults.number < MaxFaults
  /\ faults' = [number |-> faults.number + 1, kinds |-> faults.kinds \cup {k}]
NoFault == UNCHANGED faults
=============================================================================

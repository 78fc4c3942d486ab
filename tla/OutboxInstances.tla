-------------------------- MODULE OutboxInstances --------------------------
(***************************************************************************)
(* What the two outboxes share: instances of Track over one database, and  *)
(* the faults that happen to them.  A fault is an instance that stops at   *)
(* any point (a crash, or a shutdown that closes the pool under a running  *)
(* send) or a statement the database fails.                                *)
(***************************************************************************)
EXTENDS Naturals, FiniteSets, Functions

CONSTANTS
    Instances,
    Events,        \* events of the issue handler, each an assignment
    MaxFaults      \* bound: stopped instances and failed statements

ASSUME FaultsBounded == MaxFaults \in Nat

VARIABLE faults

Fault == faults < MaxFaults /\ faults' = faults + 1

\* A statement that works, or that fails and leaves its table as it was.
Ok == UNCHANGED faults
=============================================================================

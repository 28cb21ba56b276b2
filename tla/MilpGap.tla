------------------------------ MODULE MilpGap -------------------------------
(* The relative objective tolerance solve_milp prunes and accepts by. *)
EXTENDS Integers

CONSTANT ObjectiveTolerance  \* options.objective_tolerance

ASSUME ToleranceAssumption == ObjectiveTolerance \in Nat

Abs(v) == IF v < 0 THEN -v ELSE v

\* A candidate must beat this value to replace an incumbent of value v, and a
\* node whose bound reaches it is pruned.
Threshold(v) == v - ObjectiveTolerance * (1 + Abs(v))

=============================================================================

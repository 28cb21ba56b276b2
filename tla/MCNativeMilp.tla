---------------------------- MODULE MCNativeMilp ----------------------------
(* Small instances of NativeMilp for TLC. *)
EXTENDS NativeMilp

CONSTANTS x, y

MCColumns == {x, y}

Point(a, b) == [j \in MCColumns |-> IF j = x THEN a ELSE b]

\* A box of six integral points, three of them feasible.
MCLower == Point(0, 0)
MCUpper == Point(2, 1)
MCFeasible == {Point(0, 1), Point(1, 1), Point(2, 0)}

\* The objectives of a minimization whose optimum is negative, as a
\* knapsack's is.
MCObjective ==
    [p \in MCFeasible |-> CASE p[x] = 0 -> -1 [] p[x] = 1 -> -2 [] p[x] = 2 -> -4]

MCBounds == {-4, -2, -1}

\* The model, and an integer-infeasible one whose relaxation is feasible.
MCModels == {MCFeasible, {}}
MCModel == {MCFeasible}

=============================================================================

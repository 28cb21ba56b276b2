-------------------------- MODULE MCBranchAndBound --------------------------
(* Small instances of BranchAndBound for TLC. *)
EXTENDS BranchAndBound

CONSTANTS x, y

MCColumns == {x, y}

Point(a, b) == [j \in MCColumns |-> IF j = x THEN a ELSE b]

\* A box of six integral points: the best of them is the only one at x = 2.
MCLower == Point(0, 0)
MCUpper == Point(2, 1)
MCFeasible == {Point(0, 1), Point(1, 1), Point(2, 0)}
MCObjective ==
    [p \in MCFeasible |-> CASE p[x] = 0 -> 3 [] p[x] = 1 -> 2 [] p[x] = 2 -> 1]

\* Objectives within one tolerance of each other: with a tolerance of 1, -2
\* improves 1 but -5 does not improve -2.
MCNear ==
    [p \in MCFeasible |-> CASE p[x] = 0 -> 1 [] p[x] = 1 -> -2 [] p[x] = 2 -> -5]

MCBounds == 0 .. 3
MCNearBounds == {-6, -5, -2, 1}

=============================================================================

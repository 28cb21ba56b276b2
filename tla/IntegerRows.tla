----------------------------- MODULE IntegerRows -----------------------------
(***************************************************************************)
(* Integer rows and boxes, the data solve_milp and sk_milp_solve reason    *)
(* about before they ask an LP: a row is A x + s = rhs with bounds on the  *)
(* slack s, a box bounds every column, and a column is integer or          *)
(* continuous.  Points and bounds are counted in halves, coefficients in   *)
(* halves, right-hand sides and activities in quarters, so that a          *)
(* relaxation may be fractional and every sum is exact.                    *)
(***************************************************************************)
EXTENDS Sums, Sequences

CONSTANTS
    Columns,      \* 1..n, in the order of the matrix
    Inf,          \* an infinite bound or side
    Horizon,      \* the half-steps from zero within which points are told apart
    ExactLimit,   \* kExactIntegerLimit: the largest integer a double counts to
    MaxCuts,      \* the cuts one separator may return
    MaxRounds,    \* the rounds of one call of milp_propagate
    MaxDepth,     \* the branchings followed below the root
    Problems      \* models: [rows, integer, lower, upper, objectives]

ASSUME IntegerRowsAssumption ==
    /\ IsFiniteSet(Columns) /\ Columns # {} /\ Columns = 1 .. Cardinality(Columns)
    /\ \A n \in {Inf, Horizon, ExactLimit, MaxCuts, MaxRounds} : n \in Nat \ {0}
    /\ Horizon < Inf
    /\ MaxDepth \in Nat

RowType == [a : [Columns -> Int], type : {"L", "G", "E"}, rhs : Int, sLo : Int, sHi : Int]

ASSUME ProblemsAssumption ==
    \A p \in Problems :
        /\ p.rows \in Seq(RowType) /\ p.integer \subseteq Columns
        /\ p.lower \in [Columns -> Int] /\ p.upper \in [Columns -> Int]
        /\ p.objectives \subseteq [Columns -> Int]

VARIABLES
    problem,      \* the caller's model, never written
    solver,       \* "solve_milp" or "sk_milp_solve"
    stage,        \* the step the node in hand has reached
    depth, node,  \* its depth and the box its branchings give it
    lower, upper, \* the bounds as tightened so far
    rhs,          \* workspace.rhs, row by row
    cuts,         \* the rows appended to the workspace
    separated,    \* root_cuts_separated
    cursor, pass, changed,  \* the loops of the propagators
    acts,         \* amin, amax and their infinite counts, of a native round
    x             \* the last relaxation's point

vars == <<problem, solver, stage, depth, node, lower, upper, rhs, cuts,
          separated, cursor, pass, changed, acts, x>>

Abs(n) == IF n < 0 THEN -n ELSE n
Least(a, b) == IF a < b THEN a ELSE b
Greatest(a, b) == IF a > b THEN a ELSE b
Finite(n) == Abs(n) < Inf

\* Quotients rounded down and up, for a divisor of either sign.
FloorDiv(n, d) == IF d > 0 THEN n \div d ELSE (-n) \div (-d)
CeilDiv(n, d) == -FloorDiv(-n, d)

Rows == problem.rows
Terms(r) == {j \in Columns : r.a[j] # 0}
Activity(r, p) == Sum([j \in Columns |-> r.a[j] * p[j]], Columns)

\* The two sides the slack bounds leave to the activity.
RowLow(r) == IF Finite(r.sHi) THEN r.rhs - r.sHi ELSE -Inf
RowHigh(r) == IF Finite(r.sLo) THEN r.rhs - r.sLo ELSE Inf
Holds(r, p) ==
    /\ Finite(r.sHi) => Activity(r, p) >= RowLow(r)
    /\ Finite(r.sLo) => Activity(r, p) <= RowHigh(r)

\* A row as the workspace holds it: its right-hand side may have been rounded.
Held(i) == [Rows[i] EXCEPT !.rhs = rhs[i]]

InBox(p, lo, hi) == \A j \in Columns : lo[j] <= p[j] /\ p[j] <= hi[j]

\* The integer points of every model, told apart within the horizon.
Grid == [Columns -> -Horizon .. Horizon]
Points ==
    [q \in Problems |->
        {p \in Grid : /\ InBox(p, q.lower, q.upper)
                      /\ \A j \in q.integer : p[j] % 2 = 0
                      /\ \A i \in DOMAIN q.rows : Holds(q.rows[i], p)}]
NodePoints == {p \in Points[problem] : InBox(p, node.lower, node.upper)}

\* The half-step points of the relaxation in hand.
Relaxed ==
    {p \in Grid : /\ InBox(p, lower, upper)
                  /\ \A i \in DOMAIN Rows : Holds(Held(i), p)
                  /\ \A c \in cuts : Holds(c.row, p)}
Value(o, p) == Sum([j \in Columns |-> o[j] * p[j]], Columns)

\* Bounds of integer columns rounded inward to whole numbers.
InwardLower(b) ==
    [j \in Columns |-> IF j \in problem.integer /\ Finite(b[j]) THEN 2 * CeilDiv(b[j], 2)
                       ELSE b[j]]
InwardUpper(b) ==
    [j \in Columns |-> IF j \in problem.integer /\ Finite(b[j]) THEN 2 * FloorDiv(b[j], 2)
                       ELSE b[j]]
Crossed(lo, hi) == \E j \in Columns : lo[j] > hi[j]

\* A cut, and the separator it came from.
Cut(from, a, type, b) ==
    [from |-> from,
     row |-> [a |-> a, type |-> type, rhs |-> b,
              sLo |-> IF type = "L" THEN 0 ELSE -Inf,
              sHi |-> IF type = "L" THEN Inf ELSE 0]]

Weight(r, C) == Sum([j \in Columns |-> 2 * r.a[j]], C)
CoverCut(C) ==
    Cut("cover", [j \in Columns |-> IF j \in C THEN 2 ELSE 0], "L",
        4 * (Cardinality(C) - 1))

\* The first cuts of a numbered family, up to the limit; a cut found again
\* does not count.
FirstCuts(found) ==
    LET earlier(k) == {found[h] : h \in {g \in DOMAIN found : g < k}}
    IN  {found[k] : k \in {h \in DOMAIN found : Cardinality(earlier(h)) < MaxCuts}}

\* Branching on a fractional integer column of x: the box of either child.
Fractional == {j \in problem.integer : x[j] % 2 # 0}
Down(j) == [node EXCEPT !.upper[j] = Least(@, x[j] - 1)]
Up(j) == [node EXCEPT !.lower[j] = Greatest(@, x[j] + 1)]

-----------------------------------------------------------------------------
\* Types, and the limit on the cuts each separator gives.
RowsTypeOK ==
    /\ problem \in Problems
    /\ solver \in {"solve_milp", "sk_milp_solve"}
    /\ depth \in 0 .. MaxDepth /\ pass \in 0 .. Greatest(8, MaxRounds) /\ changed \in BOOLEAN
    /\ separated \in BOOLEAN
    /\ cursor \in 1 .. Len(Rows) + Cardinality(Columns) + 1
    /\ DOMAIN lower = Columns /\ DOMAIN upper = Columns
    /\ DOMAIN rhs = DOMAIN Rows
    /\ \A f \in {"cover", "rounding", "floor"} :
           Cardinality({c \in cuts : c.from = f}) <= MaxCuts

\* A point of the model is never cut off by a bound derived in the node whose
\* branchings it satisfies.
BoxKeepsNodePoints ==
    stage \notin {"enter", "pruned"} =>
        \A p \in NodePoints : InBox(p, lower, upper)

\* The rows of the workspace outlive the node that rounded them: they hold of
\* every integer point of the model, whichever node they were rounded in.
RowsKeepEveryPoint ==
    \A p \in Points[problem], i \in DOMAIN Rows : Holds(Held(i), p)

\* A cut holds of every integer point of the model, not only of those of the
\* node it was separated in.  Coefficient-floor cuts are judged where the
\* columns have nonnegative lower bounds; see FloorCutsKeepEveryPoint.
CutsKeepEveryPoint ==
    \A c \in cuts :
        (c.from = "floor" => \A j \in Columns : problem.lower[j] >= 0) =>
            \A p \in Points[problem] : Holds(c.row, p)

\* MilpSolver.cpp:943-951 and milp_optional_coefficient_rounding_cut_is_valid:
\* flooring the coefficients of a row is validity-preserving.
FloorCutsKeepEveryPoint ==
    \A c \in cuts : c.from = "floor" =>
        \A p \in Points[problem] : Holds(c.row, p)

\* A node dropped by row reasoning alone holds no integer point.
PruneIsProven == stage = "pruned" => NodePoints = {}

\* What propagation does to a node in place: neither its bounds nor its end may
\* cost it a point.
NodeKeepsItsPoints == RowsTypeOK /\ BoxKeepsNodePoints /\ PruneIsProven

\* What outlives the node, rounded right-hand sides and appended cuts, is valid
\* for the whole model.
WorkspaceKeepsEveryPoint == RowsKeepEveryPoint /\ CutsKeepEveryPoint
=============================================================================

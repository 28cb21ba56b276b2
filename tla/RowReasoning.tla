---------------------------- MODULE RowReasoning ----------------------------
(***************************************************************************)
(* What solve_milp concludes from single rows (MilpSolver.cpp): bounds     *)
(* propagated from integer equalities and inequalities, equalities refuted *)
(* by the gcd of their coefficients, right-hand sides rounded to the       *)
(* lattice, and the cover, rounding and coefficient-floor cuts separated   *)
(* at the root.  Every node passes through these steps in this order.      *)
(***************************************************************************)
EXTENDS IntegerRows

\* Doubles beyond kExactIntegerLimit count in twos: an odd sum is rounded to
\* its neighbour with the even significand.
Rounded(n) ==
    IF Abs(n) <= ExactLimit \/ n % 2 = 0 THEN n
    ELSE IF (n \div 2) % 2 = 0 THEN n - 1 ELSE n + 1
RoundedSum(f) ==
    LET sum[k \in {0} \cup Columns] ==
            IF k = 0 THEN 0 ELSE Rounded(sum[k - 1] + Rounded(f[k]))
    IN  sum[Cardinality(Columns)]

ExactInteger(n, unit) == Finite(n) /\ n % unit = 0 /\ Abs(n) <= unit * ExactLimit

\* Rows over integer columns with integer coefficients.
Lattice(r) == \A j \in Terms(r) : j \in problem.integer /\ ExactInteger(r.a[j], 2)
Equation(r) == r.type = "E" /\ r.sLo = 0 /\ r.sHi = 0
Gcd(r) ==
    LET sizes == {Abs(r.a[j]) \div 2 : j \in Terms(r)}
    IN  Max({d \in 1 .. Max(sizes) : \A s \in sizes : s % d = 0})

\* Rows whose other side the slack leaves open.
OneSided(r) == \/ r.type = "L" /\ ~Finite(r.sHi)
               \/ r.type = "G" /\ ~Finite(r.sLo)
Endpoint(r) == IF r.type = "L" THEN r.sLo ELSE r.sHi

-----------------------------------------------------------------------------
(* propagate_integer_equality_bounds, one row. *)

\* The two ends of a term, in units.
Ends(r, j) == <<(r.a[j] \div 2) * (lower[j] \div 2), (r.a[j] \div 2) * (upper[j] \div 2)>>
LeastEnd(r, j) == Least(Ends(r, j)[1], Ends(r, j)[2])
GreatestEnd(r, j) == Greatest(Ends(r, j)[1], Ends(r, j)[2])
Magnitude(r, j) == Greatest(Abs(Ends(r, j)[1]), Abs(Ends(r, j)[2]))

\* Mutant: sums past the exact limit are trusted.
BudgetIgnored(r) == TRUE

\* The products and the sums of the row stay exact.
WithinBudget(r) ==
    Abs(r.rhs) \div 4 + Sum([j \in Columns |-> Magnitude(r, j)], Terms(r))
        <= ExactLimit

EqualityApplies(r) ==
    /\ Equation(r) /\ Lattice(r) /\ ExactInteger(r.rhs, 4) /\ Terms(r) # {}
    /\ \A j \in Terms(r) : ExactInteger(lower[j], 2) /\ ExactInteger(upper[j], 2)
    /\ WithinBudget(r)

\* The bounds the row leaves to column j once the others took their extremes.
EqualityBounds(r, j) ==
    LET least == RoundedSum([k \in Columns |-> LeastEnd(r, k)])
        most == RoundedSum([k \in Columns |-> GreatestEnd(r, k)])
        a == r.a[j] \div 2
        fromMost == (r.rhs \div 4) - Rounded(most - GreatestEnd(r, j))
        fromLeast == (r.rhs \div 4) - Rounded(least - LeastEnd(r, j))
    IN  IF a > 0
        THEN [lo |-> 2 * CeilDiv(fromMost, a), hi |-> 2 * FloorDiv(fromLeast, a)]
        ELSE [lo |-> 2 * CeilDiv(fromLeast, a), hi |-> 2 * FloorDiv(fromMost, a)]

-----------------------------------------------------------------------------
(* propagate_integer_inequality_bounds, one row, normalized to c x <= b. *)

Sign(r) == IF r.type = "L" THEN 1 ELSE -1
Side(r) == Sign(r) * (r.rhs - Endpoint(r))
MinTerm(r, j, lo, hi) == Least(Sign(r) * r.a[j] * lo[j], Sign(r) * r.a[j] * hi[j])

InequalityApplies(r) ==
    /\ OneSided(r) /\ Finite(Endpoint(r)) /\ Terms(r) # {}
    /\ \A j \in Terms(r) : j \in problem.integer /\ Finite(lower[j]) /\ Finite(upper[j])

InequalityBounds(r, j) ==
    LET c == Sign(r) * r.a[j]
        others == Sum([k \in Columns |-> MinTerm(r, k, lower, upper)], Terms(r) \ {j})
        room == Side(r) - others
        whole == IF c > 0 THEN FloorDiv(room, 2 * c) ELSE CeilDiv(room, 2 * c)
    IN  [lo |-> IF c < 0 /\ Abs(whole) <= ExactLimit THEN 2 * whole ELSE -Inf,
         hi |-> IF c > 0 /\ Abs(whole) <= ExactLimit THEN 2 * whole ELSE Inf]

\* What a row makes of the bounds of its columns, in either propagator.
Implied(kind, r, j) ==
    IF kind = "equality" THEN EqualityBounds(r, j) ELSE InequalityBounds(r, j)
Applies(kind, r) ==
    IF kind = "equality" THEN EqualityApplies(r) ELSE InequalityApplies(r)
NewLower(kind, r) ==
    [j \in Columns |-> IF j \in Terms(r) THEN Greatest(lower[j], Implied(kind, r, j).lo)
                       ELSE lower[j]]
NewUpper(kind, r) ==
    [j \in Columns |-> IF j \in Terms(r) THEN Least(upper[j], Implied(kind, r, j).hi)
                       ELSE upper[j]]

PassLimit(kind) ==
    Greatest(1, Least(IF kind = "equality" THEN 8 ELSE 4, Len(Rows)))

-----------------------------------------------------------------------------
(* round_integer_inequality_rhs *)

\* Mutant: the endpoint of the slack is not looked at.
RoundsAnyEndpoint(i) ==
    /\ OneSided(Rows[i]) /\ Lattice(Rows[i]) /\ Terms(Rows[i]) # {}
    /\ Gcd(Rows[i]) > 1 /\ Finite(rhs[i])

\* One-sided rows with the endpoint at zero, on a lattice coarser than one.
RoundsRhs(i) ==
    LET r == Rows[i]
    IN  /\ OneSided(r) /\ Endpoint(r) = 0
        /\ Terms(r) # {} /\ Lattice(r) /\ Gcd(r) > 1
        /\ Finite(rhs[i]) /\ Abs(rhs[i]) <= 4 * ExactLimit
RoundedRhs(i) ==
    LET unit == 4 * Gcd(Rows[i])
    IN  IF Rows[i].type = "L" THEN unit * FloorDiv(rhs[i], unit)
                              ELSE unit * CeilDiv(rhs[i], unit)

\* integer_equality_gcd_infeasible
GcdRefutes(r) ==
    /\ Equation(r) /\ Lattice(r) /\ Terms(r) # {}
    /\ Finite(r.rhs) /\ Abs(r.rhs) <= 4 * ExactLimit
    /\ r.rhs % (4 * Gcd(r)) # 0

-----------------------------------------------------------------------------
(* separate_cover_cuts *)

BinaryDomain(j) == j \in problem.integer /\ problem.lower[j] >= 0 /\ problem.upper[j] <= 2
CoverTerms(r) == {j \in Terms(r) : BinaryDomain(j) /\ r.a[j] > 0}
LeastTerm(r, j) == IF r.a[j] > 0 THEN r.a[j] * problem.lower[j] ELSE r.a[j] * problem.upper[j]
BoundedBelow(r) ==
    \A j \in Terms(r) : Finite(IF r.a[j] > 0 THEN problem.lower[j] ELSE problem.upper[j])
EffectiveUpper(r) ==
    RowHigh(r) - Sum([j \in Columns |-> LeastTerm(r, j)], Terms(r) \ CoverTerms(r))

\* By value and by coefficient, each way; ties by column.
Keys(r) == <<[j \in Columns |-> -x[j]], [j \in Columns |-> -r.a[j]], r.a, x>>
Before(key, i, j) == key[i] < key[j] \/ (key[i] = key[j] /\ i < j)
UpTo(T, key, j) == {i \in T : ~Before(key, j, i)}

\* The members of T taken in order until their weight passes b.
Greedy(r, T, key, b) ==
    LET over == {j \in T : Weight(r, UpTo(T, key, j)) > b}
    IN  IF over = {} THEN {}
        ELSE UpTo(T, key, CHOOSE j \in over : \A i \in over : ~Before(key, i, j))

\* Members whose removal leaves a cover are removed, in the order taken.
Dropped(r, C, j, b) == IF j \in C /\ Weight(r, C \ {j}) > b THEN C \ {j} ELSE C
Minimal(r, key) ==
    LET T == CoverTerms(r)
        b == EffectiveUpper(r)
        taken(n) == CHOOSE j \in T : Cardinality(UpTo(T, key, j)) = n
        left[n \in 0 .. Cardinality(T)] ==
            IF n = 0 THEN Greedy(r, T, key, b) ELSE Dropped(r, left[n - 1], taken(n), b)
    IN  left[Cardinality(T)]
SeparatesAtX(C) == Cardinality(C) > 1 /\ Sum(x, C) > 2 * (Cardinality(C) - 1)

\* Four orderings of every row, in turn.
CoverRow(k) == Rows[((k - 1) \div 4) + 1]
CoverAt(k) == Minimal(CoverRow(k), Keys(CoverRow(k))[((k - 1) % 4) + 1])
GivesCover(k) ==
    /\ Finite(RowHigh(CoverRow(k))) /\ BoundedBelow(CoverRow(k))
    /\ Cardinality(CoverTerms(CoverRow(k))) > 1
    /\ SeparatesAtX(CoverAt(k))
CoverCuts ==
    FirstCuts([k \in {n \in 1 .. 4 * Len(Rows) : GivesCover(n)} |-> CoverCut(CoverAt(k))])

-----------------------------------------------------------------------------
(* separate_integer_rounding_cuts *)

RoundedSide(r) ==
    LET b == r.rhs - Endpoint(r)
    IN  IF r.type = "L" THEN 4 * FloorDiv(b, 4) ELSE 4 * CeilDiv(b, 4)
RoundingCutOf(r) == Cut("rounding", r.a, r.type, RoundedSide(r))
GivesRoundingCut(r) ==
    /\ OneSided(r) /\ Finite(Endpoint(r)) /\ (r.rhs - Endpoint(r)) % 4 # 0
    /\ Terms(r) # {} /\ \A j \in Terms(r) : j \in problem.integer /\ r.a[j] % 2 = 0
    /\ ~Holds(RoundingCutOf(r).row, x)

(* separate_integer_coefficient_rounding_cuts: floor(a) x <= floor(b - s) + s *)
(* with s the floored coefficients at the lower bounds.                      *)
FlooredRow(r) == [j \in Columns |-> 2 * FloorDiv(Sign(r) * r.a[j], 2)]
LowerShift(r) ==
    Sum([j \in Columns |-> FlooredRow(r)[j] * 2 * CeilDiv(problem.lower[j], 2)], Terms(r))
FloorCutOf(r) ==
    Cut("floor", FlooredRow(r), "L",
        4 * FloorDiv(Side(r) - LowerShift(r), 4) + LowerShift(r))
GivesFloorCut(r) ==
    /\ OneSided(r) /\ Finite(Endpoint(r))
    /\ \A j \in Terms(r) : j \in problem.integer /\ Finite(problem.lower[j])
    /\ \E j \in Terms(r) : r.a[j] % 2 # 0
    /\ \E j \in Columns : FlooredRow(r)[j] # 0
    /\ ~Holds(FloorCutOf(r).row, x)

SeparatedCuts ==
    LET givers(gives(_)) == {i \in DOMAIN Rows : gives(Rows[i])}
    IN  CoverCuts
            \cup FirstCuts([i \in givers(GivesRoundingCut) |-> RoundingCutOf(Rows[i])])
            \cup FirstCuts([i \in givers(GivesFloorCut) |-> FloorCutOf(Rows[i])])

-----------------------------------------------------------------------------
(* The steps of a node, in the order of the search loop. *)

Loops == <<cursor, pass, changed>>
Model == <<problem, solver, acts>>

\* The node's bounds are materialized and rounded inward.
EnterNode ==
    /\ solver = "solve_milp" /\ stage = "enter"
    /\ lower' = InwardLower(node.lower) /\ upper' = InwardUpper(node.upper)
    /\ stage' = IF Crossed(InwardLower(node.lower), InwardUpper(node.upper))
                THEN "pruned" ELSE "equality"
    /\ cursor' = 1 /\ pass' = 1 /\ changed' = FALSE
    /\ UNCHANGED <<Model, depth, node, rhs, cuts, separated, x>>

\* One row of a propagator: infeasible, or its columns tightened.
PropagateRow(kind) ==
    /\ solver = "solve_milp" /\ stage = kind /\ cursor <= Len(Rows)
    /\ LET r == Rows[cursor]
           lo == IF Applies(kind, r) THEN NewLower(kind, r) ELSE lower
           hi == IF Applies(kind, r) THEN NewUpper(kind, r) ELSE upper
       IN  IF Crossed(lo, hi)
           THEN stage' = "pruned" /\ UNCHANGED <<lower, upper, Loops>>
           ELSE /\ lower' = lo /\ upper' = hi
                /\ changed' = (changed \/ lo # lower \/ hi # upper)
                /\ cursor' = cursor + 1
                /\ UNCHANGED <<stage, pass>>
    /\ UNCHANGED <<Model, depth, node, rhs, cuts, separated, x>>

\* Another pass while the last one tightened something and passes are left.
AnotherPass(kind) == changed /\ pass < PassLimit(kind)
EndPass(kind, next) ==
    /\ solver = "solve_milp" /\ stage = kind /\ cursor = Len(Rows) + 1
    /\ IF AnotherPass(kind) THEN pass' = pass + 1 /\ UNCHANGED stage
                            ELSE pass' = 1 /\ stage' = next
    /\ cursor' = 1 /\ changed' = FALSE
    /\ UNCHANGED <<Model, depth, node, lower, upper, rhs, cuts, separated, x>>

GcdCheck ==
    /\ solver = "solve_milp" /\ stage = "gcd"
    /\ stage' = IF \E i \in DOMAIN Rows : GcdRefutes(Rows[i]) THEN "pruned" ELSE "rhs"
    /\ UNCHANGED <<Model, Loops, depth, node, lower, upper, rhs, cuts, separated, x>>

RoundRhs ==
    /\ solver = "solve_milp" /\ stage = "rhs"
    /\ rhs' = [i \in DOMAIN Rows |-> IF RoundsRhs(i) THEN RoundedRhs(i) ELSE rhs[i]]
    /\ stage' = "relax"
    /\ UNCHANGED <<Model, Loops, depth, node, lower, upper, cuts, separated, x>>

\* The root's cuts are separated once, and the root is pushed back when there
\* are some.
SeparateRoot ==
    /\ solver = "solve_milp" /\ stage = "separate"
    /\ separated' = TRUE
    /\ cuts' = cuts \cup SeparatedCuts
    /\ stage' = IF SeparatedCuts # {} THEN "enter" ELSE "branch"
    /\ UNCHANGED <<Model, Loops, depth, node, lower, upper, rhs, x>>

RowReasoningNext ==
    \/ EnterNode
    \/ PropagateRow("equality") \/ EndPass("equality", "inequality")
    \/ PropagateRow("inequality") \/ EndPass("inequality", "gcd")
    \/ GcdCheck \/ RoundRhs \/ SeparateRoot

=============================================================================

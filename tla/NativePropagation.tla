-------------------------- MODULE NativePropagation --------------------------
(***************************************************************************)
(* What sk_milp_solve concludes from single rows (sk_milp.c): the cover    *)
(* cuts it appends before the root is solved, and milp_propagate, which    *)
(* takes the activity range of every row at the start of a round and       *)
(* inverts it column by column while the bounds move under it.             *)
(***************************************************************************)
EXTENDS IntegerRows

\* A range as two sums and the count of terms that are infinite.
Contribution(r, j, lo, hi, least) ==
    LET bound == IF (r.a[j] > 0) = least THEN lo[j] ELSE hi[j]
    IN  IF Finite(bound) THEN [sum |-> r.a[j] * bound, inf |-> 0] ELSE [sum |-> 0, inf |-> 1]
RangeSide(r, lo, hi, least) ==
    [sum |-> Sum([j \in Columns |-> Contribution(r, j, lo, hi, least).sum], Terms(r)),
     inf |-> Sum([j \in Columns |-> Contribution(r, j, lo, hi, least).inf], Terms(r))]
Ranges(r, lo, hi) ==
    [min |-> RangeSide(r, lo, hi, TRUE), max |-> RangeSide(r, lo, hi, FALSE)]

\* The round's range of row r with the present contribution of j taken out.
Rest(range, r, j, lo, hi, least) ==
    LET own == Contribution(r, j, lo, hi, least)
    IN  [sum |-> range.sum - own.sum, inf |-> range.inf - own.inf]

\* The row inverted for column j, rounded inward for an integer column and
\* outward to the half step for a continuous one.
Bound(j, side, rest, a, isUpper) ==
    LET room == side - rest.sum
    IN  IF j \in problem.integer
        THEN 2 * (IF isUpper THEN FloorDiv(room, 2 * a) ELSE CeilDiv(room, 2 * a))
        ELSE IF isUpper THEN CeilDiv(room, a) ELSE FloorDiv(room, a)
Inverted(range, r, j, lo, hi) ==
    LET a == r.a[j]
        rests == [min |-> Rest(range.min, r, j, lo, hi, TRUE),
                  max |-> Rest(range.max, r, j, lo, hi, FALSE)]
        fromHigh == Finite(RowHigh(r)) /\ rests.min.inf = 0
        fromLow == Finite(RowLow(r)) /\ rests.max.inf = 0
        high(isUpper) == Bound(j, RowHigh(r), rests.min, a, isUpper)
        low(isUpper) == Bound(j, RowLow(r), rests.max, a, isUpper)
    IN  [lo |-> CASE a > 0 /\ fromLow -> low(FALSE)
                  [] a < 0 /\ fromHigh -> high(FALSE)
                  [] OTHER -> -Inf,
         hi |-> CASE a > 0 /\ fromHigh -> high(TRUE)
                  [] a < 0 /\ fromLow -> low(TRUE)
                  [] OTHER -> Inf]

\* Column j through the rows that hold it, in row order.
TightenedBy(i, range, j, b) ==
    IF b.lo > b.hi \/ Rows[i].a[j] = 0 THEN b
    ELSE LET new == Inverted(range, Rows[i], j, [lower EXCEPT ![j] = b.lo],
                             [upper EXCEPT ![j] = b.hi])
         IN  [lo |-> Greatest(b.lo, new.lo), hi |-> Least(b.hi, new.hi)]
TightenColumn(j, ranges) ==
    LET kept[i \in 0 .. Len(Rows)] ==
            IF i = 0 THEN [lo |-> lower[j], hi |-> upper[j]]
            ELSE TightenedBy(i, ranges[i], j, kept[i - 1])
    IN  kept[Len(Rows)]

\* A row whose range misses a side.
Unreachable(r) ==
    LET range == Ranges(r, lower, upper)
    IN  \/ range.max.inf = 0 /\ Finite(RowLow(r)) /\ range.max.sum < RowLow(r)
        \/ range.min.inf = 0 /\ Finite(RowHigh(r)) /\ range.min.sum > RowHigh(r)

-----------------------------------------------------------------------------
(* milp_build_cover_cuts: rows of binaries with positive coefficients only, *)
(* the heaviest columns first, equal weights in any order.                  *)
AllBinary(r) ==
    /\ Terms(r) # {}
    /\ \A j \in Terms(r) : /\ j \in problem.integer /\ r.a[j] > 0
                           /\ problem.lower[j] = 0 /\ problem.upper[j] = 2
HeaviestUpTo(r, C, last) ==
    /\ last \in C /\ \A j \in C : r.a[j] >= r.a[last]
    /\ \A j \in Terms(r) \ C : r.a[j] <= r.a[last]
Covers(r) ==
    {C \in SUBSET Terms(r) :
        /\ Weight(r, C) > RowHigh(r)
        /\ \E last \in C : HeaviestUpTo(r, C, last) /\ Weight(r, C \ {last}) <= RowHigh(r)}
CoveredRows ==
    {i \in DOMAIN Rows :
        /\ Finite(RowHigh(Rows[i])) /\ RowHigh(Rows[i]) >= 0 /\ AllBinary(Rows[i])
        /\ Weight(Rows[i], Terms(Rows[i])) > RowHigh(Rows[i])}

Kept == <<problem, solver, node, depth, rhs, cuts, separated, x>>

BuildCovers ==
    /\ solver = "sk_milp_solve" /\ stage = "covers"
    /\ \E pick \in [CoveredRows -> SUBSET Columns] :
           /\ \A i \in CoveredRows : pick[i] \in Covers(Rows[i])
           /\ cuts' = {CoverCut(pick[i]) : i \in {k \in CoveredRows :
                          Cardinality({h \in CoveredRows : h < k}) < MaxCuts}}
    /\ stage' = "enter"
    /\ UNCHANGED <<problem, solver, node, depth, lower, upper, rhs, separated, cursor,
                   pass, changed, acts, x>>

\* milp_apply on the rounded root bounds.
ApplyNode ==
    /\ solver = "sk_milp_solve" /\ stage = "enter"
    /\ lower' = InwardLower(node.lower) /\ upper' = InwardUpper(node.upper)
    /\ stage' = "round" /\ pass' = 1 /\ cursor' = 1 /\ changed' = FALSE
    /\ UNCHANGED <<Kept, acts>>

\* The ranges of a round, and the rows and columns they already refute.
StartRound ==
    /\ solver = "sk_milp_solve" /\ stage = "round"
    /\ acts' = [i \in DOMAIN Rows |-> Ranges(Rows[i], lower, upper)]
    /\ stage' = IF Crossed(lower, upper) \/ \E i \in DOMAIN Rows : Unreachable(Rows[i])
                THEN "pruned" ELSE "columns"
    /\ cursor' = 1 /\ changed' = FALSE
    /\ UNCHANGED <<Kept, lower, upper, pass>>

PropagateColumn ==
    /\ solver = "sk_milp_solve" /\ stage = "columns" /\ cursor \in Columns
    /\ LET b == TightenColumn(cursor, acts)
       IN  /\ lower' = [lower EXCEPT ![cursor] = b.lo]
           /\ upper' = [upper EXCEPT ![cursor] = b.hi]
           /\ changed' = (changed \/ b.lo # lower[cursor] \/ b.hi # upper[cursor])
           /\ stage' = IF b.lo > b.hi THEN "pruned" ELSE stage
    /\ cursor' = cursor + 1
    /\ UNCHANGED <<Kept, pass, acts>>

\* Another round while the last one moved a bound and rounds are left.
AnotherRound == changed /\ pass < MaxRounds
EndRound ==
    /\ solver = "sk_milp_solve" /\ stage = "columns" /\ cursor \notin Columns
    /\ stage' = IF AnotherRound THEN "round" ELSE "relax"
    /\ pass' = IF AnotherRound THEN pass + 1 ELSE pass
    /\ UNCHANGED <<Kept, lower, upper, cursor, changed, acts>>

NativePropagationNext ==
    BuildCovers \/ ApplyNode \/ StartRound \/ PropagateColumn \/ EndRound

=============================================================================

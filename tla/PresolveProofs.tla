--------------------------- MODULE PresolveProofs ---------------------------
(***************************************************************************)
(* Proofs about Presolve, for every problem, number of passes and          *)
(* tolerance: the working model stays in order, the reduced model has the  *)
(* caller's optimum, postsolve is feasible, the verdicts are right.        *)
(*                                                                         *)
(* The argument does not follow the shifted row bounds: ShiftInv says once *)
(* what a kept row's range is, and everything else is told of the caller's *)
(* rows and of points over all columns (Holds).  A reduction then has to   *)
(* keep a point as good as any (KeptInv) and to let a dropped row follow   *)
(* from what is left (DroppedInv).                                         *)
(***************************************************************************)
EXTENDS Presolve, SumsProofs, TLAPS

-----------------------------------------------------------------------------
(***************************************************************************)
(* Bounds.                                                                 *)
(***************************************************************************)
\* b restricts at least what c restricts.
Tighter(b, c) == /\ Finite(c.lo) => Finite(b.lo) /\ c.lo <= b.lo
                 /\ Finite(c.hi) => Finite(b.hi) /\ b.hi <= c.hi

\* What a range of a sum leaves for the rest when v of it is used.
Shift(s, v) == IF Finite(s) THEN s - v ELSE Infinity
Shifted(b, v) == [lo |-> Shift(b.lo, v), hi |-> Shift(b.hi, v)]

\* A side is a number or open, never both.
LEMMA Sides ==
  ASSUME NEW b \in Interval
  PROVE  /\ b.lo \in Int \/ b.lo = Infinity
         /\ b.hi \in Int \/ b.hi = Infinity
         /\ b = [lo |-> b.lo, hi |-> b.hi]
BY DEF Interval

LEMMA OpenIsNoNumber ==
  Infinity \notin Int
BY SizeAssumption

\* A derived lower bound is taken, or the interval stays as it is.
LEMMA TightenLowerCases ==
  ASSUME NEW b \in Interval, NEW limit \in Int \cup {Infinity}
  PROVE  /\ TightenLower(b, limit) \in Interval
         /\ TightenLower(b, limit).hi = b.hi
         /\ \/ TightenLower(b, limit).lo = b.lo
            \/ /\ Finite(limit) /\ TightenLower(b, limit).lo = limit
               /\ Finite(b.hi) => limit <= b.hi
               /\ Finite(b.lo) => limit > b.lo
BY DEF TightenLower, Interval

LEMMA TightenUpperCases ==
  ASSUME NEW b \in Interval, NEW limit \in Int \cup {Infinity}
  PROVE  /\ TightenUpper(b, limit) \in Interval
         /\ TightenUpper(b, limit).lo = b.lo
         /\ \/ TightenUpper(b, limit).hi = b.hi
            \/ /\ Finite(limit) /\ TightenUpper(b, limit).hi = limit
               /\ Finite(b.lo) => limit >= b.lo
               /\ Finite(b.hi) => limit < b.hi
BY DEF TightenUpper, Interval

\* Tightening restricts, keeps every value the limits allow, and neither
\* crosses bounds nor touches bounds that cross.
LEMMA TightenedSound ==
  ASSUME NEW b \in Interval, NEW limits \in Interval
  PROVE  /\ Tightened(b, limits) \in Interval
         /\ Tighter(Tightened(b, limits), b)
         /\ \A v \in Int : Within(v, b) /\ Within(v, limits) => Within(v, Tightened(b, limits))
         /\ CrossedBy(b, 0) => Tightened(b, limits) = b
         /\ ~ CrossedBy(b, 0) => ~ CrossedBy(Tightened(b, limits), 0)
<1> DEFINE c == TightenLower(b, limits.lo)
           d == TightenUpper(c, limits.hi)
<1>1. limits.lo \in Int \cup {Infinity} /\ limits.hi \in Int \cup {Infinity}
  BY DEF Interval
<1>2. /\ c \in Interval /\ c.hi = b.hi
      /\ \/ c.lo = b.lo
         \/ /\ Finite(limits.lo) /\ c.lo = limits.lo
            /\ Finite(b.hi) => limits.lo <= b.hi
            /\ Finite(b.lo) => limits.lo > b.lo
  BY <1>1, TightenLowerCases
<1>3. /\ d \in Interval /\ d.lo = c.lo
      /\ \/ d.hi = c.hi
         \/ /\ Finite(limits.hi) /\ d.hi = limits.hi
            /\ Finite(c.lo) => limits.hi >= c.lo
            /\ Finite(c.hi) => limits.hi < c.hi
  BY <1>1, <1>2, TightenUpperCases
<1>4. Tightened(b, limits) = d
  BY DEF Tightened
<1> HIDE DEF c, d
<1>5. /\ b.lo \in Int \/ b.lo = Infinity
      /\ b.hi \in Int \/ b.hi = Infinity
      /\ b = [lo |-> b.lo, hi |-> b.hi] /\ d = [lo |-> d.lo, hi |-> d.hi]
  BY <1>3, Sides
<1>6. Tighter(d, b)
  BY <1>2, <1>3, <1>5, OpenIsNoNumber DEF Tighter, Finite
<1>7. \A v \in Int : Within(v, b) /\ Within(v, limits) => Within(v, d)
  BY <1>2, <1>3, <1>5, OpenIsNoNumber DEF Within, Finite
<1>8. CrossedBy(b, 0) => d.lo = b.lo /\ d.hi = b.hi
  BY <1>2, <1>3, <1>5, OpenIsNoNumber DEF CrossedBy, Finite
<1>9. ~ CrossedBy(b, 0) => ~ CrossedBy(d, 0)
  BY <1>2, <1>3, <1>5, OpenIsNoNumber DEF CrossedBy, Finite
<1>10. QED
  BY <1>3, <1>4, <1>5, <1>6, <1>7, <1>8, <1>9

LEMMA TighterTransitive ==
  ASSUME NEW b \in Interval, NEW c \in Interval, NEW d \in Interval,
         Tighter(b, c), Tighter(c, d)
  PROVE  Tighter(b, d)
BY Sides DEF Tighter, Finite

LEMMA TighterWithin ==
  ASSUME NEW b \in Interval, NEW c \in Interval, Tighter(b, c), NEW v \in Int, Within(v, b)
  PROVE  Within(v, c)
BY Sides DEF Tighter, Within, Finite

\* A value stays between tighter bounds, if bounds that cross were not touched.
LEMMA TighterBetween ==
  ASSUME NEW b \in Interval, NEW c \in Interval, Tighter(b, c),
         CrossedBy(c, 0) => b = c, ~ CrossedBy(c, 0) => ~ CrossedBy(b, 0),
         NEW v \in Int, Between(v, b)
  PROVE  Between(v, c)
<1>1. CASE CrossedBy(c, 0)
  BY <1>1
<1>2. CASE ~ CrossedBy(c, 0)
  <2>1. Within(v, b)
    BY <1>2, Sides DEF CrossedBy, Between, Within, Finite
  <2>2. QED
    BY <2>1, TighterWithin DEF Between
<1>3. QED
  BY <1>1, <1>2

\* What a sum satisfies, its rest satisfies of the shifted range.
LEMMA ShiftSound ==
  ASSUME NEW b \in Interval, NEW v \in Int, NEW f \in Int, NEW tol \in Nat
  PROVE  /\ Shifted(b, f) \in Interval
         /\ Within(v, Shifted(b, f)) <=> Within(f + v, b)
         /\ Misses(v, Shifted(b, f), tol) <=> Misses(f + v, b, tol)
         /\ Finite(Shifted(b, f).lo) <=> Finite(b.lo)
         /\ Finite(Shifted(b, f).hi) <=> Finite(b.hi)
<1>1. /\ b.lo \in Int \/ b.lo = Infinity
      /\ b.hi \in Int \/ b.hi = Infinity
  BY Sides
<1>2. /\ Shifted(b, f).lo = Shift(b.lo, f) /\ Shifted(b, f).hi = Shift(b.hi, f)
      /\ b.lo \in Int => Shift(b.lo, f) \in Int /\ Shift(b.lo, f) = b.lo - f
      /\ b.hi \in Int => Shift(b.hi, f) \in Int /\ Shift(b.hi, f) = b.hi - f
      /\ b.lo = Infinity => Shift(b.lo, f) = Infinity
      /\ b.hi = Infinity => Shift(b.hi, f) = Infinity
  BY OpenIsNoNumber DEF Shifted, Shift, Finite
<1>3. Shifted(b, f) \in Interval
  <2>1. Shift(b.lo, f) \in Int \cup {Infinity} /\ Shift(b.hi, f) \in Int \cup {Infinity}
    BY <1>1, <1>2
  <2>2. QED
    BY <2>1 DEF Shifted, Interval
<1>4. /\ Finite(Shifted(b, f).lo) <=> Finite(b.lo)
      /\ Finite(Shifted(b, f).hi) <=> Finite(b.hi)
  BY <1>1, <1>2, OpenIsNoNumber DEF Finite
<1>5. Within(v, Shifted(b, f)) <=> Within(f + v, b)
  BY <1>1, <1>2, OpenIsNoNumber DEF Within, Finite
<1>6. Misses(v, Shifted(b, f), tol) <=> Misses(f + v, b, tol)
  BY <1>1, <1>2, OpenIsNoNumber DEF Misses, Finite
<1>7. QED
  BY <1>3, <1>4, <1>5, <1>6

LEMMA ShiftAgain ==
  ASSUME NEW b \in Interval, NEW f \in Int, NEW g \in Int
  PROVE  Shifted(Shifted(b, f), g) = Shifted(b, f + g)
<1>1. /\ b.lo \in Int \/ b.lo = Infinity
      /\ b.hi \in Int \/ b.hi = Infinity
  BY Sides
<1>2. Shift(Shift(b.lo, f), g) = Shift(b.lo, f + g)
  BY <1>1, OpenIsNoNumber DEF Shift, Finite
<1>3. Shift(Shift(b.hi, f), g) = Shift(b.hi, f + g)
  BY <1>1, OpenIsNoNumber DEF Shift, Finite
<1>4. QED
  BY <1>2, <1>3 DEF Shifted

\* The range of a row is an interval.
LEMMA RangeType ==
  ASSUME NEW rhs \in Int, NEW slack \in Interval
  PROVE  RowRange(rhs, slack) \in Interval
<1>1. /\ slack.lo \in Int \/ slack.lo = Infinity
      /\ slack.hi \in Int \/ slack.hi = Infinity
  BY Sides
<1>2. Minus(rhs, slack.hi) \in Int \cup {Infinity} /\ Minus(rhs, slack.lo) \in Int \cup {Infinity}
  BY <1>1 DEF Minus, Finite
<1>3. QED
  BY <1>2 DEF RowRange, Interval

\* Re-encoding a row changes nothing.
LEMMA ReencodedSound ==
  ASSUME NEW r \in Interval
  PROVE  RowRange(Reencoded(r).rhs, Reencoded(r).slack) = r
<1>1. /\ r.lo \in Int \/ r.lo = Infinity
      /\ r.hi \in Int \/ r.hi = Infinity
      /\ r = [lo |-> r.lo, hi |-> r.hi]
  BY Sides
<1>2. CASE r.hi \in Int /\ r.lo \in Int
  <2>1. /\ Reencoded(r).rhs = r.hi
        /\ Reencoded(r).slack = [lo |-> 0, hi |-> r.hi - r.lo]
    BY <1>2 DEF Reencoded, Finite
  <2>2. Minus(r.hi, r.hi - r.lo) = r.lo /\ Minus(r.hi, 0) = r.hi
    BY <1>2 DEF Minus, Finite
  <2>3. QED
    BY <1>1, <2>1, <2>2 DEF RowRange
<1>3. CASE r.hi \in Int /\ r.lo = Infinity
  <2>1. /\ Reencoded(r).rhs = r.hi
        /\ Reencoded(r).slack = [lo |-> 0, hi |-> Infinity]
    BY <1>3, OpenIsNoNumber DEF Reencoded, Finite
  <2>2. Minus(r.hi, Infinity) = Infinity /\ Minus(r.hi, 0) = r.hi
    BY <1>3, OpenIsNoNumber DEF Minus, Finite
  <2>3. QED
    BY <1>1, <1>3, <2>1, <2>2 DEF RowRange
<1>4. CASE r.hi = Infinity /\ r.lo \in Int
  <2>1. /\ Reencoded(r).rhs = r.lo
        /\ Reencoded(r).slack = [lo |-> Infinity, hi |-> 0]
    BY <1>4, OpenIsNoNumber DEF Reencoded, Finite
  <2>2. Minus(r.lo, Infinity) = Infinity /\ Minus(r.lo, 0) = r.lo
    BY <1>4, OpenIsNoNumber DEF Minus, Finite
  <2>3. QED
    BY <1>1, <1>4, <2>1, <2>2 DEF RowRange
<1>5. CASE r.hi = Infinity /\ r.lo = Infinity
  <2>1. /\ Reencoded(r).rhs = 0
        /\ Reencoded(r).slack = [lo |-> Infinity, hi |-> Infinity]
    BY <1>5, OpenIsNoNumber DEF Reencoded, Finite
  <2>2. Minus(0, Infinity) = Infinity
    BY OpenIsNoNumber DEF Minus, Finite
  <2>3. QED
    BY <1>1, <1>5, <2>1, <2>2 DEF RowRange
<1>6. QED
  BY <1>1, <1>2, <1>3, <1>4, <1>5

-----------------------------------------------------------------------------
(***************************************************************************)
(* Rows and costs of points, as sums over columns.                         *)
(***************************************************************************)
Line(a, p, S) == Sum([j \in S |-> a[j] * p[j]], S)

\* Row and Cost are lines of the model.
LEMMA RowIsLine ==
  /\ \A i, p, S : Row(i, p, S) = Line(problem.A[i], p, S)
  /\ \A p : Cost(p) = Line(problem.obj, p, Cols)
BY DEF Row, Cost, Line

LEMMA LineType ==
  ASSUME NEW S, IsFiniteSet(S), NEW a, NEW p, \A j \in S : a[j] \in Int /\ p[j] \in Int
  PROVE  Line(a, p, S) \in Int
<1> DEFINE f == [j \in S |-> a[j] * p[j]]
<1>1. \A j \in S : f[j] \in Int
  OBVIOUS
<1> HIDE DEF f
<1>2. Sum(f, S) \in Int
  BY <1>1, SumType
<1>3. QED
  BY <1>2 DEF Line, f

\* Points that agree have the same line.
LEMMA LineEqual ==
  ASSUME NEW S, IsFiniteSet(S), NEW a, NEW p, NEW q,
         \A j \in S : a[j] \in Int /\ p[j] \in Int /\ p[j] = q[j]
  PROVE  Line(a, p, S) = Line(a, q, S)
<1>1. [j \in S |-> a[j] * p[j]] = [j \in S |-> a[j] * q[j]]
  OBVIOUS
<1>2. QED
  BY <1>1 DEF Line

\* A line over two parts of its columns.
LEMMA LineUnion ==
  ASSUME NEW S, IsFiniteSet(S), NEW a, NEW p, \A j \in S : a[j] \in Int /\ p[j] \in Int,
         NEW U \in SUBSET S
  PROVE  Line(a, p, S) = Line(a, p, U) + Line(a, p, S \ U)
<1> DEFINE F(T) == [j \in T |-> a[j] * p[j]]
<1>1. \A T \in SUBSET S : \A j \in T : F(T)[j] \in Int /\ F(T)[j] = F(S)[j]
  OBVIOUS
<1>2. \A T \in SUBSET S : IsFiniteSet(T)
  BY FS_Subset
<1>3. \A T : Line(a, p, T) = Sum(F(T), T)
  BY DEF Line
<1> HIDE DEF F
<1>4. \A T \in SUBSET S : Sum(F(T), T) = Sum(F(S), T)
  <2> TAKE T \in SUBSET S
  <2>1. IsFiniteSet(T) /\ \A j \in T : F(T)[j] \in Int /\ F(T)[j] = F(S)[j]
    BY <1>1, <1>2
  <2>2. QED
    BY <2>1, SumEqual
<1>5. S \in SUBSET S /\ U \in SUBSET S /\ S \ U \in SUBSET S
  OBVIOUS
<1>6. Sum(F(S), S) = Sum(F(S), U) + Sum(F(S), S \ U)
  <2>1. \A j \in S : F(S)[j] \in Int
    BY <1>1, <1>5
  <2>2. QED
    BY <2>1, SumUnion
<1>7. QED
  BY <1>3, <1>4, <1>5, <1>6

\* Columns with a zero coefficient do not count.
LEMMA LineSupport ==
  ASSUME NEW S, IsFiniteSet(S), NEW a, NEW p, \A j \in S : a[j] \in Int /\ p[j] \in Int,
         NEW U \in SUBSET S, \A j \in S \ U : a[j] = 0
  PROVE  Line(a, p, S) = Line(a, p, U)
<1>1. Line(a, p, S) = Line(a, p, U) + Line(a, p, S \ U)
  BY LineUnion
<1> DEFINE f == [j \in S \ U |-> a[j] * p[j]]
<1>2. \A j \in S \ U : f[j] = 0
  OBVIOUS
<1>3. IsFiniteSet(S \ U) /\ IsFiniteSet(U)
  BY FS_Subset
<1>4. Line(a, p, S \ U) = 0
  <2> HIDE DEF f
  <2>1. Sum(f, S \ U) = 0
    BY <1>2, <1>3, SumOfZeros
  <2>2. QED
    BY <2>1 DEF Line, f
<1>5. Line(a, p, U) \in Int
  BY <1>3, LineType
<1>6. QED
  BY <1>1, <1>4, <1>5

LEMMA LineEmpty ==
  ASSUME NEW a, NEW p
  PROVE  Line(a, p, {}) = 0
BY SumEmpty DEF Line

\* One column.
LEMMA LineSplit ==
  ASSUME NEW S, IsFiniteSet(S), NEW a, NEW p, \A j \in S : a[j] \in Int /\ p[j] \in Int,
         NEW x0 \in S
  PROVE  Line(a, p, S) = a[x0] * p[x0] + Line(a, p, S \ {x0})
<1>1. Line(a, p, S) = Line(a, p, {x0}) + Line(a, p, S \ {x0})
  BY LineUnion
<1> DEFINE f == [j \in {x0} |-> a[j] * p[j]]
<1>2. f[x0] = a[x0] * p[x0] /\ f[x0] \in Int
  OBVIOUS
<1>3. Line(a, p, {x0}) = Sum(f, {x0})
  BY DEF Line
<1> HIDE DEF f
<1>4. Sum(f, {x0}) = f[x0] + Sum(f, {x0} \ {x0})
  <2>1. IsFiniteSet({x0})
    BY FS_Subset
  <2>2. QED
    BY <1>2, <2>1, SumSplit
<1>5. {x0} \ {x0} = {}
  OBVIOUS
<1>6. Sum(f, {x0} \ {x0}) = 0
  BY <1>5, SumEmpty
<1>7. QED
  BY <1>1, <1>2, <1>3, <1>4, <1>6

\* Larger terms make a larger line, and the same one only if all are the same.
LEMMA LineOrder ==
  ASSUME NEW S, IsFiniteSet(S), NEW a, NEW p, NEW q,
         \A j \in S : a[j] \in Int /\ p[j] \in Int /\ q[j] \in Int,
         \A j \in S : a[j] * p[j] <= a[j] * q[j]
  PROVE  /\ Line(a, p, S) <= Line(a, q, S)
         /\ Line(a, p, S) = Line(a, q, S) => \A j \in S : a[j] * p[j] = a[j] * q[j]
<1> DEFINE f == [j \in S |-> a[j] * p[j]]
           g == [j \in S |-> a[j] * q[j]]
<1>1. \A j \in S : f[j] \in Int /\ g[j] \in Int /\ f[j] <= g[j]
  OBVIOUS
<1>2. /\ Line(a, p, S) = Sum(f, S) /\ Line(a, q, S) = Sum(g, S)
      /\ \A j \in S : f[j] = a[j] * p[j] /\ g[j] = a[j] * q[j]
  BY DEF Line
<1> HIDE DEF f, g
<1>3. Sum(f, S) <= Sum(g, S)
  BY <1>1, SumMonotone
<1>4. ASSUME Sum(f, S) = Sum(g, S), NEW j \in S
      PROVE  f[j] = g[j]
  <2>1. Sum(g, S) \in Int
    BY <1>1, SumType
  <2>2. Sum(g, S) <= Sum(f, S)
    BY <1>4, <2>1
  <2>3. QED
    BY <1>1, <2>2, SumTight
<1>5. QED
  BY <1>2, <1>3, <1>4

-----------------------------------------------------------------------------
(***************************************************************************)
(* The invariant.                                                          *)
(***************************************************************************)
AllPoints == [Cols -> Int]

\* The loop visits a row or column of its own, and a verdict ends it.
Placed == /\ pc \in DOMAIN Following => at \in 1 .. Last(pc)
          /\ pc \in {"close", "emit"} => at = 1
          /\ status # "OK" => pc = "done"

\* Bounds only tighten, and those that crossed at the start stay as they were.
BoundInv ==
    \A j \in Cols :
        /\ Tighter(bound[j], problem.bound[j])
        /\ CrossedBy(problem.bound[j], 0) => bound[j] = problem.bound[j]
        /\ ~ CrossedBy(problem.bound[j], 0) => ~ CrossedBy(bound[j], 0)

\* A column whose bounds cross is removed by the first loop, before any row is
\* dropped: an activity is never taken over an empty domain.
Uncrossed ==
    \A j \in col_active :
        CrossedBy(bound[j], 0) => /\ row_active = Rows
                                  /\ pc \in {"fixed", "done"}
                                  /\ pc = "fixed" => at <= j

\* What the removed columns contribute to row i.
Used(i) == Row(i, fixed_value, Cols \ col_active)

\* The range of a kept row is the caller's, less what the removed columns use.
ShiftInv == \A i \in row_active : range[i] = Shifted(Original(i), Used(i))

\* Removed columns are between the caller's bounds.
FixedInv == \A j \in Cols \ col_active : Between(fixed_value[j], problem.bound[j])

\* A dropped row is implied by the columns that are left.
DroppedInv ==
    \A p \in AllPoints : InBox(p) =>
        \A i \in Rows \ row_active : ~ Misses(Row(i, p, Cols), Original(i), InfeasTol)

\* The points the reductions stand for, told of the caller's rows.
Holds(p) == InBox(p) /\ \A i \in row_active : Within(Row(i, p, Cols), Original(i))

\* Every point of the caller has one as good among those that are left.
KeptInv ==
    \A p \in AllPoints : Satisfies(p) =>
        \E q \in AllPoints : Holds(q) /\ Cost(q) <= Cost(p)

\* INFEASIBLE is concluded when nothing is left.
FailInv == status = "INFEASIBLE" => \A p \in AllPoints : ~ Holds(p)

\* A side of row i is open if the bound b of column j could carry the row past it.
Leaves(i, j, b) ==
    /\ problem.A[i][j] > 0 => /\ Finite(Original(i).lo) => Finite(b.lo)
                              /\ Finite(Original(i).hi) => Finite(b.hi)
    /\ problem.A[i][j] < 0 => /\ Finite(Original(i).hi) => Finite(b.lo)
                              /\ Finite(Original(i).lo) => Finite(b.hi)

\* A dropped row is open wherever a column that is left is.
OpenInv == \A i \in Rows \ row_active, j \in col_active : Leaves(i, j, bound[j])

\* UNBOUNDED is concluded of an empty column with an open bound to improve along.
RayInv ==
    status = "UNBOUNDED" =>
        pc = "done" /\ at \in col_active /\ col_count[at] = 0 /\ ~ Finite(BestBound(at))

PresolveInv ==
    /\ TypeOK /\ CountsExact /\ Placed
    /\ BoundInv /\ Uncrossed /\ ShiftInv /\ FixedInv
    /\ DroppedInv /\ KeptInv /\ FailInv /\ OpenInv /\ RayInv /\ PostsolveFeasible

-----------------------------------------------------------------------------
(***************************************************************************)
(* What a state in order says of its model, rows and activities.           *)
(***************************************************************************)
LEMMA Model ==
  ASSUME problem \in Problems
  PROVE  /\ \A i \in Rows : Original(i) \in Interval
         /\ \A j \in Cols : problem.bound[j] \in Interval /\ problem.obj[j] \in Int
         /\ \A i \in Rows, j \in Cols : problem.A[i][j] \in {-1, 0, 1}
         /\ \A S \in SUBSET Cols : IsFiniteSet(S)
         /\ \A S \in SUBSET Rows : IsFiniteSet(S)
<1>1. \A i \in Rows : Original(i) \in Interval
  BY ProblemAssumption, RangeType DEF Original
<1>2. /\ \A j \in Cols : problem.bound[j] \in Interval /\ problem.obj[j] \in Int
      /\ \A i \in Rows, j \in Cols : problem.A[i][j] \in {-1, 0, 1}
  BY ProblemAssumption
<1>3. IsFiniteSet(Cols) /\ IsFiniteSet(Rows)
  BY SizeAssumption, FS_Interval DEF Cols, Rows
<1>4. QED
  BY <1>1, <1>2, <1>3, FS_Subset

\* The rows of a point are integers, and add up over two parts of the columns.
LEMMA RowUnion ==
  ASSUME problem \in Problems, NEW i \in Rows, NEW S \in SUBSET Cols,
         NEW p, \A j \in S : p[j] \in Int, NEW U \in SUBSET S
  PROVE  /\ Row(i, p, S) \in Int /\ Row(i, p, U) \in Int /\ Row(i, p, S \ U) \in Int
         /\ Row(i, p, S) = Row(i, p, U) + Row(i, p, S \ U)
<1>1. \A j \in S : problem.A[i][j] \in Int
  BY Model
<1>2. IsFiniteSet(S) /\ IsFiniteSet(U) /\ IsFiniteSet(S \ U)
  BY Model
<1> DEFINE a == problem.A[i]
<1>3. \A j \in S : a[j] \in Int /\ p[j] \in Int
  BY <1>1
<1>4. \A T : Row(i, p, T) = Line(a, p, T)
  BY RowIsLine
<1> HIDE DEF a
<1>5. Line(a, p, S) \in Int /\ Line(a, p, U) \in Int /\ Line(a, p, S \ U) \in Int
  BY <1>2, <1>3, LineType
<1>6. Line(a, p, S) = Line(a, p, U) + Line(a, p, S \ U)
  BY <1>2, <1>3, LineUnion
<1>7. QED
  BY <1>4, <1>5, <1>6

LEMMA RowEqual ==
  ASSUME problem \in Problems, NEW i \in Rows, NEW S \in SUBSET Cols,
         NEW p, NEW q, \A j \in S : p[j] \in Int /\ p[j] = q[j]
  PROVE  Row(i, p, S) = Row(i, q, S)
<1>1. \A j \in S : problem.A[i][j] \in Int
  BY Model
<1>2. IsFiniteSet(S)
  BY Model
<1>3. Line(problem.A[i], p, S) = Line(problem.A[i], q, S)
  BY <1>1, <1>2, LineEqual
<1>4. QED
  BY <1>3, RowIsLine

\* Only the support of a row counts.
LEMMA RowSupport ==
  ASSUME problem \in Problems, col_active \subseteq Cols, NEW i \in Rows,
         NEW p, \A j \in col_active : p[j] \in Int
  PROVE  /\ Row(i, p, col_active) = Row(i, p, Support(i))
         /\ Row(i, p, Support(i)) \in Int
         /\ Support(i) \in SUBSET col_active /\ Support(i) \in SUBSET Cols
<1>1. \A j \in col_active : problem.A[i][j] \in Int
  BY Model
<1>2. IsFiniteSet(col_active)
  BY Model
<1>3. /\ Support(i) \in SUBSET col_active
      /\ \A j \in col_active \ Support(i) : problem.A[i][j] = 0
  BY DEF Support
<1>4. Line(problem.A[i], p, col_active) = Line(problem.A[i], p, Support(i))
  BY <1>1, <1>2, <1>3, LineSupport
<1>5. Row(i, p, Support(i)) \in Int
  <2>1. Support(i) \in SUBSET Cols /\ Support(i) \in SUBSET Support(i)
    BY <1>3
  <2>2. QED
    BY <1>3, <2>1, RowUnion
<1>6. QED
  BY <1>3, <1>4, <1>5, RowIsLine

\* Over the active columns, the range of a kept row says what the caller's row
\* says over all columns.
LEMMA Translation ==
  ASSUME TypeOK, ShiftInv, NEW i \in row_active, NEW p \in AllPoints,
         \A j \in Cols \ col_active : p[j] = fixed_value[j], NEW tol \in Nat
  PROVE  /\ Row(i, p, col_active) = Row(i, p, Support(i))
         /\ Row(i, p, Support(i)) \in Int
         /\ Within(Row(i, p, Support(i)), range[i]) <=> Within(Row(i, p, Cols), Original(i))
         /\ Misses(Row(i, p, Support(i)), range[i], tol) <=> Misses(Row(i, p, Cols), Original(i), tol)
<1>1. i \in Rows /\ problem \in Problems /\ col_active \subseteq Cols /\ \A j \in Cols : p[j] \in Int
  BY DEF TypeOK, AllPoints
<1>2. /\ Row(i, p, col_active) = Row(i, p, Support(i))
      /\ Row(i, p, Support(i)) \in Int
  BY <1>1, RowSupport
<1> DEFINE U == Cols \ col_active
<1>3. U \in SUBSET Cols /\ Cols \ U = col_active /\ Cols \in SUBSET Cols
  BY <1>1
<1>4. Row(i, p, Cols) = Row(i, p, U) + Row(i, p, col_active) /\ Row(i, p, U) \in Int
  <2>1. Row(i, p, Cols) = Row(i, p, U) + Row(i, p, Cols \ U) /\ Row(i, p, U) \in Int
    <3> HIDE DEF U
    <3>1. QED
      BY <1>1, <1>3, RowUnion
  <2>2. QED
    BY <1>3, <2>1
<1>5. Row(i, p, U) = Row(i, fixed_value, U)
  BY <1>1, RowEqual
<1>6. range[i] = Shifted(Original(i), Row(i, p, U))
  BY <1>5 DEF ShiftInv, Used
<1>7. Original(i) \in Interval
  BY <1>1, Model
<1> HIDE DEF U
<1>8. QED
  BY <1>2, <1>4, <1>6, <1>7, ShiftSound

\* Both ways to tell the points that are left agree.
LEMMA HoldsIsStands ==
  ASSUME TypeOK, ShiftInv, NEW p \in AllPoints
  PROVE  Holds(p) <=> Stands(p)
<1>1. ASSUME InBox(p), NEW i \in row_active
      PROVE  Within(Row(i, p, Cols), Original(i)) <=> Within(Row(i, p, col_active), range[i])
  <2>1. \A j \in Cols \ col_active : p[j] = fixed_value[j]
    BY <1>1 DEF InBox
  <2>2. QED
    BY <1>1, <2>1, Translation
<1>2. QED
  BY <1>1 DEF Holds, Stands

\* A range is an interval, open where the caller's row is.
LEMMA RangeSides ==
  ASSUME TypeOK, ShiftInv, NEW i \in row_active
  PROVE  /\ range[i] \in Interval /\ Original(i) \in Interval
         /\ Finite(range[i].lo) <=> Finite(Original(i).lo)
         /\ Finite(range[i].hi) <=> Finite(Original(i).hi)
<1>1. i \in Rows /\ problem \in Problems /\ range[i] \in Interval /\ Original(i) \in Interval
  <2>1. i \in Rows /\ problem \in Problems /\ range[i] \in Interval
    BY DEF TypeOK
  <2>2. QED
    BY <2>1, Model
<1>2. Used(i) \in Int
  <2>1. Cols \ col_active \in SUBSET Cols /\ \A j \in Cols \ col_active : fixed_value[j] \in Int
    BY DEF TypeOK
  <2>2. Cols \ col_active \in SUBSET (Cols \ col_active)
    OBVIOUS
  <2>3. QED
    BY <1>1, <2>1, <2>2, RowUnion DEF Used
<1>3. range[i] = Shifted(Original(i), Used(i))
  BY DEF ShiftInv
<1>4. 0 \in Int /\ 0 \in Nat
  OBVIOUS
<1>5. QED
  BY <1>1, <1>2, <1>3, <1>4, ShiftSound

\* A finite activity bounds the row of every point in the box, and is reached
\* only where every column is at the bound the activity takes.
LEMMA Activities ==
  ASSUME TypeOK, NEW i \in Rows, NEW p \in AllPoints, InBox(p)
  PROVE  /\ Finite(MinActivity(i)) =>
              /\ MinActivity(i) <= Row(i, p, Support(i))
              /\ MinActivity(i) = Row(i, p, Support(i)) => \A j \in Support(i) : p[j] = MinBound(i)[j]
         /\ Finite(MaxActivity(i)) =>
              /\ Row(i, p, Support(i)) <= MaxActivity(i)
              /\ MaxActivity(i) = Row(i, p, Support(i)) => \A j \in Support(i) : p[j] = MaxBound(i)[j]
<1> DEFINE S == Support(i)
           a == problem.A[i]
<1>1. /\ IsFiniteSet(S) /\ S \subseteq Cols
      /\ \A j \in S : a[j] \in {-1, 1} /\ p[j] \in Int /\ Within(p[j], bound[j])
      /\ \A j \in S : a[j] \in Int
  <2>1. S \subseteq Cols /\ S \subseteq col_active
    BY DEF TypeOK, Support
  <2>2. problem \in Problems
    BY DEF TypeOK
  <2>3. IsFiniteSet(S)
    BY <2>1, <2>2, Model
  <2>4. \A j \in S : a[j] \in {-1, 0, 1} /\ a[j] # 0
    BY <2>1, <2>2, Model DEF Support
  <2>5. \A j \in S : p[j] \in Int /\ Within(p[j], bound[j])
    BY <2>1 DEF AllPoints, InBox
  <2>6. QED
    BY <2>1, <2>3, <2>4, <2>5
<1>2. ASSUME NEW j \in S
      PROVE  /\ Finite(MinBound(i)[j]) => a[j] * MinBound(i)[j] <= a[j] * p[j]
             /\ Finite(MaxBound(i)[j]) => a[j] * p[j] <= a[j] * MaxBound(i)[j]
  <2>1. /\ MinBound(i)[j] = (IF a[j] > 0 THEN bound[j].lo ELSE bound[j].hi)
        /\ MaxBound(i)[j] = (IF a[j] > 0 THEN bound[j].hi ELSE bound[j].lo)
    BY <1>1 DEF MinBound, MaxBound
  <2>2. /\ Finite(bound[j].lo) => bound[j].lo <= p[j]
        /\ Finite(bound[j].hi) => p[j] <= bound[j].hi
    BY <1>1 DEF Within
  <2>3. a[j] \in {-1, 1} /\ p[j] \in Int
    BY <1>1
  <2> HIDE DEF S, a
  <2>4. CASE a[j] = 1
    BY <2>1, <2>2, <2>3, <2>4 DEF Finite
  <2>5. CASE a[j] = -1
    BY <2>1, <2>2, <2>3, <2>5 DEF Finite
  <2>6. QED
    BY <2>3, <2>4, <2>5
<1>3. \A q : Row(i, q, S) = Line(a, q, S)
  BY RowIsLine
<1>4. ASSUME NEW end, Finite(Extreme(i, end))
      PROVE  (\A j \in S : end[j] \in Int) /\ Extreme(i, end) = Line(a, end, S)
  <2>1. Unbounded(i, end) = {}
    BY <1>4, OpenIsNoNumber DEF Extreme, Finite
  <2>2. Extreme(i, end) = Row(i, end, Support(i))
    BY <2>1 DEF Extreme
  <2>3. QED
    BY <1>3, <2>1, <2>2 DEF Unbounded, Finite
<1>5. ASSUME Finite(MinActivity(i))
      PROVE  /\ MinActivity(i) <= Row(i, p, S)
             /\ MinActivity(i) = Row(i, p, S) => \A j \in S : p[j] = MinBound(i)[j]
  <2>1. (\A j \in S : MinBound(i)[j] \in Int) /\ MinActivity(i) = Line(a, MinBound(i), S)
    BY <1>4, <1>5 DEF MinActivity
  <2>2. \A j \in S : a[j] * MinBound(i)[j] <= a[j] * p[j]
    BY <1>2, <2>1 DEF Finite
  <2> HIDE DEF S, a
  <2>3. /\ Line(a, MinBound(i), S) <= Line(a, p, S)
        /\ Line(a, MinBound(i), S) = Line(a, p, S) => \A j \in S : a[j] * MinBound(i)[j] = a[j] * p[j]
    BY <1>1, <2>1, <2>2, LineOrder
  <2>4. \A j \in S : a[j] * MinBound(i)[j] = a[j] * p[j] => MinBound(i)[j] = p[j]
    BY <1>1, <2>1
  <2>5. QED
    BY <1>3, <2>1, <2>3, <2>4
<1>6. ASSUME Finite(MaxActivity(i))
      PROVE  /\ Row(i, p, S) <= MaxActivity(i)
             /\ MaxActivity(i) = Row(i, p, S) => \A j \in S : p[j] = MaxBound(i)[j]
  <2>1. (\A j \in S : MaxBound(i)[j] \in Int) /\ MaxActivity(i) = Line(a, MaxBound(i), S)
    BY <1>4, <1>6 DEF MaxActivity
  <2>2. \A j \in S : a[j] * p[j] <= a[j] * MaxBound(i)[j]
    BY <1>2, <2>1 DEF Finite
  <2> HIDE DEF S, a
  <2>3. /\ Line(a, p, S) <= Line(a, MaxBound(i), S)
        /\ Line(a, p, S) = Line(a, MaxBound(i), S) => \A j \in S : a[j] * p[j] = a[j] * MaxBound(i)[j]
    BY <1>1, <2>1, <2>2, LineOrder
  <2>4. \A j \in S : a[j] * MaxBound(i)[j] = a[j] * p[j] => MaxBound(i)[j] = p[j]
    BY <1>1, <2>1
  <2>5. QED
    BY <1>3, <2>1, <2>3, <2>4
<1>7. QED
  BY <1>5, <1>6

\* What the rest of a row contributes at least, or at most.
LEMMA RestSound ==
  ASSUME TypeOK, NEW i \in Rows, NEW j \in Support(i), NEW p \in AllPoints, InBox(p)
  PROVE  /\ Row(i, p, Support(i)) = problem.A[i][j] * p[j] + Row(i, p, Support(i) \ {j})
         /\ Row(i, p, Support(i) \ {j}) \in Int
         /\ Finite(Rest(i, j, MinBound(i))) => Rest(i, j, MinBound(i)) <= Row(i, p, Support(i) \ {j})
         /\ Finite(Rest(i, j, MaxBound(i))) => Row(i, p, Support(i) \ {j}) <= Rest(i, j, MaxBound(i))
<1> DEFINE S == Support(i)
           R == Support(i) \ {j}
           a == problem.A[i]
<1>1. /\ IsFiniteSet(S) /\ IsFiniteSet(R) /\ S \subseteq Cols /\ R \subseteq S /\ j \in S
      /\ \A k \in S : a[k] \in {-1, 1} /\ a[k] \in Int /\ p[k] \in Int /\ Within(p[k], bound[k])
  <2>1. S \subseteq Cols /\ S \subseteq col_active /\ R \subseteq S
    BY DEF TypeOK, Support
  <2>2. problem \in Problems
    BY DEF TypeOK
  <2>3. IsFiniteSet(S) /\ IsFiniteSet(R)
    BY <2>1, <2>2, Model
  <2>4. \A k \in S : a[k] \in {-1, 0, 1} /\ a[k] # 0
    BY <2>1, <2>2, Model DEF Support
  <2>5. \A k \in S : p[k] \in Int /\ Within(p[k], bound[k])
    BY <2>1 DEF AllPoints, InBox
  <2>6. QED
    BY <2>1, <2>3, <2>4, <2>5
<1>2. ASSUME NEW k \in R
      PROVE  /\ Finite(MinBound(i)[k]) => a[k] * MinBound(i)[k] <= a[k] * p[k]
             /\ Finite(MaxBound(i)[k]) => a[k] * p[k] <= a[k] * MaxBound(i)[k]
  <2>1. /\ MinBound(i)[k] = (IF a[k] > 0 THEN bound[k].lo ELSE bound[k].hi)
        /\ MaxBound(i)[k] = (IF a[k] > 0 THEN bound[k].hi ELSE bound[k].lo)
    BY <1>1 DEF MinBound, MaxBound
  <2>2. /\ Finite(bound[k].lo) => bound[k].lo <= p[k]
        /\ Finite(bound[k].hi) => p[k] <= bound[k].hi
    BY <1>1 DEF Within
  <2>3. a[k] \in {-1, 1} /\ p[k] \in Int
    BY <1>1
  <2> HIDE DEF S, R, a
  <2>4. CASE a[k] = 1
    BY <2>1, <2>2, <2>3, <2>4 DEF Finite
  <2>5. CASE a[k] = -1
    BY <2>1, <2>2, <2>3, <2>5 DEF Finite
  <2>6. QED
    BY <2>3, <2>4, <2>5
<1>3. \A q, T : Row(i, q, T) = Line(a, q, T)
  BY RowIsLine
<1>4. ASSUME NEW end, Finite(Rest(i, j, end))
      PROVE  (\A k \in R : end[k] \in Int) /\ Rest(i, j, end) = Line(a, end, R)
  <2>1. Unbounded(i, end) \subseteq {j}
    BY <1>4, OpenIsNoNumber DEF Rest, Finite
  <2>2. Rest(i, j, end) = Row(i, end, Support(i) \ {j})
    BY <2>1 DEF Rest
  <2>3. QED
    BY <1>3, <2>1, <2>2 DEF Unbounded, Finite
<1>5. Line(a, p, S) = a[j] * p[j] + Line(a, p, R)
  <2>1. \A k \in S : a[k] \in Int /\ p[k] \in Int
    BY <1>1
  <2>2. IsFiniteSet(S) /\ j \in S
    BY <1>1
  <2>3. R = S \ {j}
    OBVIOUS
  <2> HIDE DEF S, R, a
  <2>4. Line(a, p, S) = a[j] * p[j] + Line(a, p, S \ {j})
    BY <2>1, <2>2, LineSplit
  <2>5. QED
    BY <2>3, <2>4
<1>6. Line(a, p, R) \in Int
  <2>1. \A k \in R : a[k] \in Int /\ p[k] \in Int
    BY <1>1
  <2>2. IsFiniteSet(R)
    BY <1>1
  <2> HIDE DEF R, a
  <2>3. QED
    BY <2>1, <2>2, LineType
<1>7. ASSUME Finite(Rest(i, j, MinBound(i)))
      PROVE  Rest(i, j, MinBound(i)) <= Line(a, p, R)
  <2>1. (\A k \in R : MinBound(i)[k] \in Int) /\ Rest(i, j, MinBound(i)) = Line(a, MinBound(i), R)
    BY <1>4, <1>7
  <2>2. \A k \in R : a[k] * MinBound(i)[k] <= a[k] * p[k]
    BY <1>2, <2>1 DEF Finite
  <2>3. IsFiniteSet(R) /\ \A k \in R : a[k] \in Int /\ p[k] \in Int
    BY <1>1
  <2> HIDE DEF R, a
  <2>4. QED
    BY <2>1, <2>2, <2>3, LineOrder
<1>8. ASSUME Finite(Rest(i, j, MaxBound(i)))
      PROVE  Line(a, p, R) <= Rest(i, j, MaxBound(i))
  <2>1. (\A k \in R : MaxBound(i)[k] \in Int) /\ Rest(i, j, MaxBound(i)) = Line(a, MaxBound(i), R)
    BY <1>4, <1>8
  <2>2. \A k \in R : a[k] * p[k] <= a[k] * MaxBound(i)[k]
    BY <1>2, <2>1 DEF Finite
  <2>3. IsFiniteSet(R) /\ \A k \in R : a[k] \in Int /\ p[k] \in Int
    BY <1>1
  <2> HIDE DEF R, a
  <2>4. QED
    BY <2>1, <2>2, <2>3, LineOrder
<1>9. QED
  BY <1>3, <1>5, <1>6, <1>7, <1>8

\* Dividing by a coefficient of one: the arithmetic of a limit.
LEMMA LimitArithmetic ==
  ASSUME NEW a \in {-1, 1}, NEW side \in Int, NEW rest \in Int, NEW r \in Int, NEW v \in Int
  PROVE  /\ a * (side - rest) \in Int
         /\ a * v + r <= side /\ rest <= r =>
              IF a > 0 THEN v <= a * (side - rest) ELSE v >= a * (side - rest)
         /\ a * v + r >= side /\ rest >= r =>
              IF a > 0 THEN v >= a * (side - rest) ELSE v <= a * (side - rest)
<1>1. CASE a = 1
  BY <1>1
<1>2. CASE a = -1
  BY <1>2
<1>3. QED
  BY <1>1, <1>2

\* A bound proposed by propagation holds of every point in the box and the row.
LEMMA ProposedSound ==
  ASSUME TypeOK, NEW i \in Rows, NEW j \in Support(i)
  PROVE  /\ Proposed(i, j) \in Interval
         /\ \A p \in AllPoints :
              InBox(p) /\ Within(Row(i, p, Support(i)), range[i]) => Within(p[j], Proposed(i, j))
<1> DEFINE a == problem.A[i][j]
<1>1. a \in {-1, 1} /\ j \in Cols
  <2>1. problem \in Problems /\ j \in Cols /\ a # 0
    BY DEF TypeOK, Support
  <2>2. QED
    BY <2>1, Model
<1>2. range[i] \in Interval
  BY DEF TypeOK
<1>3. ASSUME NEW side, NEW end
      PROVE  /\ Limit(i, j, side, end) \in Int \cup {Infinity}
             /\ Finite(Limit(i, j, side, end)) =>
                  /\ side \in Int /\ Rest(i, j, end) \in Int
                  /\ Limit(i, j, side, end) = a * (side - Rest(i, j, end))
  <2>1. CASE Finite(side) /\ Finite(Rest(i, j, end))
    <3>1. Limit(i, j, side, end) = a * (side - Rest(i, j, end))
      BY <2>1 DEF Limit
    <3> DEFINE rest == Rest(i, j, end)
    <3>2. side \in Int /\ rest \in Int
      BY <2>1 DEF Finite
    <3> HIDE DEF rest, a
    <3>3. a * (side - rest) \in Int
      BY <1>1, <3>2, LimitArithmetic
    <3>4. QED
      BY <3>1, <3>2, <3>3 DEF rest
  <2>2. CASE ~ (Finite(side) /\ Finite(Rest(i, j, end)))
    BY <2>2, OpenIsNoNumber DEF Limit, Finite
  <2>3. QED
    BY <2>1, <2>2
<1> DEFINE U == FromUpper(i, j)
           L == FromLower(i, j)
<1>4. U \in Int \cup {Infinity} /\ L \in Int \cup {Infinity}
  BY <1>3 DEF FromUpper, FromLower
<1>5. Proposed(i, j) = IF a > 0 THEN [lo |-> L, hi |-> U] ELSE [lo |-> U, hi |-> L]
  BY DEF Proposed
<1>6. Proposed(i, j) \in Interval
  <2> HIDE DEF U, L, a
  <2>1. [lo |-> L, hi |-> U] \in Interval /\ [lo |-> U, hi |-> L] \in Interval
    BY <1>4 DEF Interval
  <2>2. QED
    BY <1>5, <2>1
<1>7. ASSUME NEW p \in AllPoints, InBox(p), Within(Row(i, p, Support(i)), range[i])
      PROVE  Within(p[j], Proposed(i, j))
  <2> DEFINE r == Row(i, p, Support(i) \ {j})
             v == p[j]
             lower == Rest(i, j, MinBound(i))
             upper == Rest(i, j, MaxBound(i))
  <2>1. /\ Row(i, p, Support(i)) = a * v + r /\ r \in Int /\ v \in Int
        /\ Finite(lower) => lower <= r
        /\ Finite(upper) => r <= upper
    <3>1. v \in Int
      BY <1>1 DEF AllPoints
    <3>2. QED
      BY <1>7, <3>1, RestSound
  <2>2. /\ Finite(range[i].lo) => range[i].lo <= a * v + r
        /\ Finite(range[i].hi) => a * v + r <= range[i].hi
    BY <1>7, <2>1 DEF Within
  <2>3. Finite(U) => range[i].hi \in Int /\ lower \in Int /\ U = a * (range[i].hi - lower)
    BY <1>3 DEF FromUpper
  <2>4. Finite(L) => range[i].lo \in Int /\ upper \in Int /\ L = a * (range[i].lo - upper)
    BY <1>3 DEF FromLower
  <2> HIDE DEF a, r, v, lower, upper, U, L
  <2>5. Finite(U) => IF a > 0 THEN v <= U ELSE v >= U
    <3> SUFFICES ASSUME Finite(U)
                 PROVE  IF a > 0 THEN v <= U ELSE v >= U
      OBVIOUS
    <3>1. range[i].hi \in Int /\ lower \in Int /\ U = a * (range[i].hi - lower) /\ lower <= r
      BY <2>1, <2>3 DEF Finite
    <3>2. a * v + r <= range[i].hi
      BY <2>2, <3>1 DEF Finite
    <3> DEFINE side == range[i].hi
    <3> HIDE DEF side
    <3>3. side \in Int /\ a * v + r <= side /\ U = a * (side - lower)
      BY <3>1, <3>2 DEF side
    <3>4. IF a > 0 THEN v <= a * (side - lower) ELSE v >= a * (side - lower)
      BY <1>1, <2>1, <3>1, <3>3, LimitArithmetic
    <3>5. QED
      BY <3>3, <3>4
  <2>6. Finite(L) => IF a > 0 THEN v >= L ELSE v <= L
    <3> SUFFICES ASSUME Finite(L)
                 PROVE  IF a > 0 THEN v >= L ELSE v <= L
      OBVIOUS
    <3>1. range[i].lo \in Int /\ upper \in Int /\ L = a * (range[i].lo - upper) /\ r <= upper
      BY <2>1, <2>4 DEF Finite
    <3>2. range[i].lo <= a * v + r
      BY <2>2, <3>1 DEF Finite
    <3> DEFINE side == range[i].lo
    <3> HIDE DEF side
    <3>3. side \in Int /\ side <= a * v + r /\ L = a * (side - upper)
      BY <3>1, <3>2 DEF side
    <3>4. a * v + r \in Int
      BY <1>1, <2>1
    <3>5. a * v + r >= side /\ upper >= r
      BY <2>1, <3>1, <3>3, <3>4
    <3>6. IF a > 0 THEN v >= a * (side - upper) ELSE v <= a * (side - upper)
      BY <1>1, <2>1, <3>1, <3>3, <3>5, LimitArithmetic
    <3>7. QED
      BY <3>3, <3>6
  <2>7. CASE a > 0
    <3>1. Proposed(i, j).lo = L /\ Proposed(i, j).hi = U
      BY <1>5, <2>7
    <3>2. QED
      BY <2>1, <2>5, <2>6, <2>7, <3>1 DEF Within, v, Finite
  <2>8. CASE ~ (a > 0)
    <3>1. Proposed(i, j).lo = U /\ Proposed(i, j).hi = L
      BY <1>5, <2>8
    <3>2. QED
      BY <2>1, <2>5, <2>6, <2>8, <3>1 DEF Within, v, Finite
  <2>9. QED
    BY <2>7, <2>8
<1>8. QED
  BY <1>6, <1>7

\* The bounds a singleton row implies are the row itself.
LEMMA ImpliedSound ==
  ASSUME TypeOK, CountsExact, at \in row_active, row_count[at] = 1
  PROVE  /\ Only \in Cols /\ Only \in col_active /\ Support(at) = {Only} /\ Implied \in Interval
         /\ problem.A[at][Only] \in {-1, 1}
         /\ \A p \in AllPoints :
              Within(Row(at, p, Support(at)), range[at]) <=> Within(p[Only], Implied)
<1> DEFINE a == problem.A[at]
<1>1. /\ at \in Rows /\ range[at] \in Interval /\ problem \in Problems
      /\ Support(at) \subseteq Cols /\ Support(at) \subseteq col_active
  BY DEF TypeOK, Support
<1>2. Support(at) = {Only} /\ Only \in Support(at)
  <2>1. Cardinality(Support(at)) = 1 /\ IsFiniteSet(Support(at))
    BY <1>1, Model DEF CountsExact
  <2>2. Support(at) # {}
    BY <2>1, FS_EmptySet
  <2>3. Only \in Support(at)
    BY <2>2 DEF Only
  <2>4. Cardinality(Support(at) \ {Only}) = 0 /\ IsFiniteSet(Support(at) \ {Only})
    BY <2>1, <2>3, FS_RemoveElement
  <2>5. Support(at) \ {Only} = {}
    BY <2>4, FS_EmptySet
  <2>6. QED
    BY <2>3, <2>5
<1>3. Only \in Cols /\ a[Only] \in {-1, 1}
  <2>1. Only \in Cols /\ a[Only] # 0
    BY <1>1, <1>2 DEF Support
  <2>2. QED
    BY <1>1, <2>1, Model
<1>4. \A p \in AllPoints : Row(at, p, Support(at)) = a[Only] * p[Only] /\ p[Only] \in Int
  <2> TAKE p \in AllPoints
  <2>1. p[Only] \in Int
    BY <1>3 DEF AllPoints
  <2>2. IsFiniteSet({Only}) /\ \A j \in {Only} : a[j] \in Int /\ p[j] \in Int
    <3>1. IsFiniteSet({Only})
      BY FS_Singleton
    <3>2. a[Only] \in Int
      BY <1>3
    <3> HIDE DEF a
    <3>3. QED
      BY <2>1, <3>1, <3>2
  <2>3. Line(a, p, {Only}) = a[Only] * p[Only] + Line(a, p, {Only} \ {Only})
    <3> HIDE DEF a
    <3>1. QED
      BY <2>2, LineSplit
  <2>4. {Only} \ {Only} = {}
    OBVIOUS
  <2>5. Line(a, p, {Only} \ {Only}) = 0
    BY <2>4, LineEmpty
  <2>6. Row(at, p, Support(at)) = Line(a, p, {Only})
    BY <1>2, RowIsLine
  <2> HIDE DEF a
  <2>7. QED
    BY <1>3, <2>1, <2>3, <2>5, <2>6
<1>5. /\ range[at].lo \in Int \/ range[at].lo = Infinity
      /\ range[at].hi \in Int \/ range[at].hi = Infinity
  BY <1>1, Sides
<1>6. Implied = IF a[Only] > 0 THEN range[at]
                ELSE [lo |-> Minus(0, range[at].hi), hi |-> Minus(0, range[at].lo)]
  BY DEF Implied
<1>7. /\ range[at].lo \in Int => Minus(0, range[at].lo) = - range[at].lo
      /\ range[at].hi \in Int => Minus(0, range[at].hi) = - range[at].hi
      /\ range[at].lo = Infinity => Minus(0, range[at].lo) = Infinity
      /\ range[at].hi = Infinity => Minus(0, range[at].hi) = Infinity
  BY OpenIsNoNumber DEF Minus, Finite
<1> HIDE DEF a
<1>8. Implied \in Interval
  <2>1. Minus(0, range[at].lo) \in Int \cup {Infinity} /\ Minus(0, range[at].hi) \in Int \cup {Infinity}
    BY <1>5, <1>7
  <2>2. [lo |-> Minus(0, range[at].hi), hi |-> Minus(0, range[at].lo)] \in Interval
    BY <2>1 DEF Interval
  <2>3. QED
    BY <1>1, <1>6, <2>2
<1>9. ASSUME NEW p \in AllPoints
      PROVE  Within(a[Only] * p[Only], range[at]) <=> Within(p[Only], Implied)
  <2>1. p[Only] \in Int
    BY <1>4
  <2>2. CASE a[Only] = 1
    BY <1>6, <2>1, <2>2
  <2>3. CASE a[Only] = -1
    <3>1. Implied.lo = Minus(0, range[at].hi) /\ Implied.hi = Minus(0, range[at].lo)
      BY <1>6, <2>3
    <3>2. a[Only] * p[Only] = - p[Only]
      BY <2>1, <2>3
    <3>3. QED
      BY <1>5, <1>7, <2>1, <3>1, <3>2, OpenIsNoNumber DEF Within, Finite
  <2>4. QED
    BY <1>3, <2>2, <2>3
<1>10. QED
  BY <1>2, <1>3, <1>4, <1>8, <1>9, <1>1 DEF a

-----------------------------------------------------------------------------
(***************************************************************************)
(* What the parts of a reduction do to the working model.                  *)
(***************************************************************************)
\* The part of the invariant that is about the working model, and its types.
DataTypes ==
    /\ problem \in Problems
    /\ range \in [Rows -> Interval] /\ bound \in [Cols -> Interval]
    /\ row_active \subseteq Rows /\ col_active \subseteq Cols
    /\ row_count \in [Rows -> 0 .. NCols] /\ col_count \in [Cols -> 0 .. NRows]
    /\ fixed_value \in [Cols -> Int]

DataInv == /\ DataTypes /\ CountsExact /\ BoundInv /\ ShiftInv /\ FixedInv
           /\ DroppedInv /\ KeptInv /\ OpenInv

\* The caller's model is not touched.
LEMMA CallerUntouched ==
  ASSUME problem' = problem
  PROVE  /\ \A i : Original(i)' = Original(i)
         /\ \A i, p, S : Row(i, p, S)' = Row(i, p, S)
         /\ \A p : Cost(p)' = Cost(p)
         /\ \A p : Satisfies(p)' = Satisfies(p)
         /\ \A p : Acceptable(p)' = Acceptable(p)
BY DEF Original, Row, Cost, Satisfies, Acceptable

\* Counting the members of a set that are counted by a number.
LEMMA CountType ==
  ASSUME NEW n \in Nat, NEW S \in SUBSET (1 .. n)
  PROVE  IsFiniteSet(S) /\ Cardinality(S) \in 0 .. n
<1>1. IsFiniteSet(1 .. n) /\ Cardinality(1 .. n) = n
  BY FS_Interval
<1>2. IsFiniteSet(S) /\ Cardinality(S) <= n /\ Cardinality(S) \in Nat
  BY <1>1, FS_Subset, FS_CardinalityType
<1>3. QED
  BY <1>2

\* fix_column(): the rows that stay are shifted and counted.
LEMMA FixEffect ==
  ASSUME TypeOK, CountsExact, ShiftInv, NEW S \in SUBSET col_active,
         NEW value, \A j \in S : value[j] \in Int,
         FixColumns(S, value), problem' = problem, row_active' \subseteq row_active
  PROVE  /\ range' \in [Rows -> Interval]
         /\ col_active' = col_active \ S
         /\ fixed_value' \in [Cols -> Int]
         /\ \A j \in S : fixed_value'[j] = value[j]
         /\ \A j \in Cols \ S : fixed_value'[j] = fixed_value[j]
         /\ row_count' \in [Rows -> 0 .. NCols]
         /\ \A i \in row_active' : row_count'[i] = Cardinality(Support(i)')
         /\ ShiftInv'
<1>1. /\ col_active' = col_active \ S
      /\ fixed_value' = [j \in Cols |-> IF j \in S THEN value[j] ELSE fixed_value[j]]
      /\ row_count' = [i \in Rows |-> IF i \in row_active
                                      THEN row_count[i] - Cardinality(Support(i) \cap S)
                                      ELSE row_count[i]]
  BY DEF FixColumns
<1>2. /\ S \in SUBSET Cols /\ problem \in Problems /\ row_active \subseteq Rows
      /\ col_active \subseteq Cols /\ fixed_value \in [Cols -> Int]
      /\ range \in [Rows -> Interval] /\ row_count \in [Rows -> 0 .. NCols]
  BY DEF TypeOK
<1>3. /\ fixed_value' \in [Cols -> Int]
      /\ \A j \in S : fixed_value'[j] = value[j]
      /\ \A j \in Cols \ S : fixed_value'[j] = fixed_value[j]
  BY <1>1, <1>2
<1>4. ASSUME NEW i \in row_active
      PROVE  Row(i, value, S) \in Int
  <2>1. S \in SUBSET S /\ i \in Rows
    BY <1>2
  <2>2. QED
    BY <1>2, <2>1, RowUnion
<1>5. ASSUME NEW i \in row_active
      PROVE  range'[i] = Shifted(range[i], Row(i, value, S))
  <2> DEFINE f == Row(i, value, S)
  <2>1. range'[i] = [lo |-> IF Finite(range[i].lo) THEN range[i].lo - f ELSE range[i].lo,
                     hi |-> IF Finite(range[i].hi) THEN range[i].hi - f ELSE range[i].hi]
    BY <1>2 DEF FixColumns
  <2>2. range[i] \in Interval
    BY <1>2
  <2>3. /\ range[i].lo \in Int \/ range[i].lo = Infinity
        /\ range[i].hi \in Int \/ range[i].hi = Infinity
    BY <2>2, Sides
  <2> HIDE DEF f
  <2>4. /\ (IF Finite(range[i].lo) THEN range[i].lo - f ELSE range[i].lo) = Shift(range[i].lo, f)
        /\ (IF Finite(range[i].hi) THEN range[i].hi - f ELSE range[i].hi) = Shift(range[i].hi, f)
    BY <2>3 DEF Shift, Finite
  <2>5. range'[i] = Shifted(range[i], f)
    BY <2>1, <2>4 DEF Shifted
  <2>6. QED
    BY <2>5 DEF f
<1>6. ASSUME NEW i \in row_active
      PROVE  Shifted(range[i], Row(i, value, S)) \in Interval
  BY <1>2, <1>4, ShiftSound
<1>7. range' \in [Rows -> Interval]
  <2>1. range' = [i \in Rows |-> range'[i]]
    BY DEF FixColumns
  <2>2. ASSUME NEW i \in Rows
        PROVE  range'[i] \in Interval
    <3>1. CASE i \in row_active
      BY <1>5, <1>6, <3>1
    <3>2. CASE i \notin row_active
      BY <1>2, <3>2 DEF FixColumns
    <3>3. QED
      BY <3>1, <3>2
  <2>3. QED
    BY <2>1, <2>2
<1>8. ShiftInv'
  <2> SUFFICES ASSUME NEW i \in row_active'
               PROVE  range'[i] = Shifted(Original(i)', Used(i)')
    BY DEF ShiftInv
  <2>1. i \in row_active /\ i \in Rows
    BY <1>2
  <2>2. Original(i)' = Original(i) /\ Original(i) \in Interval
    BY <1>2, <2>1, Model, CallerUntouched
  <2> DEFINE U == Cols \ col_active
             V == Cols \ col_active'
  <2>3. S \in SUBSET V /\ V \in SUBSET Cols /\ V \ S = U /\ U \in SUBSET Cols
    BY <1>1, <1>2
  <2>4. \A j \in V : fixed_value'[j] \in Int
    BY <1>3
  <2>5. Used(i)' = Row(i, fixed_value', V)
    BY DEF Used, Row
  <2>6. Row(i, fixed_value', V) = Row(i, fixed_value', S) + Row(i, fixed_value', V \ S)
    <3> HIDE DEF V, U
    <3>1. QED
      BY <1>2, <2>1, <2>3, <2>4, RowUnion
  <2>7. Row(i, fixed_value', S) = Row(i, value, S)
    <3>1. \A j \in S : fixed_value'[j] \in Int /\ fixed_value'[j] = value[j]
      BY <1>3
    <3>2. QED
      BY <1>2, <2>1, <3>1, RowEqual
  <2>8. Row(i, fixed_value', V \ S) = Used(i) /\ Used(i) \in Int
    <3>1. \A j \in U : fixed_value'[j] \in Int /\ fixed_value'[j] = fixed_value[j] /\ fixed_value[j] \in Int
      BY <1>2, <1>3
    <3>2. Row(i, fixed_value', U) = Row(i, fixed_value, U)
      <4> HIDE DEF U
      <4>1. QED
        BY <1>2, <2>1, <2>3, <3>1, RowEqual
    <3>3. Row(i, fixed_value, U) \in Int
      <4>1. U \in SUBSET U
        OBVIOUS
      <4> HIDE DEF U
      <4>2. QED
        BY <1>2, <2>1, <2>3, <3>1, <4>1, RowUnion
    <3>4. Used(i) = Row(i, fixed_value, U)
      BY DEF Used
    <3> HIDE DEF U, V
    <3>5. QED
      BY <2>3, <3>2, <3>3, <3>4
  <2>9. range[i] = Shifted(Original(i), Used(i))
    BY <2>1 DEF ShiftInv
  <2>10. Shifted(range[i], Row(i, value, S)) = Shifted(Original(i), Used(i) + Row(i, value, S))
    BY <1>4, <2>1, <2>2, <2>8, <2>9, ShiftAgain
  <2>11. Used(i)' = Used(i) + Row(i, value, S)
    BY <1>4, <2>1, <2>5, <2>6, <2>7, <2>8
  <2>12. QED
    BY <1>5, <2>1, <2>2, <2>10, <2>11
<1>9. ASSUME NEW i \in row_active
      PROVE  /\ row_count'[i] = Cardinality(Support(i)')
             /\ Cardinality(Support(i)') \in 0 .. NCols
  <2>1. Support(i)' = Support(i) \ S
    BY <1>1 DEF Support
  <2>2. Support(i) \in SUBSET Cols /\ Support(i) \ S \in SUBSET Cols
    BY <1>2 DEF Support
  <2>3. IsFiniteSet(Support(i)) /\ Cardinality(Support(i) \ S) \in 0 .. NCols
    BY <2>2, CountType, SizeAssumption DEF Cols
  <2>4. Cardinality(Support(i) \ S) = Cardinality(Support(i)) - Cardinality(Support(i) \cap S)
    BY <2>3, FS_Difference
  <2>5. row_count[i] = Cardinality(Support(i))
    BY DEF CountsExact
  <2>6. QED
    BY <1>1, <1>2, <2>1, <2>3, <2>4, <2>5
<1>10. row_count' \in [Rows -> 0 .. NCols]
  <2>1. row_count' = [i \in Rows |-> row_count'[i]]
    BY <1>1
  <2>2. ASSUME NEW i \in Rows
        PROVE  row_count'[i] \in 0 .. NCols
    <3>1. CASE i \in row_active
      BY <1>9, <3>1
    <3>2. CASE i \notin row_active
      BY <1>1, <1>2, <3>2
    <3>3. QED
      BY <3>1, <3>2
  <2>3. QED
    BY <2>1, <2>2
<1>11. QED
  BY <1>1, <1>3, <1>7, <1>8, <1>9, <1>10

\* Without a column fixed, the rows that stay are as they were.
LEMMA RowsKept ==
  ASSUME TypeOK, CountsExact, ShiftInv, row_active' \subseteq row_active,
         problem' = problem, range' = range, col_active' = col_active,
         row_count' = row_count, fixed_value' = fixed_value
  PROVE  /\ \A i \in row_active' : row_count'[i] = Cardinality(Support(i)')
         /\ ShiftInv'
<1>1. \A i : Support(i)' = Support(i)
  BY DEF Support
<1>2. \A i : Original(i)' = Original(i) /\ Used(i)' = Used(i)
  BY DEF Original, Used, Row
<1>3. ShiftInv'
  BY <1>2 DEF ShiftInv
<1>4. QED
  BY <1>1, <1>3 DEF CountsExact

\* drop_row(): the columns that stay are counted.
LEMMA DropEffect ==
  ASSUME TypeOK, CountsExact, NEW i \in row_active, DropRow(i, col_active'),
         problem' = problem, col_active' \subseteq col_active
  PROVE  /\ row_active' = row_active \ {i}
         /\ col_count' \in [Cols -> 0 .. NRows]
         /\ \A j \in col_active' :
               col_count'[j] = Cardinality({k \in row_active' : problem'.A[k][j] # 0})
<1> DEFINE Using(j, T) == {k \in T : problem.A[k][j] # 0}
<1>1. /\ row_active' = row_active \ {i}
      /\ col_count' = [j \in Cols |-> IF j \in col_active' /\ problem.A[i][j] # 0
                                      THEN col_count[j] - 1 ELSE col_count[j]]
  BY DEF DropRow
<1>2. row_active \subseteq Rows /\ col_active \subseteq Cols /\ col_count \in [Cols -> 0 .. NRows]
  BY DEF TypeOK
<1>3. ASSUME NEW j \in col_active'
      PROVE  /\ col_count'[j] = Cardinality(Using(j, row_active'))
             /\ Cardinality(Using(j, row_active')) \in 0 .. NRows
  <2>1. j \in col_active /\ j \in Cols
    BY <1>2
  <2>2. col_count[j] = Cardinality(Using(j, row_active))
    BY <2>1 DEF CountsExact
  <2>3. Using(j, row_active) \in SUBSET Rows /\ Using(j, row_active') \in SUBSET Rows
    BY <1>1, <1>2
  <2>4. IsFiniteSet(Using(j, row_active)) /\ Cardinality(Using(j, row_active')) \in 0 .. NRows
    BY <2>3, CountType, SizeAssumption DEF Rows
  <2>5. Using(j, row_active') = Using(j, row_active) \ {i}
    BY <1>1
  <2>6. i \in Using(j, row_active) <=> problem.A[i][j] # 0
    OBVIOUS
  <2> HIDE DEF Using
  <2>7. Cardinality(Using(j, row_active) \ {i}) =
          IF i \in Using(j, row_active) THEN Cardinality(Using(j, row_active)) - 1
                                        ELSE Cardinality(Using(j, row_active))
    BY <2>4, FS_RemoveElement
  <2>8. col_count'[j] = IF problem.A[i][j] # 0 THEN col_count[j] - 1 ELSE col_count[j]
    BY <1>1, <2>1
  <2>9. QED
    BY <2>2, <2>4, <2>5, <2>6, <2>7, <2>8
<1>4. col_count' \in [Cols -> 0 .. NRows]
  <2>1. col_count' = [j \in Cols |-> col_count'[j]]
    BY <1>1
  <2>2. ASSUME NEW j \in Cols
        PROVE  col_count'[j] \in 0 .. NRows
    <3>1. CASE j \in col_active'
      BY <1>3, <3>1
    <3>2. CASE j \notin col_active'
      BY <1>1, <1>2, <3>2
    <3>3. QED
      BY <3>1, <3>2
  <2>3. QED
    BY <2>1, <2>2
<1>5. QED
  BY <1>1, <1>3, <1>4

\* Without a row dropped, the columns that stay are counted as they were.
LEMMA ColumnsKept ==
  ASSUME TypeOK, CountsExact, problem' = problem, row_active' = row_active,
         col_count' = col_count, col_active' \subseteq col_active
  PROVE  \A j \in col_active' :
            col_count'[j] = Cardinality({k \in row_active' : problem'.A[k][j] # 0})
BY DEF CountsExact

\* Bounds stay or are tightened.
Narrowed ==
    /\ bound' = [j \in Cols |-> bound'[j]]
    /\ \A j \in Cols : \/ bound'[j] = bound[j]
                       \/ \E limits \in Interval : bound'[j] = Tightened(bound[j], limits)

\* What holds of a tightened bound.
Narrower(b, c) == /\ b \in Interval /\ c \in Interval /\ Tighter(b, c)
                  /\ CrossedBy(c, 0) => b = c
                  /\ ~ CrossedBy(c, 0) => ~ CrossedBy(b, 0)

LEMMA NarrowEffect ==
  ASSUME TypeOK, BoundInv, problem' = problem, Narrowed
  PROVE  /\ bound' \in [Cols -> Interval]
         /\ BoundInv'
         /\ \A j \in Cols : Narrower(bound'[j], bound[j])
         /\ \A j \in Cols : Narrower(bound'[j], problem.bound[j])
<1>1. ASSUME NEW j \in Cols
      PROVE  /\ Narrower(bound'[j], bound[j])
             /\ Narrower(bound[j], problem.bound[j])
             /\ Narrower(bound'[j], problem.bound[j])
  <2>1. bound[j] \in Interval /\ problem.bound[j] \in Interval
    BY Model DEF TypeOK
  <2>2. Narrower(bound[j], problem.bound[j])
    BY <2>1 DEF BoundInv, Narrower
  <2>3. Narrower(bound'[j], bound[j])
    <3>1. CASE bound'[j] = bound[j]
      <4>1. Tighter(bound[j], bound[j])
        BY <2>1, Sides DEF Tighter, Finite
      <4>2. QED
        BY <2>1, <3>1, <4>1 DEF Narrower
    <3>2. ASSUME NEW limits \in Interval, bound'[j] = Tightened(bound[j], limits)
          PROVE  Narrower(bound'[j], bound[j])
      BY <2>1, <3>2, TightenedSound DEF Narrower
    <3>3. QED
      BY <3>1, <3>2 DEF Narrowed
  <2>4. Narrower(bound'[j], problem.bound[j])
    BY <2>2, <2>3, TighterTransitive DEF Narrower
  <2>5. QED
    BY <2>2, <2>3, <2>4
<1>2. bound' \in [Cols -> Interval]
  BY <1>1 DEF Narrowed, Narrower
<1>3. BoundInv'
  BY <1>1 DEF BoundInv, Narrower
<1>4. QED
  BY <1>1, <1>2, <1>3

LEMMA BoundsKept ==
  ASSUME TypeOK, bound' = bound
  PROVE  Narrowed
BY DEF TypeOK, Narrowed

-----------------------------------------------------------------------------
(***************************************************************************)
(* A reduction keeps the working model in order, whatever it does, if it   *)
(* removes columns at values they may take, drops rows that are implied    *)
(* and keeps a point as good as any.                                       *)
(***************************************************************************)
LEMMA BoxShrinks ==
  ASSUME TypeOK, \A j \in Cols : Narrower(bound'[j], bound[j]),
         col_active' \subseteq col_active,
         \A j \in Cols \ col_active : fixed_value'[j] = fixed_value[j],
         \A j \in col_active \ col_active' : Within(fixed_value'[j], bound[j]),
         NEW p \in AllPoints, InBox(p)'
  PROVE  InBox(p)
<1>1. /\ \A j \in Cols \ col_active' : p[j] = fixed_value'[j]
      /\ \A j \in col_active' : Within(p[j], bound'[j])
  BY DEF InBox
<1>2. \A j \in Cols \ col_active : p[j] = fixed_value[j]
  BY <1>1
<1>3. ASSUME NEW j \in col_active
      PROVE  Within(p[j], bound[j])
  <2>1. j \in Cols
    BY DEF TypeOK
  <2>2. CASE j \in col_active'
    BY <1>1, <2>1, <2>2, TighterWithin DEF Narrower, AllPoints
  <2>3. CASE j \notin col_active'
    BY <1>1, <2>1, <2>3
  <2>4. QED
    BY <2>2, <2>3
<1>4. QED
  BY <1>2, <1>3 DEF InBox

LEMMA DataStep ==
  ASSUME TypeOK, DataInv, problem' = problem, Narrowed,
         row_active' \subseteq row_active, col_active' \subseteq col_active,
         range' \in [Rows -> Interval], row_count' \in [Rows -> 0 .. NCols],
         col_count' \in [Cols -> 0 .. NRows], fixed_value' \in [Cols -> Int],
         \A i \in row_active' : row_count'[i] = Cardinality(Support(i)'),
         \A j \in col_active' :
            col_count'[j] = Cardinality({k \in row_active' : problem'.A[k][j] # 0}),
         ShiftInv',
         \A j \in Cols \ col_active : fixed_value'[j] = fixed_value[j],
         \A j \in col_active \ col_active' : Between(fixed_value'[j], bound[j]),
         \/ row_active = Rows
         \/ \A j \in col_active \ col_active' : Within(fixed_value'[j], bound[j]),
         \A i \in row_active \ row_active' :
            /\ \A p \in AllPoints : InBox(p)' => ~ Misses(Row(i, p, Cols), Original(i), InfeasTol)
            /\ \A j \in col_active' : Leaves(i, j, bound'[j]),
         \A q \in AllPoints : Holds(q) => \E r \in AllPoints : Holds(r)' /\ Cost(r) <= Cost(q)
  PROVE  DataInv'
<1>1. /\ bound' \in [Cols -> Interval] /\ BoundInv'
      /\ \A j \in Cols : Narrower(bound'[j], bound[j])
      /\ \A j \in Cols : Narrower(bound'[j], problem.bound[j])
  BY NarrowEffect DEF DataInv
<1>2. DataTypes'
  <2>1. problem' \in Problems /\ row_active' \subseteq Rows /\ col_active' \subseteq Cols
    BY DEF TypeOK
  <2>2. QED
    BY <1>1, <2>1 DEF DataTypes
<1>3. CountsExact'
  BY DEF CountsExact
<1>4. FixedInv'
  <2>1. ASSUME NEW j \in Cols \ col_active'
        PROVE  Between(fixed_value'[j], problem.bound[j])
    <3>1. CASE j \notin col_active
      BY <3>1 DEF DataInv, FixedInv
    <3>2. CASE j \in col_active
      <4>1. Between(fixed_value'[j], bound[j]) /\ fixed_value'[j] \in Int
        BY <3>2
      <4>2. bound[j] \in Interval /\ problem.bound[j] \in Interval
        BY Model DEF TypeOK
      <4>3. /\ Tighter(bound[j], problem.bound[j])
            /\ CrossedBy(problem.bound[j], 0) => bound[j] = problem.bound[j]
            /\ ~ CrossedBy(problem.bound[j], 0) => ~ CrossedBy(bound[j], 0)
        BY DEF DataInv, BoundInv
      <4>4. QED
        BY <4>1, <4>2, <4>3, TighterBetween
    <3>3. QED
      BY <3>1, <3>2
  <2>2. QED
    BY <2>1 DEF FixedInv
<1>5. DroppedInv'
  <2> SUFFICES ASSUME NEW p \in AllPoints, InBox(p)', NEW i \in Rows \ row_active'
               PROVE  ~ Misses(Row(i, p, Cols)', Original(i)', InfeasTol)
    BY DEF DroppedInv, AllPoints
  <2>1. Row(i, p, Cols)' = Row(i, p, Cols) /\ Original(i)' = Original(i)
    BY CallerUntouched
  <2>2. CASE i \in row_active
    BY <2>1, <2>2
  <2>3. CASE i \notin row_active
    <3>1. \A j \in col_active \ col_active' : Within(fixed_value'[j], bound[j])
      BY <2>3
    <3>2. InBox(p)
      BY <1>1, <3>1, BoxShrinks
    <3>3. QED
      BY <2>1, <2>3, <3>2 DEF DataInv, DroppedInv
  <2>4. QED
    BY <2>2, <2>3
<1>6. KeptInv'
  <2> SUFFICES ASSUME NEW p \in AllPoints, Satisfies(p)'
               PROVE  \E r \in AllPoints : Holds(r)' /\ Cost(r)' <= Cost(p)'
    BY DEF KeptInv, AllPoints
  <2>1. Satisfies(p) /\ \A q : Cost(q)' = Cost(q)
    BY CallerUntouched
  <2>2. PICK q \in AllPoints : Holds(q) /\ Cost(q) <= Cost(p)
    BY <2>1 DEF DataInv, KeptInv
  <2>3. PICK r \in AllPoints : Holds(r)' /\ Cost(r) <= Cost(q)
    BY <2>2
  <2>4. Cost(p) \in Int /\ Cost(q) \in Int /\ Cost(r) \in Int
    <3>1. IsFiniteSet(Cols) /\ \A j \in Cols : problem.obj[j] \in Int
      BY Model DEF TypeOK
    <3>2. \A s \in AllPoints : Line(problem.obj, s, Cols) \in Int
      BY <3>1, LineType DEF AllPoints
    <3>3. QED
      BY <3>2, RowIsLine
  <2>5. QED
    BY <2>1, <2>2, <2>3, <2>4
<1>7. OpenInv'
  <2> SUFFICES ASSUME NEW i \in Rows \ row_active', NEW j \in col_active'
               PROVE  Leaves(i, j, bound[j])'
    BY DEF OpenInv
  <2>1. Leaves(i, j, bound[j])' <=> Leaves(i, j, bound'[j])
    BY CallerUntouched DEF Leaves
  <2>2. CASE i \in row_active
    BY <2>1, <2>2
  <2>3. CASE i \notin row_active
    <3>1. j \in col_active /\ j \in Cols
      BY DEF TypeOK
    <3>2. Leaves(i, j, bound[j])
      BY <2>3, <3>1 DEF DataInv, OpenInv
    <3>3. (Finite(bound[j].lo) => Finite(bound'[j].lo)) /\ (Finite(bound[j].hi) => Finite(bound'[j].hi))
      BY <1>1, <3>1 DEF Narrower, Tighter
    <3>4. QED
      BY <2>1, <3>2, <3>3 DEF Leaves
  <2>4. QED
    BY <2>2, <2>3
<1>8. QED
  BY <1>1, <1>2, <1>3, <1>4, <1>5, <1>6, <1>7 DEF DataInv

-----------------------------------------------------------------------------
(***************************************************************************)
(* The reductions, one by one.                                             *)
(***************************************************************************)
\* A point that keeps to the columns that are fixed is still there afterwards.
LEMMA HoldsOn ==
  ASSUME TypeOK, problem' = problem, bound' = bound,
         row_active' \subseteq row_active, col_active' \subseteq col_active,
         \A j \in Cols \ col_active : fixed_value'[j] = fixed_value[j],
         NEW q, Holds(q), \A j \in col_active \ col_active' : q[j] = fixed_value'[j]
  PROVE  Holds(q)'
<1>1. InBox(q)'
  <2>1. /\ \A j \in Cols \ col_active : q[j] = fixed_value[j]
        /\ \A j \in col_active : Within(q[j], bound[j])
    BY DEF Holds, InBox
  <2>2. \A j \in Cols \ col_active' : q[j] = fixed_value'[j]
    BY <2>1
  <2>3. \A j \in col_active' : Within(q[j], bound'[j])
    BY <2>1
  <2>4. QED
    BY <2>2, <2>3 DEF InBox
<1>2. \A i \in row_active' : Within(Row(i, q, Cols)', Original(i)')
  BY CallerUntouched DEF Holds
<1>3. QED
  BY <1>1, <1>2 DEF Holds

LEMMA CostType ==
  ASSUME TypeOK, NEW q \in AllPoints
  PROVE  Cost(q) \in Int /\ Cost(q) <= Cost(q)
<1>1. IsFiniteSet(Cols) /\ \A j \in Cols : problem.obj[j] \in Int
  BY Model DEF TypeOK
<1>2. Line(problem.obj, q, Cols) \in Int
  BY <1>1, LineType DEF AllPoints
<1>3. QED
  BY <1>2, RowIsLine

LEMMA FixedColumnStep ==
  ASSUME TypeOK, DataInv, Uncrossed, ColumnFixed
  PROVE  DataInv'
<1> DEFINE b == bound[at]
           v == (b.lo + b.hi) \div 2
           value == [j \in {at} |-> v]
<1>1. /\ at \in col_active /\ at \in Cols /\ b \in Interval /\ pc = "fixed"
      /\ Finite(b.lo) /\ Finite(b.hi) /\ b.hi <= b.lo
      /\ FixColumns({at}, value)
      /\ problem' = problem /\ bound' = bound /\ row_active' = row_active /\ col_count' = col_count
  BY DEF ColumnFixed, Visit, Closed, GoOn, TypeOK
<1>2. b.lo \in Int /\ b.hi \in Int /\ v \in Int /\ b.hi <= v /\ v <= b.lo
  BY <1>1 DEF Finite
<1>3. Between(v, b)
  BY <1>1, <1>2 DEF Between
<1>4. row_active = Rows \/ Within(v, b)
  <2>1. CASE CrossedBy(b, 0)
    BY <1>1, <2>1 DEF Uncrossed
  <2>2. CASE ~ CrossedBy(b, 0)
    BY <1>1, <1>2, <2>2 DEF CrossedBy, Within, Finite
  <2>3. QED
    BY <2>1, <2>2
<1>5. ASSUME NEW q \in AllPoints, Holds(q)
      PROVE  q[at] = v
  <2>1. Within(q[at], b) /\ q[at] \in Int
    BY <1>1, <1>5 DEF Holds, InBox, AllPoints
  <2>2. b.lo <= q[at] /\ q[at] <= b.hi
    BY <1>1, <2>1 DEF Within
  <2> HIDE DEF b, v
  <2>3. QED
    BY <1>2, <2>1, <2>2
<1>6. {at} \in SUBSET col_active /\ (\A j \in {at} : value[j] \in Int) /\ value[at] = v
      /\ row_active' \subseteq row_active
  BY <1>1, <1>2
<1> HIDE DEF value, v, b
<1>7. /\ range' \in [Rows -> Interval]
      /\ col_active' = col_active \ {at}
      /\ fixed_value' \in [Cols -> Int]
      /\ \A j \in {at} : fixed_value'[j] = value[j]
      /\ \A j \in Cols \ {at} : fixed_value'[j] = fixed_value[j]
      /\ row_count' \in [Rows -> 0 .. NCols]
      /\ \A i \in row_active' : row_count'[i] = Cardinality(Support(i)')
      /\ ShiftInv'
  BY <1>1, <1>6, FixEffect DEF DataInv
<1>8. /\ fixed_value'[at] = v
      /\ \A j \in Cols \ col_active : fixed_value'[j] = fixed_value[j]
      /\ col_active' \subseteq col_active
      /\ \A j \in col_active \ col_active' : j = at
      /\ row_active \ row_active' = {}
  BY <1>1, <1>6, <1>7
<1>9. col_count' \in [Cols -> 0 .. NRows]
      /\ \A j \in col_active' :
            col_count'[j] = Cardinality({k \in row_active' : problem'.A[k][j] # 0})
  BY <1>1, <1>8, ColumnsKept DEF DataInv, TypeOK
<1>10. Narrowed
  BY <1>1, BoundsKept
<1>11. ASSUME NEW q \in AllPoints, Holds(q)
       PROVE  \E r \in AllPoints : Holds(r)' /\ Cost(r) <= Cost(q)
  <2>1. q[at] = fixed_value'[at]
    BY <1>5, <1>8, <1>11
  <2>2. Holds(q)'
    BY <1>1, <1>8, <1>11, <2>1, HoldsOn
  <2>3. Cost(q) <= Cost(q)
    BY CostType
  <2>4. QED
    BY <2>2, <2>3
<1>12. /\ \A j \in col_active \ col_active' : Between(fixed_value'[j], bound[j])
       /\ row_active = Rows \/ \A j \in col_active \ col_active' : Within(fixed_value'[j], bound[j])
  BY <1>3, <1>4, <1>8 DEF b
<1>13. QED
  BY <1>1, <1>6, <1>7, <1>8, <1>9, <1>10, <1>11, <1>12, DataStep

\* Moving one column of a point moves a line by what the column contributes.
LEMMA LineMoved ==
  ASSUME IsFiniteSet(Cols), NEW a, \A k \in Cols : a[k] \in Int,
         NEW q \in AllPoints, NEW j \in Cols, NEW v \in Int
  PROVE  /\ [q EXCEPT ![j] = v] \in AllPoints
         /\ Line(a, q, Cols) \in Int
         /\ Line(a, [q EXCEPT ![j] = v], Cols) = Line(a, q, Cols) + (a[j] * v - a[j] * q[j])
<1> DEFINE r == [q EXCEPT ![j] = v]
           R == Cols \ {j}
<1>1. r \in AllPoints /\ r[j] = v /\ \A k \in R : r[k] = q[k]
  BY DEF AllPoints
<1>2. IsFiniteSet(R) /\ \A k \in Cols : r[k] \in Int /\ q[k] \in Int
  BY <1>1, FS_Subset DEF AllPoints
<1>3. \A k \in R : a[k] \in Int /\ r[k] \in Int /\ r[k] = q[k]
  BY <1>1, <1>2
<1> HIDE DEF r
<1>4. Line(a, r, Cols) = a[j] * r[j] + Line(a, r, R)
  BY <1>2, LineSplit
<1>5. Line(a, q, Cols) = a[j] * q[j] + Line(a, q, R)
  BY <1>2, LineSplit
<1>6. Line(a, r, R) = Line(a, q, R) /\ Line(a, r, R) \in Int
  <2> HIDE DEF R
  <2>1. QED
    BY <1>2, <1>3, LineEqual, LineType
<1> DEFINE before == a[j] * q[j]
           after == a[j] * v
<1>7. before \in Int /\ after \in Int
  BY <1>2
<1>8. Line(a, r, Cols) = after + Line(a, q, R) /\ Line(a, q, Cols) = before + Line(a, q, R)
  BY <1>1, <1>4, <1>5, <1>6
<1>9. Line(a, q, Cols) \in Int
  BY <1>2, LineType
<1> HIDE DEF before, after
<1>10. Line(a, r, Cols) = Line(a, q, Cols) + (after - before)
  BY <1>6, <1>7, <1>8
<1>11. QED
  BY <1>1, <1>9, <1>10 DEF r, before, after

\* What moving one column does to the cost and to the rows.
LEMMA MovedPoint ==
  ASSUME TypeOK, NEW q \in AllPoints, NEW j \in Cols, NEW v \in Int
  PROVE  /\ [q EXCEPT ![j] = v] \in AllPoints
         /\ Cost(q) \in Int
         /\ Cost([q EXCEPT ![j] = v]) = Cost(q) + (problem.obj[j] * v - problem.obj[j] * q[j])
         /\ \A i \in Rows :
              /\ Row(i, q, Cols) \in Int
              /\ Row(i, [q EXCEPT ![j] = v], Cols) =
                   Row(i, q, Cols) + (problem.A[i][j] * v - problem.A[i][j] * q[j])
<1>1. /\ IsFiniteSet(Cols)
      /\ \A k \in Cols : problem.obj[k] \in Int
      /\ \A i \in Rows : \A k \in Cols : problem.A[i][k] \in Int
  BY Model DEF TypeOK
<1>2. /\ [q EXCEPT ![j] = v] \in AllPoints /\ Cost(q) \in Int
      /\ Cost([q EXCEPT ![j] = v]) = Cost(q) + (problem.obj[j] * v - problem.obj[j] * q[j])
  BY <1>1, LineMoved, RowIsLine
<1>3. ASSUME NEW i \in Rows
      PROVE  /\ Row(i, q, Cols) \in Int
             /\ Row(i, [q EXCEPT ![j] = v], Cols) =
                  Row(i, q, Cols) + (problem.A[i][j] * v - problem.A[i][j] * q[j])
  BY <1>1, LineMoved, RowIsLine
<1>4. QED
  BY <1>2, <1>3

LEMMA EmptyColumnStep ==
  ASSUME TypeOK, DataInv, EmptyColumn, ~ CrossedBy(bound[at], 0)
  PROVE  DataInv'
<1> DEFINE b == bound[at]
           v == BestBound(at)
           c == problem.obj[at]
           value == [j \in {at} |-> v]
<1>1. /\ at \in col_active /\ at \in Cols /\ b \in Interval /\ col_count[at] = 0
      /\ FixColumns({at}, value) /\ v \in Int /\ problem \in Problems
      /\ problem' = problem /\ bound' = bound /\ row_active' = row_active /\ col_count' = col_count
  BY DEF EmptyColumn, Visit, GoOn, TypeOK, Finite
<1>2. c \in Int
  BY <1>1, Model
<1>3. v = IF c > 0 THEN b.lo ELSE IF c < 0 THEN b.hi
          ELSE IF Finite(b.lo) THEN b.lo ELSE IF Finite(b.hi) THEN b.hi ELSE 0
  BY DEF BestBound
<1>4. /\ b.lo \in Int \/ b.lo = Infinity
      /\ b.hi \in Int \/ b.hi = Infinity
  BY <1>1, Sides
<1> HIDE DEF v, c
<1>5. Within(v, b)
  <2> HIDE DEF b
  <2>1. Finite(b.lo) /\ Finite(b.hi) => b.lo <= b.hi
    BY <1>4 DEF CrossedBy, Finite, b
  <2>2. QED
    BY <1>1, <1>2, <1>3, <1>4, <2>1, OpenIsNoNumber DEF Within, Finite
<1>6. ASSUME NEW w \in Int, Within(w, b)
      PROVE  c * v <= c * w
  <2> HIDE DEF b
  <2>1. CASE c > 0
    <3>1. v <= w
      BY <1>1, <1>3, <1>6, <2>1 DEF Within, Finite
    <3>2. QED
      BY <1>1, <1>2, <1>6, <2>1, <3>1
  <2>2. CASE c < 0
    <3>1. w <= v
      BY <1>1, <1>2, <1>3, <1>6, <2>2 DEF Within, Finite
    <3>2. QED
      BY <1>1, <1>2, <1>6, <2>2, <3>1
  <2>3. CASE c = 0
    BY <1>1, <1>6, <2>3
  <2>4. QED
    BY <1>2, <2>1, <2>2, <2>3
<1>7. {at} \in SUBSET col_active /\ (\A j \in {at} : value[j] \in Int) /\ value[at] = v
      /\ row_active' \subseteq row_active
  BY <1>1
<1> HIDE DEF value, b
<1>8. /\ range' \in [Rows -> Interval]
      /\ col_active' = col_active \ {at}
      /\ fixed_value' \in [Cols -> Int]
      /\ \A j \in {at} : fixed_value'[j] = value[j]
      /\ \A j \in Cols \ {at} : fixed_value'[j] = fixed_value[j]
      /\ row_count' \in [Rows -> 0 .. NCols]
      /\ \A i \in row_active' : row_count'[i] = Cardinality(Support(i)')
      /\ ShiftInv'
  BY <1>1, <1>7, FixEffect DEF DataInv
<1>9. /\ fixed_value'[at] = v
      /\ \A j \in Cols \ col_active : fixed_value'[j] = fixed_value[j]
      /\ col_active' \subseteq col_active
      /\ \A j \in col_active \ col_active' : j = at
      /\ row_active \ row_active' = {}
  BY <1>1, <1>7, <1>8
<1>10. col_count' \in [Cols -> 0 .. NRows]
       /\ \A j \in col_active' :
             col_count'[j] = Cardinality({k \in row_active' : problem'.A[k][j] # 0})
  BY <1>1, <1>9, ColumnsKept DEF DataInv, TypeOK
<1>11. Narrowed
  BY <1>1, BoundsKept
<1>12. \A i \in row_active : problem.A[i][at] = 0
  <2> DEFINE T == {i \in row_active : problem.A[i][at] # 0}
  <2>1. T \in SUBSET Rows
    BY DEF TypeOK
  <2>2. IsFiniteSet(T)
    BY <1>1, <2>1, Model
  <2>3. Cardinality(T) = 0
    BY <1>1 DEF DataInv, CountsExact
  <2>4. T = {}
    <3> HIDE DEF T
    <3>1. QED
      BY <2>2, <2>3, FS_EmptySet
  <2>5. QED
    BY <2>4
<1>13. ASSUME NEW q \in AllPoints, Holds(q)
       PROVE  \E r \in AllPoints : Holds(r)' /\ Cost(r) <= Cost(q)
  <2>1. q[at] \in Int /\ Within(q[at], b)
    BY <1>1, <1>13 DEF AllPoints, Holds, InBox, b
  <2> DEFINE before == c * q[at]
             after == c * v
  <2>2. after <= before /\ after \in Int /\ before \in Int
    BY <1>1, <1>2, <1>6, <2>1
  <2>3. PICK r \in AllPoints :
           /\ r = [q EXCEPT ![at] = v] /\ Cost(r) <= Cost(q)
           /\ \A i \in Rows : problem.A[i][at] = 0 => Row(i, r, Cols) = Row(i, q, Cols)
    <3> DEFINE r == [q EXCEPT ![at] = v]
    <3>1. /\ r \in AllPoints /\ Cost(q) \in Int /\ Cost(r) = Cost(q) + (after - before)
          /\ \A i \in Rows : /\ Row(i, q, Cols) \in Int
                              /\ Row(i, r, Cols) = Row(i, q, Cols)
                                   + (problem.A[i][at] * v - problem.A[i][at] * q[at])
      BY <1>1, MovedPoint DEF c
    <3> HIDE DEF before, after, r
    <3>2. Cost(r) <= Cost(q)
      BY <2>2, <3>1
    <3>3. \A i \in Rows : problem.A[i][at] = 0 => Row(i, r, Cols) = Row(i, q, Cols)
      BY <1>1, <2>1, <3>1
    <3>4. QED
      BY <3>1, <3>2, <3>3 DEF r
  <2> HIDE DEF before, after
  <2>4. r[at] = v /\ \A j \in Cols : j # at => r[j] = q[j]
    BY <1>1, <2>3 DEF AllPoints
  <2>5. Holds(r)
    <3>1. \A j \in Cols \ col_active : r[j] = fixed_value[j]
      BY <1>1, <1>13, <2>4 DEF Holds, InBox
    <3>2. \A j \in col_active : Within(r[j], bound[j])
      BY <1>1, <1>5, <1>13, <2>4 DEF Holds, InBox, b, TypeOK
    <3>3. \A i \in row_active : Within(Row(i, r, Cols), Original(i))
      BY <1>12, <1>13, <2>3 DEF Holds, TypeOK
    <3>4. QED
      BY <3>1, <3>2, <3>3 DEF Holds, InBox
  <2>6. Holds(r)'
    <3>1. \A j \in col_active \ col_active' : r[j] = fixed_value'[j]
      BY <1>9, <2>4
    <3>2. QED
      BY <1>1, <1>7, <1>9, <2>5, <3>1, HoldsOn
  <2>7. QED
    BY <2>3, <2>6
<1>14. \A j \in col_active \ col_active' :
          Between(fixed_value'[j], bound[j]) /\ Within(fixed_value'[j], bound[j])
  BY <1>5, <1>9 DEF b, Between
<1>15. QED
  BY <1>1, <1>7, <1>8, <1>9, <1>10, <1>11, <1>13, <1>14, DataStep

\* A row that every point in the box meets, and that is open where a column is,
\* may go.
LEMMA DroppedRowStep ==
  ASSUME TypeOK, DataInv, at \in row_active, Dropped,
         problem' = problem, range' = range, col_active' = col_active,
         row_count' = row_count, fixed_value' = fixed_value, Narrowed,
         \A p \in AllPoints : InBox(p)' => InBox(p),
         \A p \in AllPoints : InBox(p)' => ~ Misses(Row(at, p, Support(at)), range[at], InfeasTol),
         \A j \in Support(at) : Leaves(at, j, bound'[j]),
         \A p \in AllPoints : Holds(p) => InBox(p)'
  PROVE  DataInv'
<1>1. DropRow(at, col_active')
  BY DEF Dropped
<1>2. /\ row_active' = row_active \ {at}
      /\ col_count' \in [Cols -> 0 .. NRows]
      /\ \A j \in col_active' :
            col_count'[j] = Cardinality({k \in row_active' : problem'.A[k][j] # 0})
  BY <1>1, DropEffect DEF DataInv
<1>3. /\ \A i \in row_active' : row_count'[i] = Cardinality(Support(i)')
      /\ ShiftInv'
  BY <1>2, RowsKept DEF DataInv
<1>4. ASSUME NEW p \in AllPoints, InBox(p)'
      PROVE  ~ Misses(Row(at, p, Cols), Original(at), InfeasTol)
  <2>1. \A j \in Cols \ col_active : p[j] = fixed_value[j]
    BY <1>4 DEF InBox
  <2>2. QED
    BY <1>4, <2>1, Translation, SizeAssumption DEF DataInv
<1>5. \A j \in col_active' : Leaves(at, j, bound'[j])
  <2>1. ASSUME NEW j \in col_active, j \notin Support(at)
        PROVE  Leaves(at, j, bound'[j])
    BY <2>1 DEF Support, Leaves
  <2>2. QED
    BY <2>1
<1>6. ASSUME NEW q \in AllPoints, Holds(q)
      PROVE  \E r \in AllPoints : Holds(r)' /\ Cost(r) <= Cost(q)
  <2>1. \A i \in row_active' : Within(Row(i, q, Cols)', Original(i)')
    BY <1>2, <1>6, CallerUntouched DEF Holds
  <2>2. Holds(q)'
    BY <1>6, <2>1 DEF Holds
  <2>3. QED
    BY <2>2, CostType
<1>7. range' \in [Rows -> Interval] /\ row_count' \in [Rows -> 0 .. NCols] /\ fixed_value' \in [Cols -> Int]
  BY DEF TypeOK
<1>8. /\ row_active' \subseteq row_active /\ col_active' \subseteq col_active
      /\ \A i \in row_active \ row_active' : i = at
      /\ col_active \ col_active' = {}
  BY <1>2
<1>9. \A j \in Cols \ col_active : fixed_value'[j] = fixed_value[j]
  OBVIOUS
<1>10. QED
  BY <1>2, <1>3, <1>4, <1>5, <1>6, <1>7, <1>8, <1>9, DataStep

LEMMA ActivityFinite ==
  ASSUME NEW i, NEW end, Finite(Extreme(i, end))
  PROVE  /\ \A j \in Support(i) : Finite(end[j])
         /\ Extreme(i, end) = Row(i, end, Support(i))
<1>1. Unbounded(i, end) = {}
  BY OpenIsNoNumber DEF Extreme, Finite
<1>2. QED
  BY <1>1 DEF Unbounded, Extreme

\* A value in a range misses nothing.
LEMMA WithinIsNoMiss ==
  ASSUME NEW b \in Interval, NEW v \in Int, NEW tol \in Nat, Within(v, b)
  PROVE  ~ Misses(v, b, tol)
BY Sides DEF Within, Misses, Finite

\* An empty row goes, whatever it asked for was met without columns.
LEMMA EmptyRowStep ==
  ASSUME TypeOK, DataInv, EmptyRow
  PROVE  DataInv'
<1>1. /\ at \in row_active /\ at \in Rows /\ row_count[at] = 0
      /\ ~ Misses(0, range[at], InfeasTol)
      /\ Dropped /\ problem' = problem /\ range' = range /\ bound' = bound
      /\ col_active' = col_active /\ row_count' = row_count /\ fixed_value' = fixed_value
  BY DEF EmptyRow, Visit, Dropped, GoOn, TypeOK
<1>2. Support(at) = {}
  <2>1. Support(at) \in SUBSET Cols
    BY DEF Support, TypeOK
  <2>2. IsFiniteSet(Support(at)) /\ Cardinality(Support(at)) = 0
    BY <1>1, <2>1, Model DEF DataInv, CountsExact, TypeOK
  <2>3. QED
    BY <2>2, FS_EmptySet
<1>3. \A p : InBox(p)' <=> InBox(p)
  BY <1>1 DEF InBox
<1>4. \A p : Row(at, p, Support(at)) = 0
  BY <1>2, LineEmpty, RowIsLine
<1>5. Narrowed
  BY <1>1, BoundsKept
<1>6. \A p \in AllPoints : InBox(p)' => ~ Misses(Row(at, p, Support(at)), range[at], InfeasTol)
  BY <1>1, <1>4
<1>7. \A p \in AllPoints : Holds(p) => InBox(p)'
  BY <1>3 DEF Holds
<1>8. QED
  BY <1>1, <1>2, <1>3, <1>5, <1>6, <1>7, DroppedRowStep

\* A redundant row goes: its activity never leaves its range.
LEMMA RedundantRowStep ==
  ASSUME TypeOK, DataInv, RedundantRow
  PROVE  DataInv'
<1>1. /\ at \in row_active /\ at \in Rows /\ ImpliedBelow /\ ImpliedAbove
      /\ Dropped /\ problem' = problem /\ range' = range /\ bound' = bound
      /\ col_active' = col_active /\ row_count' = row_count /\ fixed_value' = fixed_value
  BY DEF RedundantRow, OpenRow, Redundant, Visit, Dropped, GoOn, TypeOK
<1>2. \A p : InBox(p)' <=> InBox(p)
  BY <1>1 DEF InBox
<1>3. Narrowed
  BY <1>1, BoundsKept
<1>4. /\ range[at] \in Interval /\ Original(at) \in Interval
      /\ Finite(range[at].lo) <=> Finite(Original(at).lo)
      /\ Finite(range[at].hi) <=> Finite(Original(at).hi)
  BY <1>1, RangeSides DEF DataInv
<1>5. ASSUME NEW p \in AllPoints, InBox(p)
      PROVE  ~ Misses(Row(at, p, Support(at)), range[at], InfeasTol)
  <2> DEFINE v == Row(at, p, Support(at))
  <2>1. v \in Int
    <3>1. problem \in Problems /\ col_active \subseteq Cols /\ \A j \in col_active : p[j] \in Int
      BY DEF TypeOK, AllPoints
    <3>2. QED
      BY <1>1, <3>1, RowSupport
  <2>2. /\ Finite(MinActivity(at)) => MinActivity(at) <= v
        /\ Finite(MaxActivity(at)) => v <= MaxActivity(at)
    BY <1>1, <1>5, Activities
  <2> HIDE DEF v
  <2>3. Within(v, range[at])
    <3>1. Finite(range[at].lo) => range[at].lo <= v
      BY <1>1, <2>1, <2>2 DEF ImpliedBelow, Finite
    <3>2. Finite(range[at].hi) => v <= range[at].hi
      BY <1>1, <2>1, <2>2 DEF ImpliedAbove, Finite
    <3>3. QED
      BY <3>1, <3>2 DEF Within
  <2>4. QED
    BY <1>4, <2>1, <2>3, WithinIsNoMiss, SizeAssumption DEF v
<1>6. ASSUME NEW j \in Support(at)
      PROVE  Leaves(at, j, bound'[j])
  <2>1. j \in Cols
    BY DEF Support, TypeOK
  <2>2. problem.A[at][j] \in {-1, 0, 1}
    BY <1>1, <2>1, Model DEF TypeOK
  <2>3. /\ MinBound(at)[j] = (IF problem.A[at][j] > 0 THEN bound[j].lo ELSE bound[j].hi)
        /\ MaxBound(at)[j] = (IF problem.A[at][j] > 0 THEN bound[j].hi ELSE bound[j].lo)
    BY <2>1 DEF MinBound, MaxBound
  <2>4. /\ Finite(range[at].lo) => Finite(MinBound(at)[j])
        /\ Finite(range[at].hi) => Finite(MaxBound(at)[j])
    BY <1>1, ActivityFinite DEF ImpliedBelow, ImpliedAbove, MinActivity, MaxActivity
  <2>5. QED
    BY <1>1, <1>4, <2>2, <2>3, <2>4 DEF Leaves
<1>7. \A p \in AllPoints : Holds(p) => InBox(p)'
  BY <1>2 DEF Holds
<1>8. QED
  BY <1>1, <1>2, <1>3, <1>5, <1>6, <1>7, DroppedRowStep

\* A singleton row goes when its column's bounds say as much.
LEMMA AbsorbingSound ==
  ASSUME TypeOK, DataInv, Singleton, bound' = [bound EXCEPT ![Only] = Absorbing], problem' = problem
  PROVE  /\ Only \in Cols /\ Only \in col_active /\ Implied \in Interval /\ Absorbing \in Interval
         /\ bound'[Only] = Absorbing /\ \A j \in Cols : j # Only => bound'[j] = bound[j]
         /\ Narrowed
         /\ \A p \in AllPoints : Holds(p) /\ col_active' = col_active /\ fixed_value' = fixed_value
                                 => InBox(p)'
<1>1. /\ at \in row_active /\ row_count[at] = 1 /\ CountsExact /\ ShiftInv
      /\ bound \in [Cols -> Interval] /\ col_active \subseteq Cols
  BY DEF Singleton, OpenRow, Visit, DataInv, TypeOK
<1>2. /\ Only \in Cols /\ Only \in col_active /\ Support(at) = {Only} /\ Implied \in Interval
      /\ \A p \in AllPoints :
           Within(Row(at, p, Support(at)), range[at]) <=> Within(p[Only], Implied)
  BY <1>1, ImpliedSound
<1>3. /\ Absorbing \in Interval
      /\ \A v \in Int : Within(v, bound[Only]) /\ Within(v, Implied) => Within(v, Absorbing)
  BY <1>1, <1>2, TightenedSound DEF Absorbing
<1>4. /\ bound'[Only] = Absorbing /\ \A j \in Cols : j # Only => bound'[j] = bound[j]
      /\ bound' = [j \in Cols |-> bound'[j]]
  BY <1>1, <1>2
<1>5. Narrowed
  BY <1>2, <1>4 DEF Narrowed, Absorbing
<1>6. ASSUME NEW p \in AllPoints, Holds(p), col_active' = col_active, fixed_value' = fixed_value
      PROVE  InBox(p)'
  <2>1. /\ \A j \in Cols \ col_active : p[j] = fixed_value[j]
        /\ \A j \in col_active : Within(p[j], bound[j])
        /\ Within(Row(at, p, Cols), Original(at))
    BY <1>1, <1>6 DEF Holds, InBox
  <2>2. Within(Row(at, p, Support(at)), range[at])
    BY <1>1, <2>1, Translation, SizeAssumption
  <2>3. Within(p[Only], bound'[Only])
    BY <1>2, <1>3, <1>4, <2>1, <2>2 DEF AllPoints
  <2>4. QED
    BY <1>1, <1>4, <1>6, <2>1, <2>3 DEF InBox
<1>7. QED
  BY <1>2, <1>3, <1>4, <1>5, <1>6

LEMMA SingletonRowStep ==
  ASSUME TypeOK, DataInv, SingletonRow
  PROVE  DataInv'
<1>1. /\ at \in row_active /\ row_count[at] = 1 /\ Singleton /\ Absorbed
      /\ bound' = [bound EXCEPT ![Only] = Absorbing] /\ CountsExact
      /\ Dropped /\ problem' = problem /\ range' = range
      /\ col_active' = col_active /\ row_count' = row_count /\ fixed_value' = fixed_value
  BY DEF SingletonRow, Singleton, OpenRow, Visit, Dropped, GoOn, DataInv
<1>2. /\ Only \in Cols /\ Only \in col_active /\ Support(at) = {Only}
      /\ problem.A[at][Only] \in {-1, 1} /\ Implied \in Interval
      /\ \A p \in AllPoints :
           Within(Row(at, p, Support(at)), range[at]) <=> Within(p[Only], Implied)
  BY <1>1, ImpliedSound
<1>3. /\ Absorbing \in Interval /\ bound'[Only] = Absorbing /\ Narrowed
      /\ \A p \in AllPoints : Holds(p) => InBox(p)'
  BY <1>1, AbsorbingSound
<1>4. /\ range[at] \in Interval
      /\ Finite(range[at].lo) <=> Finite(Original(at).lo)
      /\ Finite(range[at].hi) <=> Finite(Original(at).hi)
  BY <1>1, RangeSides DEF DataInv
<1>5. \A p \in AllPoints : InBox(p)' => InBox(p)
  <2>1. \A j \in Cols : Narrower(bound'[j], bound[j])
    BY <1>1, <1>3, NarrowEffect DEF DataInv
  <2>2. /\ col_active' \subseteq col_active
        /\ \A j \in Cols \ col_active : fixed_value'[j] = fixed_value[j]
        /\ \A j \in col_active \ col_active' : Within(fixed_value'[j], bound[j])
    BY <1>1
  <2>3. QED
    BY <2>1, <2>2, BoxShrinks
<1>6. ASSUME NEW p \in AllPoints, InBox(p)'
      PROVE  ~ Misses(Row(at, p, Support(at)), range[at], InfeasTol)
  <2>1. Within(p[Only], Absorbing) /\ p[Only] \in Int
    BY <1>1, <1>2, <1>3, <1>6 DEF InBox, AllPoints
  <2>2. Within(p[Only], Implied)
    <3>1. /\ Implied.lo \in Int \/ Implied.lo = Infinity
          /\ Implied.hi \in Int \/ Implied.hi = Infinity
      BY <1>2, Sides
    <3>2. QED
      BY <1>1, <2>1, <3>1 DEF Absorbed, Within, Finite
  <2>3. Within(Row(at, p, Support(at)), range[at])
    BY <1>2, <2>2
  <2>4. Row(at, p, Support(at)) \in Int
    <3>1. at \in Rows /\ problem \in Problems /\ col_active \subseteq Cols /\ \A j \in col_active : p[j] \in Int
      BY <1>1 DEF TypeOK, AllPoints
    <3>2. QED
      BY <3>1, RowSupport
  <2>5. QED
    BY <1>4, <2>3, <2>4, WithinIsNoMiss, SizeAssumption
<1>7. Leaves(at, Only, bound'[Only])
  <2>1. Implied = IF problem.A[at][Only] > 0 THEN range[at]
                  ELSE [lo |-> Minus(0, range[at].hi), hi |-> Minus(0, range[at].lo)]
    BY DEF Implied
  <2>2. (Finite(Implied.lo) => Finite(Absorbing.lo)) /\ (Finite(Implied.hi) => Finite(Absorbing.hi))
    BY <1>1 DEF Absorbed
  <2>3. CASE problem.A[at][Only] = 1
    BY <1>3, <1>4, <2>1, <2>2, <2>3 DEF Leaves
  <2>4. CASE problem.A[at][Only] = -1
    <3>1. Implied.lo = Minus(0, range[at].hi) /\ Implied.hi = Minus(0, range[at].lo)
      BY <2>1, <2>4
    <3>2. /\ Finite(range[at].hi) => Finite(Minus(0, range[at].hi))
          /\ Finite(range[at].lo) => Finite(Minus(0, range[at].lo))
      BY <1>4 DEF Minus, Finite
    <3>3. QED
      BY <1>3, <1>4, <2>2, <2>4, <3>1, <3>2 DEF Leaves
  <2>5. QED
    BY <1>2, <2>3, <2>4
<1>8. \A j \in Support(at) : Leaves(at, j, bound'[j])
  BY <1>2, <1>7
<1>9. QED
  BY <1>1, <1>3, <1>5, <1>6, <1>8, DroppedRowStep

\* Tightening bounds without dropping a row.
LEMMA TightenStep ==
  ASSUME TypeOK, DataInv, Narrowed, problem' = problem, range' = range,
         row_active' = row_active, col_active' = col_active, row_count' = row_count,
         col_count' = col_count, fixed_value' = fixed_value,
         \A p \in AllPoints : Holds(p) => InBox(p)'
  PROVE  DataInv'
<1>1. /\ \A i \in row_active' : row_count'[i] = Cardinality(Support(i)')
      /\ ShiftInv'
  BY RowsKept DEF DataInv
<1>2. \A j \in col_active' :
         col_count'[j] = Cardinality({k \in row_active' : problem'.A[k][j] # 0})
  BY ColumnsKept DEF DataInv
<1>3. ASSUME NEW q \in AllPoints, Holds(q)
      PROVE  \E r \in AllPoints : Holds(r)' /\ Cost(r) <= Cost(q)
  <2>1. \A i \in row_active' : Within(Row(i, q, Cols)', Original(i)')
    BY <1>3, CallerUntouched DEF Holds
  <2>2. Holds(q)'
    BY <1>3, <2>1 DEF Holds
  <2>3. QED
    BY <2>2, CostType
<1>4. /\ range' \in [Rows -> Interval] /\ row_count' \in [Rows -> 0 .. NCols]
      /\ col_count' \in [Cols -> 0 .. NRows] /\ fixed_value' \in [Cols -> Int]
  BY DEF TypeOK
<1>5. /\ row_active' \subseteq row_active /\ col_active' \subseteq col_active
      /\ row_active \ row_active' = {} /\ col_active \ col_active' = {}
      /\ \A j \in Cols \ col_active : fixed_value'[j] = fixed_value[j]
  OBVIOUS
<1>6. QED
  BY <1>1, <1>2, <1>3, <1>4, <1>5, DataStep

LEMMA SingletonKeptStep ==
  ASSUME TypeOK, DataInv, SingletonKept
  PROVE  DataInv'
<1>1. /\ Singleton /\ bound' = [bound EXCEPT ![Only] = Absorbing]
      /\ problem' = problem /\ range' = range /\ row_active' = row_active
      /\ col_active' = col_active /\ row_count' = row_count
      /\ col_count' = col_count /\ fixed_value' = fixed_value
  BY DEF SingletonKept, GoOn
<1>2. Narrowed /\ \A p \in AllPoints : Holds(p) => InBox(p)'
  BY <1>1, AbsorbingSound
<1>3. QED
  BY <1>1, <1>2, TightenStep

LEMMA PropagateStep ==
  ASSUME TypeOK, DataInv, Propagate
  PROVE  DataInv'
<1>1. /\ at \in row_active /\ at \in Rows /\ problem' = problem /\ range' = range
      /\ row_active' = row_active /\ col_active' = col_active /\ row_count' = row_count
      /\ col_count' = col_count /\ fixed_value' = fixed_value
      /\ bound' = [j \in Cols |->
            IF j \in Support(at) THEN Tightened(bound[j], Proposed(at, j)) ELSE bound[j]]
  BY DEF Propagate, Visit, GoOn, TypeOK
<1>2. \A j \in Support(at) : /\ j \in Cols /\ Proposed(at, j) \in Interval
                             /\ bound'[j] = Tightened(bound[j], Proposed(at, j))
  BY <1>1, ProposedSound DEF Support, TypeOK
<1>3. \A j \in Cols : j \notin Support(at) => bound'[j] = bound[j]
  BY <1>1
<1>4. Narrowed
  <2>1. bound' = [j \in Cols |-> bound'[j]]
    BY <1>1
  <2>2. QED
    BY <1>2, <1>3, <2>1 DEF Narrowed
<1>5. ASSUME NEW p \in AllPoints, Holds(p)
      PROVE  InBox(p)'
  <2>1. /\ InBox(p)
        /\ \A j \in Cols \ col_active : p[j] = fixed_value[j]
        /\ \A j \in col_active : Within(p[j], bound[j])
        /\ Within(Row(at, p, Cols), Original(at))
    BY <1>1, <1>5 DEF Holds, InBox
  <2>2. Within(Row(at, p, Support(at)), range[at])
    BY <1>1, <2>1, Translation, SizeAssumption DEF DataInv
  <2>3. ASSUME NEW j \in col_active
        PROVE  Within(p[j], bound'[j])
    <3>1. j \in Cols /\ p[j] \in Int /\ bound[j] \in Interval
      BY DEF TypeOK, AllPoints
    <3>2. CASE j \in Support(at)
      <4>1. Within(p[j], Proposed(at, j))
        BY <1>1, <2>1, <2>2, <3>2, ProposedSound
      <4>2. QED
        BY <1>2, <2>1, <3>1, <3>2, <4>1, TightenedSound
    <3>3. CASE j \notin Support(at)
      BY <1>3, <2>1, <3>1, <3>3
    <3>4. QED
      BY <3>2, <3>3
  <2>4. QED
    BY <1>1, <2>1, <2>3 DEF InBox
<1>6. QED
  BY <1>1, <1>4, <1>5, TightenStep

\* A forcing row pins its columns at the only values that meet it.
LEMMA ForcingRowStep ==
  ASSUME TypeOK, DataInv, ForcingRow, \A j \in col_active : ~ CrossedBy(bound[j], 0)
  PROVE  DataInv'
<1> DEFINE S == Support(at)
           end == IF ForcingAtUpper THEN MinBound(at) ELSE MaxBound(at)
           side == IF ForcingAtUpper THEN range[at].hi ELSE range[at].lo
           value == [j \in S |-> IF ForcingAtUpper THEN MinBound(at)[j] ELSE MaxBound(at)[j]]
<1>1. /\ at \in row_active /\ at \in Rows /\ Sound /\ (ForcingAtUpper \/ ForcingAtLower)
      /\ FixColumns(S, value) /\ DropRow(at, col_active \ S)
      /\ problem' = problem /\ bound' = bound /\ problem \in Problems
      /\ S \in SUBSET col_active /\ S \in SUBSET Cols
  BY DEF ForcingRow, OpenRow, Visit, GoOn, TypeOK, Support
<1>2. range[at] \in Interval
  BY <1>1 DEF TypeOK
<1>3. /\ side \in Int
      /\ \A j \in S : Finite(end[j])
      /\ Row(at, end, S) = side
  <2>1. CASE ForcingAtUpper
    <3>1. Finite(range[at].hi) /\ MinActivity(at) = range[at].hi
      BY <2>1 DEF ForcingAtUpper
    <3>2. Finite(Extreme(at, MinBound(at)))
      BY <3>1 DEF MinActivity
    <3>3. /\ \A j \in Support(at) : Finite(MinBound(at)[j])
          /\ Extreme(at, MinBound(at)) = Row(at, MinBound(at), Support(at))
      BY <3>2, ActivityFinite
    <3>4. QED
      BY <2>1, <3>1, <3>3 DEF MinActivity, Finite
  <2>2. CASE ~ ForcingAtUpper
    <3>1. Finite(range[at].lo) /\ MaxActivity(at) = range[at].lo
      BY <1>1, <2>2 DEF ForcingAtLower
    <3>2. Finite(Extreme(at, MaxBound(at)))
      BY <3>1 DEF MaxActivity
    <3>3. /\ \A j \in Support(at) : Finite(MaxBound(at)[j])
          /\ Extreme(at, MaxBound(at)) = Row(at, MaxBound(at), Support(at))
      BY <3>2, ActivityFinite
    <3>4. QED
      BY <2>2, <3>1, <3>3 DEF MaxActivity, Finite
  <2>3. QED
    BY <2>1, <2>2
<1>4. \A j \in S : value[j] = end[j]
  OBVIOUS
<1>5. \A j \in S : end[j] \in {bound[j].lo, bound[j].hi}
  BY <1>1 DEF MinBound, MaxBound
\* Every point that is left is at those bounds.
<1>6. ASSUME NEW q \in AllPoints, Holds(q)
      PROVE  \A j \in S : q[j] = end[j]
  <2> DEFINE v == Row(at, q, S)
  <2>1. /\ InBox(q) /\ \A j \in Cols \ col_active : q[j] = fixed_value[j]
        /\ Within(Row(at, q, Cols), Original(at))
    BY <1>1, <1>6 DEF Holds, InBox
  <2>2. Within(v, range[at]) /\ v \in Int
    BY <1>1, <2>1, Translation, SizeAssumption DEF DataInv
  <2>3. CASE ForcingAtUpper
    <3>1. Finite(range[at].hi) /\ MinActivity(at) = range[at].hi /\ Finite(MinActivity(at))
      BY <2>3 DEF ForcingAtUpper
    <3>2. MinActivity(at) <= v /\ (MinActivity(at) = v => \A j \in S : q[j] = MinBound(at)[j])
      BY <1>1, <2>1, <3>1, Activities
    <3> HIDE DEF v
    <3>3. MinActivity(at) = v
      BY <2>2, <3>1, <3>2 DEF Within, Finite
    <3>4. QED
      BY <2>3, <3>2, <3>3
  <2>4. CASE ~ ForcingAtUpper
    <3>1. Finite(range[at].lo) /\ MaxActivity(at) = range[at].lo /\ Finite(MaxActivity(at))
      BY <1>1, <2>4 DEF ForcingAtLower
    <3>2. v <= MaxActivity(at) /\ (MaxActivity(at) = v => \A j \in S : q[j] = MaxBound(at)[j])
      BY <1>1, <2>1, <3>1, Activities
    <3> HIDE DEF v
    <3>3. MaxActivity(at) = v
      BY <2>2, <3>1, <3>2 DEF Within, Finite
    <3>4. QED
      BY <2>4, <3>2, <3>3
  <2>5. QED
    BY <2>3, <2>4
<1> HIDE DEF end, value
<1>7. \A j \in S : Within(end[j], bound[j])
  <2> TAKE j \in S
  <2>1. bound[j] \in Interval /\ ~ CrossedBy(bound[j], 0) /\ Finite(end[j])
    BY <1>1, <1>3 DEF TypeOK
  <2>2. /\ bound[j].lo \in Int \/ bound[j].lo = Infinity
        /\ bound[j].hi \in Int \/ bound[j].hi = Infinity
    BY <2>1, Sides
  <2>3. QED
    BY <1>5, <2>1, <2>2, OpenIsNoNumber DEF Within, CrossedBy, Finite
<1>8. row_active' \subseteq row_active /\ \A j \in S : value[j] \in Int
  BY <1>1, <1>3, <1>4 DEF DropRow, Finite
<1> HIDE DEF S
<1>9. /\ range' \in [Rows -> Interval]
      /\ col_active' = col_active \ S
      /\ fixed_value' \in [Cols -> Int]
      /\ \A j \in S : fixed_value'[j] = value[j]
      /\ \A j \in Cols \ S : fixed_value'[j] = fixed_value[j]
      /\ row_count' \in [Rows -> 0 .. NCols]
      /\ \A i \in row_active' : row_count'[i] = Cardinality(Support(i)')
      /\ ShiftInv'
  BY <1>1, <1>8, FixEffect DEF DataInv
<1>10. DropRow(at, col_active') /\ col_active' \subseteq col_active
  BY <1>1, <1>9
<1>11. /\ row_active' = row_active \ {at}
       /\ col_count' \in [Cols -> 0 .. NRows]
       /\ \A j \in col_active' :
             col_count'[j] = Cardinality({k \in row_active' : problem'.A[k][j] # 0})
  BY <1>1, <1>10, DropEffect DEF DataInv
<1>12. /\ \A j \in Cols \ col_active : fixed_value'[j] = fixed_value[j]
       /\ \A j \in col_active \ col_active' : j \in S /\ fixed_value'[j] = end[j]
       /\ \A i \in row_active \ row_active' : i = at
  BY <1>1, <1>4, <1>9, <1>11
<1>13. Narrowed
  BY <1>1, BoundsKept
<1>14. ASSUME NEW p \in AllPoints, InBox(p)'
       PROVE  ~ Misses(Row(at, p, Cols), Original(at), InfeasTol)
  <2>1. \A j \in S : p[j] = end[j] /\ p[j] \in Int
    BY <1>1, <1>4, <1>9, <1>14 DEF InBox, AllPoints
  <2>2. \A j \in Cols \ col_active : p[j] = fixed_value[j]
    BY <1>9, <1>12, <1>14 DEF InBox
  <2>3. Row(at, p, S) = side
    BY <1>1, <1>3, <2>1, RowEqual
  <2>4. ~ Misses(side, range[at], InfeasTol)
    <3>1. /\ range[at].lo \in Int \/ range[at].lo = Infinity
          /\ range[at].hi \in Int \/ range[at].hi = Infinity
      BY <1>2, Sides
    <3>2. side = range[at].hi \/ side = range[at].lo
      OBVIOUS
    <3> HIDE DEF side
    <3>3. QED
      BY <1>1, <1>3, <3>1, <3>2, OpenIsNoNumber, SizeAssumption DEF Sound, CrossedBy, Misses, Finite
  <2>5. Misses(Row(at, p, S), range[at], InfeasTol) <=> Misses(Row(at, p, Cols), Original(at), InfeasTol)
    BY <1>1, <2>2, Translation, SizeAssumption DEF DataInv, S
  <2>6. QED
    BY <2>3, <2>4, <2>5
<1>15. \A j \in col_active' : Leaves(at, j, bound'[j])
  <2>1. \A j \in col_active' : problem.A[at][j] = 0
    BY <1>9 DEF S, Support
  <2>2. QED
    BY <2>1 DEF Leaves
<1>16. ASSUME NEW q \in AllPoints, Holds(q)
       PROVE  \E r \in AllPoints : Holds(r)' /\ Cost(r) <= Cost(q)
  <2>1. \A j \in col_active \ col_active' : q[j] = fixed_value'[j]
    BY <1>6, <1>12, <1>16
  <2>2. Holds(q)'
    BY <1>1, <1>8, <1>10, <1>12, <1>16, <2>1, HoldsOn
  <2>3. QED
    BY <2>2, CostType
<1>17. \A j \in col_active \ col_active' :
          Between(fixed_value'[j], bound[j]) /\ Within(fixed_value'[j], bound[j])
  BY <1>7, <1>12 DEF Between
<1>18. QED
  BY <1>1, <1>8, <1>9, <1>10, <1>11, <1>12, <1>13, <1>14, <1>15, <1>16, <1>17, DataStep

-----------------------------------------------------------------------------
(***************************************************************************)
(* The loops.                                                              *)
(***************************************************************************)
ControlTypes ==
    /\ pc \in DOMAIN Following \cup {"close", "emit", "done"}
    /\ at \in 1 .. NRows + NCols /\ pass \in 0 .. MaxPasses - 1 /\ changed \in BOOLEAN
    /\ status \in {"OK", "INFEASIBLE", "UNBOUNDED"}
    /\ x = <<>> \/ x \in [Cols -> Int]

LEMMA TypeParts ==
  TypeOK <=> DataTypes /\ ControlTypes
BY DEF TypeOK, DataTypes, ControlTypes

NoneCrossed == \A j \in col_active : ~ CrossedBy(bound[j], 0)

\* After the first loop no column that is left has bounds that cross.
LEMMA PastFirstLoop ==
  ASSUME Uncrossed, pc \notin {"fixed", "done"}
  PROVE  NoneCrossed
BY DEF Uncrossed, NoneCrossed

LEMMA GoOnEffect ==
  ASSUME TypeOK, Placed, pc \in DOMAIN Following, GoOn
  PROVE  /\ pc' \in DOMAIN Following \cup {"close", "emit", "done"}
         /\ at' \in 1 .. NRows + NCols
         /\ Placed'
         /\ pc' = "fixed" => pc = "fixed" /\ at' = at + 1
         /\ pc' # "done" /\ status' = status /\ status = "OK"
         /\ x' = x /\ pass' = pass /\ problem' = problem
         /\ pc = "fixed" /\ pc' # "fixed" => at = NCols
<1>1. /\ Last(pc) \in Int /\ Last(pc) <= NRows + NCols /\ at \in 1 .. Last(pc)
      /\ \A loop : Last(loop) \in Nat \ {0}
      /\ pc = "fixed" => Last(pc) = NCols
  BY SizeAssumption DEF Placed, Last
<1>2. DOMAIN Following = {"fixed", "empty", "rows", "propagate"}
  BY DEF Following
<1>3. status = "OK" /\ status' = status /\ x' = x /\ pass' = pass /\ problem' = problem
  BY <1>2 DEF Placed, GoOn
<1>4. CASE at < Last(pc)
  <2>1. at' = at + 1 /\ pc' = pc
    BY <1>4 DEF GoOn
  <2>2. at' \in 1 .. Last(pc)
    BY <1>1, <1>4, <2>1
  <2>3. Placed'
    BY <1>2, <1>3, <2>1, <2>2 DEF Placed, Last
  <2>4. QED
    BY <1>1, <1>2, <1>3, <2>1, <2>2, <2>3, SizeAssumption
<1>5. CASE ~ (at < Last(pc))
  <2>1. at' = 1 /\ pc' = Following[pc]
    BY <1>5 DEF GoOn
  <2>2. pc' \in {"empty", "rows", "propagate", "close"}
    BY <1>2, <2>1 DEF Following
  <2>3. Placed'
    <3>1. \A loop : 1 \in 1 .. Last(loop)
      BY <1>1
    <3>2. QED
      BY <1>3, <2>1, <2>2, <3>1 DEF Placed, Last
  <2>4. at = Last(pc)
    BY <1>1, <1>5
  <2>5. QED
    BY <1>1, <1>2, <1>3, <2>1, <2>2, <2>3, <2>4, SizeAssumption
<1>6. QED
  BY <1>4, <1>5

\* The visits that let the loop go on.
Going == \/ SkipRemoved \/ ColumnFixed \/ ColumnOpen \/ EmptyColumn \/ ColumnUsed
         \/ EmptyRow \/ RedundantRow \/ ForcingRow \/ SingletonRow \/ SingletonKept
         \/ RowKept \/ Propagate

\* The visits that end it with a verdict.
Failing == ColumnCrossed \/ RowCrossed \/ EmptyRowViolated \/ RowUnreachable

LEMMA GoingGoesOn ==
  ASSUME TypeOK, Going
  PROVE  GoOn /\ pc \in DOMAIN Following /\ changed' \in BOOLEAN
<1>1. DOMAIN Following = {"fixed", "empty", "rows", "propagate"}
  BY DEF Following
<1>2. CASE SkipRemoved \/ ColumnOpen \/ ColumnUsed \/ RowKept
  BY <1>1, <1>2 DEF SkipRemoved, ColumnOpen, ColumnUsed, RowKept, OpenRow, Visit, Skip, TypeOK
<1>3. CASE ColumnFixed \/ EmptyColumn
  BY <1>1, <1>3 DEF ColumnFixed, EmptyColumn, Visit
<1>4. CASE EmptyRow \/ RedundantRow \/ ForcingRow \/ SingletonRow \/ SingletonKept
  BY <1>1, <1>4 DEF EmptyRow, RedundantRow, ForcingRow, SingletonRow, SingletonKept, Singleton,
                    OpenRow, Visit, Dropped, TypeOK
<1>5. CASE Propagate
  BY <1>1, <1>5 DEF Propagate, Visit, TypeOK
<1>6. QED
  BY <1>2, <1>3, <1>4, <1>5 DEF Going

\* Nothing of the working model changes.
Untouched == UNCHANGED <<problem, range, bound, row_active, col_active, row_count,
                         col_count, fixed_value>>

LEMMA UntouchedData ==
  ASSUME DataInv, Untouched
  PROVE  DataInv'
<1>1. DataTypes' /\ CountsExact' /\ BoundInv' /\ FixedInv'
  BY DEF DataInv, Untouched, DataTypes, CountsExact, Support, BoundInv, FixedInv
<1>2. /\ problem' = problem
      /\ \A p : InBox(p)' <=> InBox(p)
  BY DEF Untouched, InBox
<1>3. /\ \A i : Original(i)' = Original(i)
      /\ \A i, p, S : Row(i, p, S)' = Row(i, p, S)
      /\ \A p : Cost(p)' = Cost(p)
      /\ \A p : Satisfies(p)' <=> Satisfies(p)
  BY <1>2 DEF Original, Row, Cost, Satisfies
<1>4. \A p : Holds(p)' <=> Holds(p)
  BY <1>2, <1>3 DEF Holds, Untouched
<1>5. ShiftInv'
  <2>1. \A i : Used(i)' = Used(i)
    BY DEF Used, Row, Untouched
  <2>2. QED
    BY <1>3, <2>1 DEF ShiftInv, DataInv, Untouched
<1>6. DroppedInv'
  BY <1>2, <1>3 DEF DroppedInv, DataInv, Untouched, AllPoints
<1>7. KeptInv'
  BY <1>3, <1>4 DEF KeptInv, DataInv, AllPoints
<1>8. OpenInv'
  <2>1. \A i, j, b : Leaves(i, j, b)' <=> Leaves(i, j, b)
    BY <1>3 DEF Leaves, Untouched
  <2>2. QED
    BY <2>1 DEF OpenInv, DataInv, Untouched
<1>9. QED
  BY <1>1, <1>5, <1>6, <1>7, <1>8 DEF DataInv

LEMMA GoingData ==
  ASSUME TypeOK, DataInv, Uncrossed, Going
  PROVE  DataInv'
<1>1. CASE SkipRemoved \/ ColumnOpen \/ ColumnUsed \/ RowKept
  <2>1. Untouched
    BY <1>1 DEF SkipRemoved, ColumnOpen, ColumnUsed, RowKept, Skip, GoOn, Untouched
  <2>2. QED
    BY <2>1, UntouchedData
<1>2. CASE EmptyColumn
  <2>1. ~ CrossedBy(bound[at], 0)
    BY <1>2, PastFirstLoop DEF EmptyColumn, Visit, NoneCrossed
  <2>2. QED
    BY <1>2, <2>1, EmptyColumnStep
<1>3. CASE ForcingRow
  <2>1. \A j \in col_active : ~ CrossedBy(bound[j], 0)
    BY <1>3, PastFirstLoop DEF ForcingRow, OpenRow, Visit, NoneCrossed
  <2>2. QED
    BY <1>3, <2>1, ForcingRowStep
<1>4. QED
  BY <1>1, <1>2, <1>3, FixedColumnStep, EmptyRowStep, RedundantRowStep, SingletonRowStep,
     SingletonKeptStep, PropagateStep DEF Going

\* The visits of the first loop leave a crossed column only if it is still to come.
LEMMA FirstLoopUncrossed ==
  ASSUME TypeOK, Placed, Uncrossed, SkipRemoved \/ ColumnFixed \/ ColumnOpen, pc = "fixed"
  PROVE  Uncrossed'
<1>1. /\ GoOn /\ pc \in DOMAIN Following /\ at \in 1 .. NCols
  <2>1. Going
    BY DEF Going
  <2>2. Last("fixed") = NCols
    BY DEF Last
  <2>3. QED
    BY <2>1, <2>2, GoingGoesOn DEF Placed
<1>2. /\ pc' = "fixed" => at' = at + 1
      /\ pc' # "fixed" => at = NCols
  BY <1>1, GoOnEffect
<1>3. /\ bound' = bound /\ row_active' = row_active
      /\ \A j \in col_active' : j \in col_active /\ (j = at => ~ CrossedBy(bound[j], 0))
  <2>1. CASE SkipRemoved
    BY <2>1 DEF SkipRemoved, Skip
  <2>2. CASE ColumnFixed
    BY <2>2 DEF ColumnFixed, FixColumns
  <2>3. CASE ColumnOpen
    <3>1. bound[at] \in Interval
      BY <2>3 DEF ColumnOpen, Visit, TypeOK
    <3>2. ~ CrossedBy(bound[at], 0)
      BY <2>3, <3>1, Sides DEF ColumnOpen, Closed, CrossedBy, Finite
    <3>3. QED
      BY <2>3, <3>2 DEF ColumnOpen, Skip
  <2>4. QED
    BY <2>1, <2>2, <2>3
<1>4. ASSUME NEW j \in col_active', CrossedBy(bound[j], 0)
      PROVE  /\ row_active' = Rows
             /\ pc' = "fixed" /\ at' <= j
  <2>1. j \in col_active /\ j # at /\ at <= j /\ row_active = Rows
    BY <1>3, <1>4 DEF Uncrossed
  <2>2. j \in 1 .. NCols
    BY <2>1 DEF TypeOK, Cols
  <2>3. at # NCols /\ at + 1 <= j
    BY <1>1, <2>1, <2>2, SizeAssumption
  <2>4. QED
    BY <1>2, <1>3, <2>1, <2>3
<1>5. QED
  BY <1>3, <1>4 DEF Uncrossed

\* In the later loops there is none, and tightening makes none.
LEMMA LaterUncrossed ==
  ASSUME TypeOK, DataInv, Uncrossed, Going, pc # "fixed"
  PROVE  Uncrossed'
<1>1. GoOn /\ pc \in DOMAIN Following
  BY GoingGoesOn
<1>2. NoneCrossed
  BY <1>1, PastFirstLoop DEF Following
<1>3. col_active' \subseteq col_active /\ Narrowed /\ problem' = problem
  <2>1. CASE SkipRemoved \/ ColumnOpen \/ ColumnUsed \/ RowKept
    BY <2>1, BoundsKept DEF SkipRemoved, ColumnOpen, ColumnUsed, RowKept, Skip, GoOn
  <2>2. CASE ColumnFixed \/ EmptyColumn
    BY <2>2, BoundsKept DEF ColumnFixed, EmptyColumn, FixColumns, GoOn
  <2>3. CASE EmptyRow \/ RedundantRow
    BY <2>3, BoundsKept DEF EmptyRow, RedundantRow, Dropped, GoOn
  <2>4. CASE ForcingRow
    BY <2>4, BoundsKept DEF ForcingRow, FixColumns, GoOn
  <2>5. CASE SingletonRow \/ SingletonKept
    <3>1. Singleton /\ bound' = [bound EXCEPT ![Only] = Absorbing] /\ col_active' = col_active
      BY <2>5 DEF SingletonRow, SingletonKept
    <3>2. problem' = problem
      BY <1>1 DEF GoOn
    <3>3. QED
      BY <3>1, <3>2, AbsorbingSound
  <2>6. CASE Propagate
    <3>1. /\ at \in Rows /\ col_active' = col_active
          /\ bound' = [j \in Cols |->
                IF j \in Support(at) THEN Tightened(bound[j], Proposed(at, j)) ELSE bound[j]]
      BY <2>6 DEF Propagate, Visit, TypeOK
    <3>2. \A j \in Cols : j \in Support(at) =>
             Proposed(at, j) \in Interval /\ bound'[j] = Tightened(bound[j], Proposed(at, j))
      BY <3>1, ProposedSound
    <3>3. \A j \in Cols : j \notin Support(at) => bound'[j] = bound[j]
      BY <3>1
    <3>4. bound' = [j \in Cols |-> bound'[j]]
      BY <3>1
    <3>5. Narrowed
      BY <3>2, <3>3, <3>4 DEF Narrowed
    <3>6. QED
      BY <1>1, <3>1, <3>5 DEF GoOn
  <2>7. QED
    BY <2>1, <2>2, <2>3, <2>4, <2>5, <2>6 DEF Going
<1>4. \A j \in Cols : Narrower(bound'[j], bound[j])
  BY <1>3, NarrowEffect DEF DataInv
<1>5. \A j \in col_active' : ~ CrossedBy(bound'[j], 0)
  BY <1>2, <1>3, <1>4 DEF NoneCrossed, Narrower, TypeOK
<1>6. QED
  BY <1>5 DEF Uncrossed

LEMMA InvariantParts ==
  PresolveInv <=> /\ TypeOK /\ Placed /\ Uncrossed /\ DataInv
                  /\ FailInv /\ RayInv /\ PostsolveFeasible
BY TypeParts DEF PresolveInv, DataInv

LEMMA GoingStep ==
  ASSUME PresolveInv, Going
  PROVE  PresolveInv'
<1>1. TypeOK /\ Placed /\ Uncrossed /\ DataInv /\ PostsolveFeasible
  BY InvariantParts
<1>2. GoOn /\ pc \in DOMAIN Following /\ changed' \in BOOLEAN
  BY <1>1, GoingGoesOn
<1>3. /\ pc' \in DOMAIN Following \cup {"close", "emit", "done"}
      /\ at' \in 1 .. NRows + NCols /\ Placed' /\ status' = "OK"
      /\ x' = x /\ pass' = pass /\ problem' = problem
  BY <1>1, <1>2, GoOnEffect
<1>4. DataInv'
  BY <1>1, GoingData
<1>5. ControlTypes'
  BY <1>1, <1>2, <1>3 DEF ControlTypes, TypeOK, Following
<1>6. TypeOK'
  BY <1>4, <1>5, TypeParts, PTL DEF DataInv
<1>7. Uncrossed'
  <2>1. CASE pc # "fixed"
    BY <1>1, <2>1, LaterUncrossed
  <2>2. CASE pc = "fixed"
    <3>1. SkipRemoved \/ ColumnFixed \/ ColumnOpen
      BY <2>2 DEF Going, EmptyColumn, ColumnUsed, EmptyRow, RedundantRow, ForcingRow, SingletonRow,
                  SingletonKept, RowKept, Propagate, Singleton, OpenRow, Visit
    <3>2. QED
      BY <1>1, <2>2, <3>1, FirstLoopUncrossed
  <2>3. QED
    BY <2>1, <2>2
<1>8. FailInv' /\ RayInv'
  BY <1>3 DEF FailInv, RayInv
<1>9. PostsolveFeasible'
  BY <1>1, <1>3, CallerUntouched DEF PostsolveFeasible, Acceptable, Row, Original
<1>10. QED
  BY <1>3, <1>4, <1>6, <1>7, <1>8, <1>9, InvariantParts, PTL

-----------------------------------------------------------------------------
(***************************************************************************)
(* Verdicts, the end of a pass, and the way back.                          *)
(***************************************************************************)
\* INFEASIBLE is concluded where nothing is left.
LEMMA NothingLeft ==
  ASSUME PresolveInv, Failing, NEW p \in AllPoints, Holds(p)
  PROVE  FALSE
<1>1. TypeOK /\ DataInv /\ CountsExact /\ ShiftInv /\ problem \in Problems /\ InfeasTol \in Nat
  BY InvariantParts, SizeAssumption DEF DataInv, TypeOK
<1>2. /\ InBox(p) /\ \A j \in Cols \ col_active : p[j] = fixed_value[j]
      /\ \A j \in col_active : Within(p[j], bound[j]) /\ p[j] \in Int
      /\ \A i \in row_active : Within(Row(i, p, Cols), Original(i))
  BY <1>1 DEF Holds, InBox, AllPoints, TypeOK
<1>3. \A i \in row_active : /\ i \in Rows /\ range[i] \in Interval
                            /\ Row(i, p, Support(i)) \in Int
                            /\ Within(Row(i, p, Support(i)), range[i])
  BY <1>1, <1>2, Translation DEF TypeOK
<1>4. CASE ColumnCrossed
  <2>1. at \in col_active /\ CrossedBy(bound[at], InfeasTol) /\ bound[at] \in Interval
    BY <1>1, <1>4 DEF ColumnCrossed, Visit, TypeOK
  <2>2. QED
    BY <1>1, <1>2, <2>1, Sides DEF CrossedBy, Within, Finite
<1>5. CASE RowCrossed
  <2>1. at \in row_active /\ CrossedBy(range[at], InfeasTol)
    BY <1>5 DEF RowCrossed, Visit
  <2> DEFINE v == Row(at, p, Support(at))
  <2>2. v \in Int /\ Within(v, range[at]) /\ range[at] \in Interval
    BY <1>3, <2>1
  <2> HIDE DEF v
  <2>3. QED
    BY <1>1, <2>1, <2>2, Sides DEF CrossedBy, Within, Finite
<1>6. CASE EmptyRowViolated
  <2>1. at \in row_active /\ row_count[at] = 0 /\ Misses(0, range[at], InfeasTol)
    BY <1>6 DEF EmptyRowViolated, Visit
  <2>2. Support(at) = {}
    <3>1. Support(at) \in SUBSET Cols
      BY <1>1 DEF Support, TypeOK
    <3>2. IsFiniteSet(Support(at)) /\ Cardinality(Support(at)) = 0
      BY <1>1, <2>1, <3>1, Model DEF CountsExact
    <3>3. QED
      BY <3>2, FS_EmptySet
  <2>3. Row(at, p, Support(at)) = 0
    BY <2>2, LineEmpty, RowIsLine
  <2>4. Within(0, range[at]) /\ range[at] \in Interval
    BY <1>3, <2>1, <2>3
  <2>5. QED
    BY <1>1, <2>1, <2>4, WithinIsNoMiss
<1>7. CASE RowUnreachable
  <2>1. at \in row_active /\ Unreachable
    BY <1>7 DEF RowUnreachable, Visit
  <2> DEFINE v == Row(at, p, Support(at))
  <2>2. v \in Int /\ Within(v, range[at]) /\ range[at] \in Interval
    BY <1>3, <2>1
  <2>3. /\ Finite(MinActivity(at)) => MinActivity(at) <= v
        /\ Finite(MaxActivity(at)) => v <= MaxActivity(at)
    BY <1>1, <1>2, <1>3, <2>1, Activities
  <2> HIDE DEF v
  <2>4. QED
    BY <1>1, <2>1, <2>2, <2>3 DEF Unreachable, Within, Finite
<1>8. QED
  BY <1>4, <1>5, <1>6, <1>7 DEF Failing

LEMMA FailingFails ==
  ASSUME TypeOK, Failing
  PROVE  Untouched /\ Fail /\ pc # "done"
BY DEF Failing, ColumnCrossed, RowCrossed, EmptyRowViolated, RowUnreachable, Fail, Visit, Untouched

LEMMA FailingStep ==
  ASSUME PresolveInv, Failing
  PROVE  PresolveInv'
<1>1. TypeOK /\ Placed /\ Uncrossed /\ DataInv /\ PostsolveFeasible
  BY InvariantParts
<1>2. /\ Untouched /\ status' = "INFEASIBLE" /\ pc' = "done"
      /\ at' = at /\ pass' = pass /\ changed' = changed /\ x' = x
  BY <1>1, FailingFails DEF Fail
<1>3. DataInv'
  BY <1>1, <1>2, UntouchedData
<1>4. TypeOK'
  <2>1. ControlTypes'
    BY <1>1, <1>2 DEF ControlTypes, TypeOK
  <2>2. QED
    BY <1>3, <2>1, TypeParts, PTL DEF DataInv
<1>5. Placed'
  BY <1>2 DEF Placed, Following
<1>6. Uncrossed'
  BY <1>1, <1>2 DEF Uncrossed, Untouched
<1>7. FailInv'
  <2>1. \A p \in AllPoints : ~ Holds(p)
    BY NothingLeft
  <2>2. \A p : Holds(p)' <=> Holds(p)
    BY <1>2 DEF Holds, InBox, Row, Original, Untouched
  <2>3. QED
    BY <2>1, <2>2 DEF FailInv, AllPoints
<1>8. RayInv'
  BY <1>2 DEF RayInv
<1>9. PostsolveFeasible'
  BY <1>1, <1>2 DEF PostsolveFeasible, Acceptable, Row, Original, Untouched
<1>10. QED
  BY <1>3, <1>4, <1>5, <1>6, <1>7, <1>8, <1>9, InvariantParts, PTL

\* A point that keeps to the columns and rows that are left is acceptable.
LEMMA HoldsIsAcceptable ==
  ASSUME TypeOK, DataInv, NEW p \in AllPoints, Holds(p)
  PROVE  Acceptable(p)
<1>1. /\ \A j \in Cols \ col_active : p[j] = fixed_value[j]
      /\ \A j \in col_active : Within(p[j], bound[j])
      /\ \A i \in row_active : Within(Row(i, p, Cols), Original(i))
      /\ InBox(p)
  BY DEF Holds, InBox
<1>2. ASSUME NEW j \in Cols
      PROVE  Between(p[j], problem.bound[j])
  <2>1. CASE j \in col_active
    <3>1. /\ bound[j] \in Interval /\ problem.bound[j] \in Interval /\ p[j] \in Int
          /\ Tighter(bound[j], problem.bound[j])
      BY Model DEF TypeOK, AllPoints, DataInv, BoundInv
    <3>2. QED
      BY <1>1, <2>1, <3>1, TighterWithin DEF Between
  <2>2. CASE j \notin col_active
    BY <1>1, <2>2 DEF DataInv, FixedInv
  <2>3. QED
    BY <2>1, <2>2
<1>3. ASSUME NEW i \in Rows
      PROVE  ~ Misses(Row(i, p, Cols), Original(i), InfeasTol)
  <2>1. CASE i \in row_active
    <3>1. Row(i, p, Cols) \in Int /\ Original(i) \in Interval
      <4>1. problem \in Problems /\ Cols \in SUBSET Cols /\ \A j \in Cols : p[j] \in Int
        BY DEF TypeOK, AllPoints
      <4>2. QED
        BY <4>1, RowUnion, Model
    <3>2. QED
      BY <1>1, <2>1, <3>1, WithinIsNoMiss, SizeAssumption
  <2>2. CASE i \notin row_active
    BY <1>1, <2>2 DEF DataInv, DroppedInv
  <2>3. QED
    BY <2>1, <2>2
<1>4. QED
  BY <1>2, <1>3 DEF Acceptable

\* What postsolve makes of a solution of the reduced model.
LEMMA PostsolveHolds ==
  ASSUME TypeOK, DataInv, NEW q \in ReducedPoints
  PROVE  Postsolve(q) \in AllPoints /\ Holds(Postsolve(q))
<1> DEFINE p == Postsolve(q)
<1>1. /\ \A j \in col_active : q[j] \in Int /\ Within(q[j], bound[j])
      /\ \A i \in row_active : Within(Row(i, q, col_active),
            RowRange(Reencoded(range[i]).rhs, Reencoded(range[i]).slack))
  BY SizeAssumption DEF ReducedPoints
<1>2. /\ p \in AllPoints
      /\ \A j \in Cols \ col_active : p[j] = fixed_value[j]
      /\ \A j \in col_active : p[j] = q[j]
  BY <1>1 DEF Postsolve, AllPoints, TypeOK
<1> HIDE DEF p
<1>3. InBox(p)
  BY <1>1, <1>2 DEF InBox
<1>4. ASSUME NEW i \in row_active
      PROVE  Within(Row(i, p, col_active), range[i])
  <2>1. i \in Rows /\ range[i] \in Interval /\ problem \in Problems /\ col_active \in SUBSET Cols
    BY DEF TypeOK
  <2>2. Within(Row(i, q, col_active), range[i])
    BY <1>1, <2>1, ReencodedSound
  <2>3. Row(i, q, col_active) = Row(i, p, col_active)
    BY <1>1, <1>2, <2>1, RowEqual
  <2>4. QED
    BY <2>2, <2>3
<1>5. Stands(p)
  BY <1>3, <1>4 DEF Stands
<1>6. Holds(p)
  BY <1>2, <1>5, HoldsIsStands DEF DataInv
<1>7. QED
  BY <1>2, <1>6 DEF p

\* The steps that give no INFEASIBLE and touch no part of the working model.
LEMMA ClosingStep ==
  ASSUME PresolveInv, EmptyColumnUnbounded \/ ClosePass \/ Solve \/ Done \/ UNCHANGED vars
  PROVE  PresolveInv'
<1>1. TypeOK /\ Placed /\ Uncrossed /\ DataInv /\ FailInv /\ RayInv /\ PostsolveFeasible
  BY InvariantParts
<1>2. Untouched
  BY DEF EmptyColumnUnbounded, ClosePass, Solve, Done, Untouched, vars
<1>3. DataInv'
  BY <1>1, <1>2, UntouchedData
<1>4. /\ \A p : Acceptable(p)' <=> Acceptable(p)
      /\ \A p : Holds(p)' <=> Holds(p)
  BY <1>2 DEF Acceptable, Holds, InBox, Row, Original, Untouched
<1>5. CASE EmptyColumnUnbounded
  <2>1. /\ pc = "empty" /\ at \in col_active /\ col_count[at] = 0 /\ ~ Finite(BestBound(at))
        /\ status' = "UNBOUNDED" /\ pc' = "done"
        /\ at' = at /\ pass' = pass /\ changed' = changed /\ x' = x
    BY <1>5 DEF EmptyColumnUnbounded, Visit
  <2>2. ControlTypes' /\ Placed'
    BY <1>1, <2>1 DEF ControlTypes, TypeOK, Placed, Following
  <2>3. Uncrossed'
    BY <1>1, <1>2, <2>1 DEF Uncrossed, Untouched
  <2>4. FailInv'
    BY <2>1 DEF FailInv
  <2>5. RayInv'
    <3>1. BestBound(at)' = BestBound(at)
      BY <1>2, <2>1 DEF BestBound, Untouched
    <3>2. QED
      BY <1>2, <2>1, <3>1 DEF RayInv, Untouched
  <2>6. PostsolveFeasible'
    BY <1>1, <1>4, <2>1 DEF PostsolveFeasible, Acceptable, Row, Original, Untouched
  <2>7. TypeOK'
    BY <1>3, <2>2, TypeParts, PTL DEF DataInv
  <2>8. QED
    BY <1>3, <2>2, <2>3, <2>4, <2>5, <2>6, <2>7, InvariantParts, PTL
<1>6. CASE ClosePass
  <2>1. /\ pc = "close" /\ pc' \in {"fixed", "emit"} /\ at' = at /\ at = 1 /\ status' = status /\ x' = x
        /\ status = "OK" /\ pass' \in 0 .. MaxPasses - 1 /\ changed' \in BOOLEAN
    <3>1. pc = "close" /\ at' = at /\ at = 1 /\ status' = status /\ x' = x /\ status = "OK"
      BY <1>1, <1>6 DEF ClosePass, Placed
    <3>2. pass \in 0 .. MaxPasses - 1 /\ changed \in BOOLEAN
      BY <1>1 DEF TypeOK
    <3>3. CASE AnotherPass
      <4>1. pc' = "fixed" /\ pass' = pass + 1 /\ changed' = FALSE /\ pass + 1 < MaxPasses
        BY <1>6, <3>3 DEF ClosePass, AnotherPass
      <4>2. pass' \in 0 .. MaxPasses - 1
        BY <3>2, <4>1, SizeAssumption
      <4>3. QED
        BY <3>1, <4>1, <4>2
    <3>4. CASE ~ AnotherPass
      <4>1. pc' = "emit" /\ pass' = pass /\ changed' = changed
        BY <1>6, <3>4 DEF ClosePass
      <4>2. QED
        BY <3>1, <3>2, <4>1
    <3>5. QED
      BY <3>3, <3>4
  <2>2. ControlTypes' /\ Placed'
    <3>1. 1 \in 1 .. NCols
      BY SizeAssumption
    <3>2. QED
      BY <1>1, <2>1, <3>1 DEF ControlTypes, TypeOK, Placed, Following, Last
  <2>3. Uncrossed'
    <3>1. NoneCrossed
      BY <1>1, <2>1, PastFirstLoop
    <3>2. QED
      BY <1>2, <3>1 DEF Uncrossed, NoneCrossed, Untouched
  <2>4. FailInv' /\ RayInv'
    BY <2>1 DEF FailInv, RayInv
  <2>5. PostsolveFeasible'
    BY <1>1, <1>2, <2>1 DEF PostsolveFeasible, Acceptable, Row, Original, Untouched
  <2>6. TypeOK'
    BY <1>3, <2>2, TypeParts, PTL DEF DataInv
  <2>7. QED
    BY <1>3, <2>2, <2>3, <2>4, <2>5, <2>6, InvariantParts, PTL
<1>7. CASE Solve
  <2>1. /\ pc = "emit" /\ pc' = "done" /\ at' = at /\ pass' = pass /\ changed' = changed
        /\ status' = status /\ status = "OK"
        /\ x' \in {Postsolve(q) : q \in ReducedPoints} \cup {<<>>}
    BY <1>1, <1>7 DEF Solve, Placed
  <2>2. x' # <<>> => x' \in AllPoints /\ Acceptable(x')
    BY <1>1, <2>1, PostsolveHolds, HoldsIsAcceptable
  <2>3. ControlTypes' /\ Placed'
    BY <1>1, <2>1, <2>2 DEF ControlTypes, TypeOK, Placed, Following, AllPoints
  <2>4. Uncrossed'
    <3>1. NoneCrossed
      BY <1>1, <2>1, PastFirstLoop
    <3>2. QED
      BY <1>2, <3>1 DEF Uncrossed, NoneCrossed, Untouched
  <2>5. FailInv' /\ RayInv'
    BY <2>1 DEF FailInv, RayInv
  <2>6. PostsolveFeasible'
    BY <1>2, <2>2 DEF PostsolveFeasible, Acceptable, Row, Original, Untouched
  <2>7. TypeOK'
    BY <1>3, <2>3, TypeParts, PTL DEF DataInv
  <2>8. QED
    BY <1>3, <2>3, <2>4, <2>5, <2>6, <2>7, InvariantParts, PTL
<1>8. CASE Done \/ UNCHANGED vars
  <2>1. Untouched /\ pc' = pc /\ at' = at /\ pass' = pass /\ changed' = changed
        /\ status' = status /\ x' = x
    BY <1>8 DEF Done, vars, Untouched
  <2>2. ControlTypes' /\ Placed' /\ Uncrossed'
    BY <1>1, <2>1 DEF ControlTypes, TypeOK, Placed, Uncrossed, Last, Untouched
  <2>3. FailInv'
    BY <1>1, <1>4, <2>1 DEF FailInv, AllPoints
  <2>4. RayInv'
    BY <1>1, <2>1 DEF RayInv, BestBound, Untouched
  <2>5. PostsolveFeasible'
    BY <1>1, <1>2, <2>1 DEF PostsolveFeasible, Acceptable, Row, Original, Untouched
  <2>6. TypeOK'
    BY <1>3, <2>2, TypeParts, PTL DEF DataInv
  <2>7. QED
    BY <1>3, <2>2, <2>3, <2>4, <2>5, <2>6, InvariantParts, PTL
<1>9. QED
  BY <1>5, <1>6, <1>7, <1>8

-----------------------------------------------------------------------------
(***************************************************************************)
(* The theorems.                                                           *)
(***************************************************************************)
LEMMA InvariantInitially ==
  ASSUME Init
  PROVE  PresolveInv
<1>1. /\ problem \in Problems /\ row_active = Rows /\ col_active = Cols
      /\ range = [i \in Rows |-> Original(i)] /\ bound = problem.bound
      /\ fixed_value = [j \in Cols |-> 0]
      /\ pc = "fixed" /\ at = 1 /\ pass = 0 /\ changed = FALSE /\ status = "OK" /\ x = <<>>
  BY DEF Init
<1>2. /\ \A i \in Rows : Original(i) \in Interval
      /\ problem.bound \in [Cols -> Interval]
      /\ \A j \in Cols : problem.bound[j] \in Interval
  BY <1>1, Model, ProblemAssumption
<1>3. CountsExact /\ row_count \in [Rows -> 0 .. NCols] /\ col_count \in [Cols -> 0 .. NRows]
  <2>1. \A i \in Rows : Cardinality({j \in Cols : problem.A[i][j] # 0}) \in 0 .. NCols
    BY CountType, SizeAssumption DEF Cols
  <2>2. \A j \in Cols : Cardinality({i \in Rows : problem.A[i][j] # 0}) \in 0 .. NRows
    BY CountType, SizeAssumption DEF Rows
  <2>3. CountsExact
    BY <1>1 DEF Init, CountsExact, Support
  <2>4. QED
    BY <2>1, <2>2, <2>3 DEF Init
<1>4. DataTypes
  <2>1. range \in [Rows -> Interval]
    BY <1>1, <1>2
  <2>2. fixed_value \in [Cols -> Int]
    BY <1>1
  <2>3. QED
    BY <1>1, <1>2, <1>3, <2>1, <2>2 DEF DataTypes
<1>5. ControlTypes
  <2>1. 0 \in 0 .. MaxPasses - 1 /\ 1 \in 1 .. NRows + NCols
    BY SizeAssumption
  <2>2. "fixed" \in DOMAIN Following
    BY DEF Following
  <2>3. QED
    BY <1>1, <2>1, <2>2 DEF ControlTypes
<1>6. TypeOK
  BY <1>4, <1>5, TypeParts
<1>7. Placed /\ Uncrossed
  <2>1. 1 \in 1 .. NCols
    BY SizeAssumption
  <2>2. \A j \in Cols : 1 <= j
    BY DEF Cols
  <2>3. QED
    BY <1>1, <2>1, <2>2 DEF Placed, Uncrossed, Last, Following
<1>8. BoundInv
  <2>1. \A j \in Cols : Tighter(problem.bound[j], problem.bound[j])
    BY <1>2, Sides DEF Tighter, Finite
  <2>2. QED
    BY <1>1, <2>1 DEF BoundInv
<1>9. ShiftInv
  <2> SUFFICES ASSUME NEW i \in Rows
               PROVE  range[i] = Shifted(Original(i), Used(i))
    BY <1>1 DEF ShiftInv
  <2>1. Used(i) = 0
    <3>1. Cols \ col_active = {}
      BY <1>1
    <3>2. QED
      BY <3>1, LineEmpty, RowIsLine DEF Used
  <2>2. /\ Original(i).lo \in Int \/ Original(i).lo = Infinity
        /\ Original(i).hi \in Int \/ Original(i).hi = Infinity
        /\ Original(i) = [lo |-> Original(i).lo, hi |-> Original(i).hi]
    BY <1>2, Sides
  <2>3. Shift(Original(i).lo, 0) = Original(i).lo /\ Shift(Original(i).hi, 0) = Original(i).hi
    BY <2>2, OpenIsNoNumber DEF Shift, Finite
  <2>4. QED
    BY <1>1, <2>1, <2>2, <2>3 DEF Shifted
<1>10. FixedInv /\ DroppedInv /\ OpenInv /\ FailInv /\ RayInv /\ PostsolveFeasible
  BY <1>1 DEF FixedInv, DroppedInv, OpenInv, FailInv, RayInv, PostsolveFeasible
<1>11. KeptInv
  <2> SUFFICES ASSUME NEW p \in AllPoints, Satisfies(p)
               PROVE  Holds(p) /\ Cost(p) <= Cost(p)
    BY DEF KeptInv
  <2>1. Holds(p)
    BY <1>1 DEF Satisfies, Holds, InBox
  <2>2. QED
    BY <1>6, <2>1, CostType
<1>12. QED
  BY <1>3, <1>6, <1>7, <1>8, <1>9, <1>10, <1>11 DEF PresolveInv

\* The invariant holds in every state of every run of presolve() and postsolve().
THEOREM PresolveInvariant ==
  Spec => []PresolveInv
<1>1. Init => PresolveInv
  BY InvariantInitially
<1>2. PresolveInv /\ [Next]_vars => PresolveInv'
  <2> SUFFICES ASSUME PresolveInv, [Next]_vars
               PROVE  PresolveInv'
    OBVIOUS
  <2>1. \/ Going \/ Failing
        \/ EmptyColumnUnbounded \/ ClosePass \/ Solve \/ Done \/ UNCHANGED vars
    BY DEF Next, Going, Failing
  <2>2. QED
    BY <2>1, GoingStep, FailingStep, ClosingStep
<1>3. QED
  BY <1>1, <1>2, PTL DEF Spec

\* Between any two reductions the counters agree with what is active and no
\* derived bound has emptied a domain.
THEOREM WorkingModelStaysConsistent ==
  Spec => []WorkingModelConsistent
<1>1. PresolveInv => WorkingModelConsistent
  <2> SUFFICES ASSUME PresolveInv
               PROVE  DomainsNotEmptied
    BY DEF PresolveInv, WorkingModelConsistent
  <2>1. col_active \subseteq Cols
    BY DEF PresolveInv, TypeOK
  <2>2. QED
    BY <2>1 DEF PresolveInv, BoundInv, DomainsNotEmptied
<1>2. QED
  BY <1>1, PresolveInvariant, PTL

\* A point of the reduced model, expanded, is one the caller accepts: no
\* tolerance but that of the infeasibility tests is ever used up, however many
\* reductions there were.
THEOREM ReductionsAddNothing ==
  Spec => []NothingAdded
<1>1. PresolveInv => NothingAdded
  <2> SUFFICES ASSUME PresolveInv, NEW p \in Points, Stands(p)
               PROVE  Acceptable(p)
    BY DEF NothingAdded
  <2>1. p \in AllPoints
    BY SizeAssumption DEF Points, AllPoints
  <2>2. TypeOK /\ DataInv /\ ShiftInv
    BY InvariantParts DEF DataInv
  <2>3. QED
    BY <2>1, <2>2, HoldsIsStands, HoldsIsAcceptable
<1>2. QED
  BY <1>1, PresolveInvariant, PTL

\* When the points range over all integers, the reduced model has the caller's
\* optimum after any sequence of reductions.
THEOREM ReducedModelKeepsOptimum ==
  ASSUME Sample = Int
  PROVE  Spec => []SameOptimum
<1>1. PresolveInv => OptimumKept
  <2> SUFFICES ASSUME PresolveInv, NEW p \in Points, Satisfies(p)
               PROVE  \E q \in {q \in Points : Stands(q)} : Cost(q) <= Cost(p)
    BY DEF OptimumKept
  <2>1. Points = AllPoints
    BY DEF Points, AllPoints
  <2>2. PICK q \in AllPoints : Holds(q) /\ Cost(q) <= Cost(p)
    BY <2>1 DEF PresolveInv, KeptInv
  <2>3. Stands(q)
    BY <2>2, HoldsIsStands DEF PresolveInv
  <2>4. QED
    BY <2>1, <2>2, <2>3
<1>2. QED
  BY <1>1, PresolveInvariant, ReductionsAddNothing, PTL DEF SameOptimum

\* The expanded solution of the reduced model meets the caller's rows and bounds.
THEOREM PostsolveStaysFeasible ==
  Spec => []PostsolveFeasible
<1>1. PresolveInv => PostsolveFeasible
  BY DEF PresolveInv
<1>2. QED
  BY <1>1, PresolveInvariant, PTL

\* The direction along which a model found UNBOUNDED improves for ever.
LEMMA RayImproves ==
  ASSUME PresolveInv, status = "UNBOUNDED", NEW p \in Points, Satisfies(p)
  PROVE  \E d \in {-1, 1} : LET q == [p EXCEPT ![at] = p[at] + d]
                            IN Satisfies(q) /\ Cost(q) < Cost(p)
<1>1. /\ TypeOK /\ CountsExact /\ BoundInv /\ OpenInv /\ p \in AllPoints
      /\ at \in col_active /\ at \in Cols /\ col_count[at] = 0 /\ ~ Finite(BestBound(at))
      /\ problem \in Problems
  BY SizeAssumption DEF PresolveInv, RayInv, TypeOK, Points, AllPoints
<1> DEFINE c == problem.obj[at]
           b == bound[at]
           v == p[at]
<1>2. c \in Int /\ v \in Int /\ b \in Interval /\ problem.bound[at] \in Interval
  BY <1>1, Model DEF TypeOK, AllPoints
<1>3. BestBound(at) = IF c > 0 THEN b.lo ELSE IF c < 0 THEN b.hi
                      ELSE IF Finite(b.lo) THEN b.lo ELSE IF Finite(b.hi) THEN b.hi ELSE 0
  BY DEF BestBound
<1>4. \/ c > 0 /\ ~ Finite(b.lo)
      \/ c < 0 /\ ~ Finite(b.hi)
  <2> HIDE DEF c, b
  <2>1. Finite(0)
    BY DEF Finite
  <2>2. QED
    BY <1>1, <1>2, <1>3, <2>1
<1>5. ASSUME NEW d \in {-1, 1}, d = -1 => c > 0 /\ ~ Finite(b.lo), d = 1 => c < 0 /\ ~ Finite(b.hi)
      PROVE  LET q == [p EXCEPT ![at] = p[at] + d] IN Satisfies(q) /\ Cost(q) < Cost(p)
  <2> DEFINE w == p[at] + d
             q == [p EXCEPT ![at] = w]
  <2>1. w \in Int /\ w = v + d
    BY <1>2
  <2>2. /\ q \in AllPoints /\ Cost(p) \in Int
        /\ Cost(q) = Cost(p) + (c * w - c * v)
        /\ \A i \in Rows :
             /\ Row(i, p, Cols) \in Int
             /\ Row(i, q, Cols) = Row(i, p, Cols) + (problem.A[i][at] * w - problem.A[i][at] * v)
    BY <1>1, <2>1, MovedPoint
  <2>3. q[at] = w /\ \A j \in Cols : j # at => q[j] = p[j]
    BY <1>1 DEF AllPoints
  <2> HIDE DEF q, w, c, b, v
  <2>4. Cost(q) < Cost(p)
    <3>1. CASE d = -1
      <4>1. c * w = c * v - c
        BY <1>2, <2>1, <3>1
      <4>2. c * v \in Int
        BY <1>2
      <4> DEFINE cv == c * v
      <4> HIDE DEF cv
      <4>3. cv \in Int /\ Cost(q) = Cost(p) + ((cv - c) - cv)
        BY <2>2, <4>1, <4>2 DEF cv
      <4>4. QED
        BY <1>2, <1>5, <2>2, <3>1, <4>3
    <3>2. CASE d = 1
      <4>1. c * w = c * v + c
        BY <1>2, <2>1, <3>2
      <4>2. c * v \in Int
        BY <1>2
      <4> DEFINE cv == c * v
      <4> HIDE DEF cv
      <4>3. cv \in Int /\ Cost(q) = Cost(p) + ((cv + c) - cv)
        BY <2>2, <4>1, <4>2 DEF cv
      <4>4. QED
        BY <1>2, <1>5, <2>2, <3>2, <4>3
    <3>3. QED
      BY <3>1, <3>2
  <2>5. \A j \in Cols : Within(q[j], problem.bound[j])
    <3>1. Within(v, problem.bound[at]) /\ \A j \in Cols : Within(p[j], problem.bound[j])
      BY <1>1 DEF Satisfies, v
    <3>2. /\ Finite(problem.bound[at].lo) => Finite(b.lo)
          /\ Finite(problem.bound[at].hi) => Finite(b.hi)
      BY <1>1 DEF BoundInv, Tighter, b
    <3>3. /\ problem.bound[at].lo \in Int \/ problem.bound[at].lo = Infinity
          /\ problem.bound[at].hi \in Int \/ problem.bound[at].hi = Infinity
      BY <1>2, Sides
    <3>4. Within(w, problem.bound[at])
      BY <1>2, <1>5, <2>1, <3>1, <3>2, <3>3, OpenIsNoNumber DEF Within, Finite
    <3>5. QED
      BY <2>3, <3>1, <3>4
  <2>6. ASSUME NEW i \in Rows
        PROVE  Within(Row(i, q, Cols), Original(i))
    <3> DEFINE a == problem.A[i][at]
               r == Row(i, p, Cols)
               o == Original(i)
    <3>1. a \in {-1, 0, 1} /\ o \in Interval
      BY <1>1, Model
    <3>2. r \in Int /\ Within(r, o) /\ Row(i, q, Cols) = r + (a * w - a * v)
      BY <2>2 DEF Satisfies
    <3>3. a # 0 => Leaves(i, at, b)
      <4>1. i \in row_active => a = 0
        <5> DEFINE T == {k \in row_active : problem.A[k][at] # 0}
        <5>1. T \in SUBSET Rows
          BY <1>1 DEF TypeOK
        <5>2. IsFiniteSet(T) /\ Cardinality(T) = 0
          BY <1>1, <5>1, Model DEF CountsExact
        <5>3. T = {}
          <6> HIDE DEF T
          <6>1. QED
            BY <5>2, FS_EmptySet
        <5>4. QED
          BY <5>3
      <4>2. QED
        BY <1>1, <4>1 DEF OpenInv, b
    <3>4. /\ a > 0 => /\ Finite(o.lo) => Finite(b.lo)
                      /\ Finite(o.hi) => Finite(b.hi)
          /\ a < 0 => /\ Finite(o.hi) => Finite(b.lo)
                      /\ Finite(o.lo) => Finite(b.hi)
      BY <3>1, <3>3 DEF Leaves
    <3>5. /\ o.lo \in Int \/ o.lo = Infinity
          /\ o.hi \in Int \/ o.hi = Infinity
      BY <3>1, Sides
    <3> HIDE DEF a, r, o
    <3>6. a * w - a * v = a * d
      BY <1>2, <2>1, <3>1
    <3>7. Within(r + a * d, o)
      <4>1. CASE a = 0
        BY <3>2, <4>1
      <4>2. CASE a = 1
        BY <1>5, <3>2, <3>4, <3>5, <4>2, OpenIsNoNumber DEF Within, Finite
      <4>3. CASE a = -1
        BY <1>5, <3>2, <3>4, <3>5, <4>3, OpenIsNoNumber DEF Within, Finite
      <4>4. QED
        BY <3>1, <4>1, <4>2, <4>3
    <3>8. QED
      BY <3>2, <3>6, <3>7 DEF o
  <2>7. Satisfies(q)
    BY <2>5, <2>6 DEF Satisfies
  <2>8. QED
    BY <2>4, <2>7 DEF q, w
<1>6. CASE c > 0 /\ ~ Finite(b.lo)
  <2>1. -1 \in {-1, 1}
    OBVIOUS
  <2> HIDE DEF c, b, v
  <2>2. QED
    BY <1>5, <1>6, <2>1
<1>7. CASE c < 0 /\ ~ Finite(b.hi)
  <2>1. 1 \in {-1, 1}
    OBVIOUS
  <2> HIDE DEF c, b, v
  <2>2. QED
    BY <1>5, <1>7, <2>1
<1>8. QED
  BY <1>4, <1>6, <1>7

\* INFEASIBLE and UNBOUNDED, given without a solver, are right.
THEOREM VerdictsAreProven ==
  Spec => []VerdictIsProven
<1>1. PresolveInv => InfeasibleIsProven
  <2> SUFFICES ASSUME PresolveInv, status = "INFEASIBLE", NEW p \in Points, Satisfies(p)
               PROVE  FALSE
    BY DEF InfeasibleIsProven
  <2>1. p \in AllPoints
    BY SizeAssumption DEF Points, AllPoints
  <2>2. PICK q \in AllPoints : Holds(q)
    BY <2>1 DEF PresolveInv, KeptInv
  <2>3. QED
    BY <2>2 DEF PresolveInv, FailInv
<1>2. PresolveInv => UnboundedIsProven
  BY RayImproves DEF UnboundedIsProven
<1>3. QED
  BY <1>1, <1>2, PresolveInvariant, PTL DEF VerdictIsProven
=============================================================================

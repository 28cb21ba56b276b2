-------------------------- MODULE NodeReasoningProofs --------------------------
(***************************************************************************)
(* Why row reasoning may be trusted, for every model, every horizon and    *)
(* every limit: a bound, a rounded right-hand side, a cut or a pruned node *)
(* never costs an integer point, along any path of either search.          *)
(***************************************************************************)
EXTENDS NodeReasoning, SumsProofs

(***************************************************************************)
(* Division.                                                               *)
(***************************************************************************)
LEMMA Division ==
  ASSUME NEW n \in Int, NEW d \in Int, d > 0
  PROVE  /\ n \div d \in Int
         /\ d * (n \div d) <= n /\ n < d * (n \div d) + d
         /\ n % d \in Int /\ n = d * (n \div d) + (n % d)
<1>1. n \div d \in Int
  OBVIOUS
<1>2. d * (n \div d) <= n
  OBVIOUS
<1>3. n < d * (n \div d) + d
  OBVIOUS
<1>4. n % d \in Int
  OBVIOUS
<1>5. n = d * (n \div d) + (n % d)
  OBVIOUS
<1>6. QED
  BY <1>1, <1>2, <1>3, <1>4, <1>5

LEMMA FloorOfQuotient ==
  ASSUME NEW n \in Int, NEW d \in Int, d > 0, NEW q \in Int, d * q <= n
  PROVE  n \div d \in Int /\ q <= n \div d
<1> DEFINE m == n \div d
<1>1. m \in Int /\ n < d * m + d
  BY Division
<1> HIDE DEF m
<1>2. ASSUME q > m
      PROVE  FALSE
  <2>1. PICK e \in Nat : q = m + 1 + e
    <3>1. q - m - 1 \in Nat /\ q = m + 1 + (q - m - 1)
      BY <1>1, <1>2
    <3>2. QED
      BY <3>1
  <2>2. d * q = d * m + d + d * e
    BY <2>1, <1>1
  <2>3. d * e >= 0
    OBVIOUS
  <2>4. QED
    BY <2>2, <2>3, <1>1
<1>3. QED
  BY <1>1, <1>2 DEF m

\* Whatever the sign of the divisor, a number below the quotient is below its
\* floor, and one above it above its ceiling.
LEMMA FloorDivSound ==
  ASSUME NEW n \in Int, NEW d \in Int, d # 0, NEW q \in Int,
         d > 0 => d * q <= n, d < 0 => d * q >= n
  PROVE  FloorDiv(n, d) \in Int /\ q <= FloorDiv(n, d)
<1>1. CASE d > 0
  BY <1>1, FloorOfQuotient DEF FloorDiv
<1>2. CASE d < 0
  <2>1. (-d) * q <= -n /\ -d > 0 /\ -d \in Int /\ -n \in Int
    BY <1>2
  <2>2. QED
    BY <2>1, <1>2, FloorOfQuotient DEF FloorDiv
<1>3. QED
  BY <1>1, <1>2

LEMMA FloorDivType ==
  ASSUME NEW n \in Int, NEW d \in Int, d # 0
  PROVE  FloorDiv(n, d) \in Int /\ CeilDiv(n, d) \in Int
BY DEF FloorDiv, CeilDiv

LEMMA CeilDivSound ==
  ASSUME NEW n \in Int, NEW d \in Int, d # 0, NEW q \in Int,
         d > 0 => d * q >= n, d < 0 => d * q <= n
  PROVE  CeilDiv(n, d) \in Int /\ CeilDiv(n, d) <= q
<1>1. -n \in Int /\ -q \in Int /\ d * (-q) = -(d * q)
  OBVIOUS
<1>2. FloorDiv(-n, d) \in Int /\ -q <= FloorDiv(-n, d)
  BY <1>1, FloorDivSound
<1>3. QED
  BY <1>2 DEF CeilDiv

\* A multiple of d is not above n unless it is not above n rounded down to d.
LEMMA MultipleBelow ==
  ASSUME NEW n \in Int, NEW d \in Int, d > 0, NEW q \in Int, d * q <= n
  PROVE  d * FloorDiv(n, d) \in Int /\ d * q <= d * FloorDiv(n, d)
<1> DEFINE m == FloorDiv(n, d)
<1>1. m \in Int /\ q <= m
  BY FloorDivSound
<1> HIDE DEF m
<1>2. m - q \in Nat /\ d * (m - q) >= 0 /\ d * (m - q) = d * m - d * q
  BY <1>1
<1>3. QED
  BY <1>1, <1>2 DEF m

LEMMA MultipleAbove ==
  ASSUME NEW n \in Int, NEW d \in Int, d > 0, NEW q \in Int, d * q >= n
  PROVE  d * CeilDiv(n, d) \in Int /\ d * CeilDiv(n, d) <= d * q
<1> DEFINE m == CeilDiv(n, d)
<1>1. m \in Int /\ m <= q
  BY CeilDivSound
<1> HIDE DEF m
<1>2. q - m \in Nat /\ d * (q - m) >= 0 /\ d * (q - m) = d * q - d * m
  BY <1>1
<1>3. QED
  BY <1>1, <1>2 DEF m

\* The same for whole numbers, counted in quarters.
LEMMA WholeBelow ==
  ASSUME NEW n \in Int, NEW q \in Int, 4 * q <= n
  PROVE  FloorDiv(n, 4) \in Int /\ 4 * q <= 4 * FloorDiv(n, 4)
BY DEF FloorDiv

LEMMA WholeAbove ==
  ASSUME NEW n \in Int, NEW q \in Int, 4 * q >= n
  PROVE  CeilDiv(n, 4) \in Int /\ 4 * CeilDiv(n, 4) <= 4 * q
BY DEF FloorDiv, CeilDiv

\* A term lies between its ends.
LEMMA StepsInOrder ==
  ASSUME NEW a \in Int, NEW al \in Int, NEW ap \in Int, NEW au \in Int,
         NEW s \in Int, NEW t \in Int, ap = al + s, au = ap + t,
         a >= 0 => s >= 0 /\ t >= 0, a <= 0 => s <= 0 /\ t <= 0
  PROVE  /\ a >= 0 => al <= ap /\ ap <= au
         /\ a <= 0 => au <= ap /\ ap <= al
OBVIOUS

LEMMA BetweenEnds ==
  ASSUME NEW e \in Int, NEW f \in Int
  PROVE  /\ Least(e, f) \in Int /\ Greatest(e, f) \in Int
         /\ Least(e, f) <= e /\ Least(e, f) <= f
         /\ Greatest(e, f) >= e /\ Greatest(e, f) >= f
BY DEF Least, Greatest

LEMMA TermBetween ==
  ASSUME NEW a \in Int, NEW l \in Int, NEW u \in Int, NEW p \in Int, l <= p, p <= u
  PROVE  /\ a * l \in Int /\ a * u \in Int /\ a * p \in Int
         /\ a >= 0 => a * l <= a * p /\ a * p <= a * u
         /\ a <= 0 => a * u <= a * p /\ a * p <= a * l
         /\ Least(a * l, a * u) <= a * p /\ a * p <= Greatest(a * l, a * u)
<1> DEFINE al == a * l
           ap == a * p
           au == a * u
           s == a * (p - l)
           t == a * (u - p)
<1>1. /\ al \in Int /\ ap \in Int /\ au \in Int /\ s \in Int /\ t \in Int
      /\ ap = al + s /\ au = ap + t
  OBVIOUS
<1>2. /\ a >= 0 => s >= 0 /\ t >= 0
      /\ a <= 0 => s <= 0 /\ t <= 0
  <2>1. p - l \in Nat /\ u - p \in Nat
    OBVIOUS
  <2>2. QED
    BY <2>1
<1> HIDE DEF al, ap, au, s, t
<1>3. /\ a >= 0 => al <= ap /\ ap <= au
      /\ a <= 0 => au <= ap /\ ap <= al
  BY <1>1, <1>2, StepsInOrder
<1>4. Least(al, au) <= ap /\ ap <= Greatest(al, au)
  <2>1. /\ Least(al, au) \in Int /\ Greatest(al, au) \in Int
        /\ Least(al, au) <= al /\ Least(al, au) <= au
        /\ Greatest(al, au) >= al /\ Greatest(al, au) >= au
    BY <1>1, BetweenEnds
  <2>2. QED
    BY <1>1, <1>3, <2>1
<1>5. QED
  BY <1>1, <1>3, <1>4 DEF al, ap, au

(***************************************************************************)
(* Sums and the integers up to a bound.                                    *)
(***************************************************************************)
\* Induction over 0 .. N, told of a set.
LEMMA UpwardInduction ==
  ASSUME NEW N \in Nat, NEW Good, 0 \in Good, \A k \in 1 .. N : k - 1 \in Good => k \in Good
  PROVE  \A k \in 0 .. N : k \in Good
<1> DEFINE Bad == {k \in 0 .. N : k \notin Good}
<1> SUFFICES ASSUME Bad # {}
             PROVE  FALSE
  OBVIOUS
<1>1. PICK k \in Bad : \A h \in Bad : k <= h
  <2>1. IsFiniteSet(Bad) /\ Bad \subseteq Int
    <3>1. IsFiniteSet(0 .. N) /\ Bad \in SUBSET (0 .. N)
      BY FS_Interval
    <3>2. QED
      BY <3>1, FS_Subset
  <2> HIDE DEF Bad
  <2>2. QED
    BY <2>1, FiniteExtremes
<1>2. k # 0 /\ k \in 1 .. N /\ k - 1 \in 0 .. N /\ ~(k <= k - 1)
  BY <1>1
<1>3. QED
  BY <1>1, <1>2

LEMMA SumDivisible ==
  ASSUME NEW S, IsFiniteSet(S), NEW d \in Int, NEW f,
         \A j \in S : \E m \in Int : f[j] = d * m
  PROVE  \E m \in Int : Sum(f, S) = d * m
<1> DEFINE g == [j \in S |-> CHOOSE m \in Int : f[j] = d * m]
<1>1. \A j \in S : g[j] \in Int /\ f[j] = d * g[j]
  OBVIOUS
<1> HIDE DEF g
<1>2. Sum(f, S) = d * Sum(g, S)
  BY <1>1, SumScaled
<1>3. Sum(g, S) \in Int
  BY <1>1, SumType
<1>4. QED
  BY <1>2, <1>3

LEMMA SumWhole ==
  ASSUME NEW S, IsFiniteSet(S), NEW f, \A j \in S : \E m \in Int : f[j] = 4 * m
  PROVE  \E m \in Int : Sum(f, S) = 4 * m
<1>1. PICK d \in Int : d = 4
  OBVIOUS
<1>2. \A j \in S : \E m \in Int : f[j] = d * m
  BY <1>1
<1>3. \E m \in Int : Sum(f, S) = d * m
  BY <1>2, SumDivisible
<1>4. QED
  BY <1>1, <1>3

LEMMA SumOfPart ==
  ASSUME NEW S, IsFiniteSet(S), NEW g, \A j \in S : g[j] \in Nat, NEW T \in SUBSET S
  PROVE  Sum(g, T) \in Nat /\ Sum(g, S) \in Nat /\ Sum(g, T) <= Sum(g, S)
<1>1. IsFiniteSet(T) /\ IsFiniteSet(S \ T) /\ \A j \in S : g[j] \in Int
  BY FS_Subset
<1>2. Sum(g, S) = Sum(g, T) + Sum(g, S \ T)
  BY <1>1, SumUnion
<1>3. Sum(g, T) \in Nat /\ Sum(g, S \ T) \in Nat /\ Sum(g, S) \in Nat
  BY <1>1, SumNonnegative
<1>4. QED
  BY <1>2, <1>3

\* A sum is no larger in magnitude than the sum of the magnitudes.
LEMMA SumWithin ==
  ASSUME NEW S, IsFiniteSet(S), NEW f, NEW g,
         \A j \in S : f[j] \in Int /\ g[j] \in Int /\ Abs(f[j]) <= g[j]
  PROVE  Sum(f, S) \in Int /\ Sum(g, S) \in Int /\ Abs(Sum(f, S)) <= Sum(g, S)
<1> DEFINE h == [j \in S |-> (-1) * g[j]]
<1>1. \A j \in S : h[j] \in Int /\ h[j] = (-1) * g[j] /\ h[j] <= f[j] /\ f[j] <= g[j]
  BY DEF Abs
<1> HIDE DEF h
<1>2. Sum(f, S) \in Int /\ Sum(g, S) \in Int /\ Sum(h, S) \in Int
  BY <1>1, SumType
<1>3. Sum(h, S) = (-1) * Sum(g, S)
  <2>1. -1 \in Int
    OBVIOUS
  <2>2. QED
    BY <1>1, <2>1, SumScaled
<1>4. Sum(h, S) <= Sum(f, S)
  BY <1>1, SumMonotone
<1>5. Sum(f, S) <= Sum(g, S)
  BY <1>1, SumMonotone
<1>6. QED
  BY <1>2, <1>3, <1>4, <1>5 DEF Abs

(***************************************************************************)
(* Rows, points and activities.                                            *)
(***************************************************************************)
LEMMA ColumnFacts ==
  /\ IsFiniteSet(Columns) /\ Columns # {} /\ Columns \subseteq Int
  /\ Cardinality(Columns) \in Nat /\ Columns = 1 .. Cardinality(Columns)
  /\ \A T \in SUBSET Columns : IsFiniteSet(T) /\ Cardinality(T) \in Nat
<1>1. IsFiniteSet(Columns) /\ Columns # {} /\ Columns = 1 .. Cardinality(Columns)
  BY IntegerRowsAssumption
<1>2. Cardinality(Columns) \in Nat
  BY <1>1, FS_CardinalityType
<1>3. ASSUME NEW T \in SUBSET Columns
      PROVE  IsFiniteSet(T) /\ Cardinality(T) \in Nat
  <2>1. IsFiniteSet(T)
    BY <1>1, FS_Subset
  <2>2. QED
    BY <2>1, FS_CardinalityType
<1>4. Columns \subseteq Int
  BY <1>1, <1>2
<1>5. QED
  BY <1>1, <1>2, <1>3, <1>4

LEMMA BoundFacts ==
  /\ Inf \in Nat \ {0} /\ Horizon \in Nat \ {0} /\ ExactLimit \in Nat \ {0}
  /\ MaxCuts \in Nat \ {0} /\ MaxRounds \in Nat \ {0} /\ Horizon < Inf /\ MaxDepth \in Nat
BY IntegerRowsAssumption

\* The caller's model.
LEMMA ProblemFacts ==
  ASSUME problem \in Problems
  PROVE  /\ problem.integer \subseteq Columns
         /\ problem.lower \in [Columns -> Int] /\ problem.upper \in [Columns -> Int]
         /\ Rows \in Seq(RowType) /\ Len(Rows) \in Nat /\ DOMAIN Rows = 1 .. Len(Rows)
         /\ \A i \in DOMAIN Rows : Rows[i] \in RowType
<1>1. /\ problem.integer \subseteq Columns
      /\ problem.lower \in [Columns -> Int] /\ problem.upper \in [Columns -> Int]
      /\ Rows \in Seq(RowType)
  BY ProblemsAssumption DEF Rows
<1>2. /\ Len(Rows) \in Nat /\ DOMAIN Rows = 1 .. Len(Rows)
      /\ \A i \in DOMAIN Rows : Rows[i] \in RowType
  BY <1>1
<1>3. QED
  BY <1>1, <1>2

LEMMA RowFacts ==
  ASSUME NEW r \in RowType
  PROVE  /\ r.a \in [Columns -> Int] /\ r.rhs \in Int /\ r.sLo \in Int /\ r.sHi \in Int
         /\ r.type \in {"L", "G", "E"}
         /\ Terms(r) \in SUBSET Columns /\ IsFiniteSet(Terms(r))
<1>1. /\ r.a \in [Columns -> Int] /\ r.rhs \in Int /\ r.sLo \in Int /\ r.sHi \in Int
      /\ r.type \in {"L", "G", "E"}
  BY DEF RowType
<1>2. Terms(r) \in SUBSET Columns
  BY DEF Terms
<1>3. QED
  BY <1>1, <1>2, ColumnFacts

\* The integer points told apart.
IntegerPoint(p) ==
    /\ p \in [Columns -> Int]
    /\ \A j \in Columns : -Inf < p[j] /\ p[j] < Inf
    /\ \A j \in problem.integer : p[j] % 2 = 0

LEMMA PointFacts ==
  ASSUME problem \in Problems, NEW p \in Points[problem]
  PROVE  /\ IntegerPoint(p) /\ InBox(p, problem.lower, problem.upper)
         /\ \A i \in DOMAIN Rows : Holds(Rows[i], p)
<1>1. /\ p \in Grid /\ InBox(p, problem.lower, problem.upper)
      /\ \A j \in problem.integer : p[j] % 2 = 0
      /\ \A i \in DOMAIN problem.rows : Holds(problem.rows[i], p)
  BY DEF Points
<1>2. p \in [Columns -> Int] /\ \A j \in Columns : -Inf < p[j] /\ p[j] < Inf
  BY <1>1, BoundFacts DEF Grid
<1>3. QED
  BY <1>1, <1>2 DEF IntegerPoint, Rows

\* The even coordinate of an integer column, in whole units.
LEMMA WholeUnits ==
  ASSUME problem \in Problems, NEW p, IntegerPoint(p), NEW j \in problem.integer
  PROVE  p[j] \div 2 \in Int /\ p[j] = 2 * (p[j] \div 2)
<1>1. p[j] \in Int /\ p[j] % 2 = 0
  BY ProblemFacts DEF IntegerPoint
<1>2. QED
  BY <1>1

Line(r, p) == [j \in Columns |-> r.a[j] * p[j]]

LEMMA ActivityFacts ==
  ASSUME NEW r \in RowType, NEW p \in [Columns -> Int]
  PROVE  /\ \A j \in Columns : Line(r, p)[j] \in Int /\ Line(r, p)[j] = r.a[j] * p[j]
         /\ Activity(r, p) = Sum(Line(r, p), Terms(r)) /\ Activity(r, p) \in Int
<1>1. \A j \in Columns : Line(r, p)[j] \in Int /\ Line(r, p)[j] = r.a[j] * p[j]
  BY RowFacts DEF Line
<1>2. Terms(r) \in SUBSET Columns /\ \A j \in Columns \ Terms(r) : Line(r, p)[j] = 0
  BY <1>1, RowFacts DEF Terms
<1>3. Activity(r, p) = Sum(Line(r, p), Columns)
  BY DEF Activity, Line
<1> HIDE DEF Line
<1>4. Sum(Line(r, p), Columns) = Sum(Line(r, p), Terms(r))
  BY <1>1, <1>2, ColumnFacts, SumSupport
<1>5. Sum(Line(r, p), Columns) \in Int
  BY <1>1, ColumnFacts, SumType
<1>6. QED
  BY <1>1, <1>3, <1>4, <1>5

\* An activity whose terms are multiples of d is a multiple of d.
LEMMA ActivityDivisible ==
  ASSUME NEW r \in RowType, NEW p \in [Columns -> Int], NEW d \in Int,
         \A j \in Terms(r) : \E m \in Int : r.a[j] * p[j] = d * m
  PROVE  \E m \in Int : Activity(r, p) = d * m
<1>1. \A j \in Terms(r) : \E m \in Int : Line(r, p)[j] = d * m
  BY RowFacts, ActivityFacts
<1>2. \E m \in Int : Sum(Line(r, p), Terms(r)) = d * m
  BY <1>1, RowFacts, SumDivisible
<1>3. QED
  BY <1>2, ActivityFacts

\* The sides the slack bounds leave, where they are finite.
LEMMA SideFacts ==
  ASSUME NEW r \in RowType
  PROVE  /\ RowLow(r) \in Int /\ RowHigh(r) \in Int
         /\ Finite(RowLow(r)) => Finite(r.sHi) /\ RowLow(r) = r.rhs - r.sHi
         /\ Finite(RowHigh(r)) => Finite(r.sLo) /\ RowHigh(r) = r.rhs - r.sLo
         /\ Finite(r.sHi) => RowLow(r) = r.rhs - r.sHi
         /\ Finite(r.sLo) => RowHigh(r) = r.rhs - r.sLo
<1>1. r.rhs \in Int /\ r.sLo \in Int /\ r.sHi \in Int /\ Inf \in Nat
  BY RowFacts, BoundFacts
<1>2. ~Finite(Inf) /\ ~Finite(-Inf)
  BY <1>1 DEF Finite, Abs
<1>3. QED
  BY <1>1, <1>2 DEF RowLow, RowHigh

(***************************************************************************)
(* Bounds from inequalities.                                               *)
(***************************************************************************)
LEMMA SignFacts ==
  ASSUME NEW r \in RowType, OneSided(r)
  PROVE  /\ Sign(r) \in {1, -1} /\ Sign(r) \in Int /\ Side(r) \in Int
         /\ r.type = "L" \/ r.type = "G"
         /\ r.type = "L" => Sign(r) = 1 /\ Side(r) = r.rhs - r.sLo /\ Endpoint(r) = r.sLo
         /\ r.type = "G" => Sign(r) = -1 /\ Side(r) = -(r.rhs - r.sHi) /\ Endpoint(r) = r.sHi
<1>1. r.rhs \in Int /\ r.sLo \in Int /\ r.sHi \in Int
  BY RowFacts
<1>2. CASE r.type = "L"
  BY <1>1, <1>2 DEF OneSided, Sign, Side, Endpoint
<1>3. CASE r.type = "G"
  BY <1>1, <1>3 DEF OneSided, Sign, Side, Endpoint
<1>4. QED
  BY <1>2, <1>3 DEF OneSided

\* The row read as c x <= b.
SignedLine(r, p) == [j \in Columns |-> Sign(r) * r.a[j] * p[j]]

LEMMA SignedRow ==
  ASSUME NEW r \in RowType, NEW p \in [Columns -> Int], OneSided(r), Finite(Endpoint(r)),
         Holds(r, p)
  PROVE  /\ \A j \in Columns : SignedLine(r, p)[j] \in Int
         /\ Sum(SignedLine(r, p), Terms(r)) = Sign(r) * Activity(r, p)
         /\ Sum(SignedLine(r, p), Terms(r)) <= Side(r)
<1>1. \A j \in Columns : /\ SignedLine(r, p)[j] = Sign(r) * Line(r, p)[j]
                         /\ Line(r, p)[j] \in Int /\ SignedLine(r, p)[j] \in Int
  <2>1. ASSUME NEW j \in Columns
        PROVE  /\ SignedLine(r, p)[j] = Sign(r) * Line(r, p)[j]
               /\ Line(r, p)[j] \in Int /\ SignedLine(r, p)[j] \in Int
    <3>1. r.a[j] \in Int /\ p[j] \in Int /\ Sign(r) \in {1, -1}
      BY RowFacts, SignFacts
    <3>2. Line(r, p)[j] = r.a[j] * p[j] /\ SignedLine(r, p)[j] = Sign(r) * r.a[j] * p[j]
      BY DEF Line, SignedLine
    <3>3. QED
      BY <3>1, <3>2
  <2>2. QED
    BY <2>1
<1> HIDE DEF Line, SignedLine
<1>2. Sum(SignedLine(r, p), Terms(r)) = Sign(r) * Sum(Line(r, p), Terms(r))
  <2>1. \A j \in Terms(r) : /\ Line(r, p)[j] \in Int
                            /\ SignedLine(r, p)[j] = Sign(r) * Line(r, p)[j]
    BY <1>1, RowFacts
  <2>2. QED
    BY <2>1, RowFacts, SignFacts, SumScaled
<1>3. Sum(SignedLine(r, p), Terms(r)) = Sign(r) * Activity(r, p) /\ Activity(r, p) \in Int
  BY <1>2, ActivityFacts
<1>4. Sign(r) * Activity(r, p) <= Side(r)
  <2>1. r.rhs \in Int /\ r.sLo \in Int /\ r.sHi \in Int
    BY RowFacts
  <2>2. CASE r.type = "L"
    <3>1. Activity(r, p) <= r.rhs - r.sLo
      BY <2>2, SignFacts, SideFacts DEF Holds
    <3>2. QED
      BY <3>1, <2>2, <1>3, SignFacts
  <2>3. CASE r.type = "G"
    <3>1. Activity(r, p) >= r.rhs - r.sHi
      BY <2>3, SignFacts, SideFacts DEF Holds
    <3>2. Sign(r) = -1 /\ Side(r) = -(r.rhs - r.sHi)
      BY <2>3, SignFacts
    <3>3. QED
      BY <3>1, <3>2, <2>1, <1>3
  <2>4. QED
    BY <2>2, <2>3, SignFacts
<1>5. QED
  BY <1>1, <1>3, <1>4

\* A point of the box, where the bounds have their types.
Within(p) == IntegerPoint(p) /\ InBox(p, lower, upper)
BoxTyped == lower \in [Columns -> Int] /\ upper \in [Columns -> Int]

LEMMA InequalitySound ==
  ASSUME problem \in Problems, BoxTyped, NEW r \in RowType, InequalityApplies(r),
         NEW p, Within(p), Holds(r, p), NEW j \in Terms(r)
  PROVE  /\ InequalityBounds(r, j).lo \in Int /\ InequalityBounds(r, j).lo <= p[j]
         /\ InequalityBounds(r, j).hi \in Int /\ p[j] <= InequalityBounds(r, j).hi
<1> DEFINE T == Terms(r)
           c == Sign(r) * r.a[j]
           low == [k \in Columns |-> MinTerm(r, k, lower, upper)]
           others == Sum(low, T \ {j})
           room == Side(r) - others
           whole == IF c > 0 THEN FloorDiv(room, 2 * c) ELSE CeilDiv(room, 2 * c)
           q == p[j] \div 2
<1>1. /\ p \in [Columns -> Int] /\ -Inf < p[j] /\ p[j] < Inf /\ j \in problem.integer
      /\ \A k \in Columns : lower[k] <= p[k] /\ p[k] <= upper[k]
      /\ OneSided(r) /\ Finite(Endpoint(r)) /\ j \in Columns /\ Inf \in Nat
  BY RowFacts, BoundFacts DEF Within, IntegerPoint, InBox, InequalityApplies
<1>2. q \in Int /\ p[j] = 2 * q
  BY <1>1, WholeUnits DEF Within
<1>3. /\ Sign(r) \in {1, -1} /\ Side(r) \in Int
      /\ \A k \in Columns : SignedLine(r, p)[k] \in Int
      /\ Sum(SignedLine(r, p), Terms(r)) <= Side(r)
  BY <1>1, SignFacts, SignedRow
<1>4. \A k \in Columns : low[k] \in Int /\ low[k] <= SignedLine(r, p)[k]
  <2>1. ASSUME NEW k \in Columns
        PROVE  low[k] \in Int /\ low[k] <= SignedLine(r, p)[k]
    <3> DEFINE d == Sign(r) * r.a[k]
    <3>1. d \in Int /\ lower[k] \in Int /\ upper[k] \in Int /\ p[k] \in Int
      BY <1>1, <1>3, RowFacts DEF BoxTyped
    <3>2. SignedLine(r, p)[k] = d * p[k] /\ low[k] = Least(d * lower[k], d * upper[k])
      BY DEF SignedLine, MinTerm
    <3> HIDE DEF d, low
    <3>3. /\ Least(d * lower[k], d * upper[k]) <= d * p[k]
          /\ d * lower[k] \in Int /\ d * upper[k] \in Int
      BY <1>1, <3>1, TermBetween
    <3>4. QED
      BY <3>2, <3>3, BetweenEnds
  <2>2. QED
    BY <2>1
<1>5. others \in Int /\ others <= Sum(SignedLine(r, p), T \ {j})
  <2>1. IsFiniteSet(T \ {j}) /\ T \ {j} \subseteq Columns
    BY RowFacts, FS_Subset
  <2> HIDE DEF low, T
  <2>2. others \in Int
    BY <1>4, <2>1, SumType
  <2>3. \A k \in T \ {j} : /\ low[k] \in Int /\ SignedLine(r, p)[k] \in Int
                           /\ low[k] <= SignedLine(r, p)[k]
    BY <1>3, <1>4, <2>1
  <2>4. others <= Sum(SignedLine(r, p), T \ {j})
    BY <2>1, <2>3, SumMonotone
  <2>5. QED
    BY <2>2, <2>4
<1>6. Sum(SignedLine(r, p), T) = c * p[j] + Sum(SignedLine(r, p), T \ {j})
  <2>1. SignedLine(r, p)[j] = c * p[j]
    BY <1>1 DEF SignedLine
  <2>2. \A k \in T : SignedLine(r, p)[k] \in Int
    BY <1>3, RowFacts
  <2>3. QED
    BY <2>1, <2>2, RowFacts, SumSplit
<1>7. Sum(SignedLine(r, p), T \ {j}) \in Int
  <2>1. IsFiniteSet(T \ {j}) /\ \A k \in T \ {j} : SignedLine(r, p)[k] \in Int
    BY <1>3, RowFacts, FS_Subset
  <2>2. QED
    BY <2>1, SumType
<1>8. c \in Int /\ c # 0 /\ room \in Int
  <2>1. r.a[j] \in Int /\ r.a[j] # 0
    BY <1>1, RowFacts DEF Terms
  <2>2. QED
    BY <2>1, <1>3, <1>5
<1>9. InequalityBounds(r, j) =
        [lo |-> IF c < 0 /\ Abs(whole) <= ExactLimit THEN 2 * whole ELSE -Inf,
         hi |-> IF c > 0 /\ Abs(whole) <= ExactLimit THEN 2 * whole ELSE Inf]
  BY DEF InequalityBounds
<1> HIDE DEF c, low, T
<1>10. c * p[j] <= room
  <2>1. c * p[j] \in Int
    BY <1>1, <1>8
  <2>2. QED
    BY <1>3, <1>5, <1>6, <1>7, <2>1 DEF T
<1> HIDE DEF others, room, q
<1>11. (2 * c) * q <= room /\ 2 * c \in Int /\ 2 * c # 0
  <2>1. c * (2 * q) = (2 * c) * q
    BY <1>2, <1>8
  <2>2. QED
    BY <1>2, <1>8, <1>10, <2>1
<1>12. /\ whole \in Int
       /\ c > 0 => q <= whole
       /\ c < 0 => whole <= q
  <2>1. CASE c > 0
    <3>1. 2 * c > 0 /\ ~(2 * c < 0)
      BY <2>1, <1>8
    <3>2. FloorDiv(room, 2 * c) \in Int /\ q <= FloorDiv(room, 2 * c)
      BY <1>2, <1>8, <1>11, <3>1, FloorDivSound
    <3>3. QED
      BY <2>1, <3>2, <1>8
  <2>2. CASE c < 0
    <3>1. 2 * c < 0 /\ ~(2 * c > 0)
      BY <2>2, <1>8
    <3>2. CeilDiv(room, 2 * c) \in Int /\ CeilDiv(room, 2 * c) <= q
      BY <1>2, <1>8, <1>11, <3>1, CeilDivSound
    <3>3. ~(c > 0)
      BY <2>2, <1>8
    <3>4. QED
      BY <2>2, <3>2, <3>3
  <2>3. QED
    BY <1>8, <2>1, <2>2
<1> HIDE DEF whole
<1>13. QED
  BY <1>1, <1>2, <1>8, <1>9, <1>12

(***************************************************************************)
(* Bounds from equalities, in doubles.                                     *)
(***************************************************************************)
LEMMA RoundedExact ==
  ASSUME NEW n \in Int, Abs(n) <= ExactLimit
  PROVE  Rounded(n) = n
BY DEF Rounded

\* A running sum whose terms are small altogether is never rounded.
LEMMA RoundedSumExact ==
  ASSUME NEW f, NEW g, \A j \in Columns : f[j] \in Int /\ g[j] \in Int /\ Abs(f[j]) <= g[j],
         Sum(g, Columns) <= ExactLimit
  PROVE  RoundedSum(f) = Sum(f, Columns)
<1> DEFINE N == Cardinality(Columns)
           D == {0} \cup Columns
           h == [k \in D |-> Sum(f, 1 .. k)]
           Runs(s) == s = [k \in D |-> IF k = 0 THEN 0 ELSE Rounded(s[k - 1] + Rounded(f[k]))]
           sum == CHOOSE s : Runs(s)
<1>1. /\ N \in Nat /\ Columns = 1 .. N /\ IsFiniteSet(Columns) /\ D = 0 .. N
      /\ ExactLimit \in Nat
  BY ColumnFacts, BoundFacts
<1>2. \A j \in Columns : g[j] \in Nat /\ g[j] \in Int
  BY DEF Abs
<1>3. ASSUME NEW T \in SUBSET Columns
      PROVE  Sum(f, T) \in Int /\ Abs(Sum(f, T)) <= ExactLimit
  <2>1. IsFiniteSet(T) /\ \A j \in T : f[j] \in Int /\ g[j] \in Int /\ Abs(f[j]) <= g[j]
    BY ColumnFacts
  <2>2. Sum(f, T) \in Int /\ Sum(g, T) \in Int /\ Abs(Sum(f, T)) <= Sum(g, T)
    BY <2>1, SumWithin
  <2>3. Sum(g, T) <= Sum(g, Columns) /\ Sum(g, Columns) \in Nat
    BY <1>1, <1>2, SumOfPart
  <2>4. Abs(Sum(f, T)) \in Int
    BY <2>2 DEF Abs
  <2>5. QED
    BY <1>1, <2>2, <2>3, <2>4
<1>4. ASSUME NEW k \in Columns
      PROVE  /\ Sum(f, 1 .. k) = Rounded(Sum(f, 1 .. (k - 1)) + Rounded(f[k]))
             /\ k - 1 \in D /\ k # 0
  <2>1. /\ k \in 1 .. N /\ k \in 1 .. k /\ (1 .. k) \ {k} = 1 .. (k - 1)
        /\ 1 .. k \in SUBSET Columns /\ {k} \in SUBSET Columns
        /\ k - 1 \in D /\ k # 0
    BY <1>1
  <2>2. IsFiniteSet(1 .. k) /\ \A j \in 1 .. k : f[j] \in Int
    BY <2>1, ColumnFacts
  <2>3. Sum(f, 1 .. k) = f[k] + Sum(f, 1 .. (k - 1))
    <3>1. k \in 1 .. k
      BY <2>1
    <3>2. Sum(f, 1 .. k) = f[k] + Sum(f, (1 .. k) \ {k})
      BY <2>2, <3>1, SumSplit
    <3>3. QED
      BY <2>1, <3>2
  <2>4. Sum(f, {k}) = f[k]
    <3>1. IsFiniteSet({k}) /\ {k} \ {k} = {} /\ \A j \in {k} : f[j] \in Int
      BY FS_Singleton
    <3>2. Sum(f, {k}) = f[k] + Sum(f, {})
      BY <3>1, SumSplit
    <3>3. QED
      BY <3>1, <3>2, SumEmpty
  <2>5. Rounded(f[k]) = f[k]
    BY <1>3, <2>1, <2>4, RoundedExact
  <2>6. Rounded(Sum(f, 1 .. k)) = Sum(f, 1 .. k)
    BY <1>3, <2>1, RoundedExact
  <2>7. 1 .. (k - 1) \in SUBSET Columns
    BY <2>1
  <2>8. Sum(f, 1 .. (k - 1)) \in Int /\ f[k] \in Int
    BY <1>3, <2>7
  <2>9. Sum(f, 1 .. (k - 1)) + Rounded(f[k]) = Sum(f, 1 .. k)
    BY <2>3, <2>5, <2>8
  <2>10. QED
    BY <2>1, <2>6, <2>9
<1>5. Sum(f, 1 .. 0) = 0
  <2>1. 1 .. 0 = {}
    OBVIOUS
  <2>2. QED
    BY <2>1, SumEmpty
<1>6. Runs(h)
  <2>1. \A k \in D : h[k] = IF k = 0 THEN 0 ELSE Rounded(h[k - 1] + Rounded(f[k]))
    <3>1. ASSUME NEW k \in D
          PROVE  h[k] = IF k = 0 THEN 0 ELSE Rounded(h[k - 1] + Rounded(f[k]))
      <4>1. CASE k = 0
        BY <4>1, <1>5
      <4>2. CASE k # 0
        <5>1. k \in Columns
          BY <4>2
        <5>2. h[k] = Sum(f, 1 .. k) /\ h[k - 1] = Sum(f, 1 .. (k - 1))
          BY <1>4, <5>1
        <5> HIDE DEF h
        <5>3. QED
          BY <4>2, <1>4, <5>1, <5>2
      <4>3. QED
        BY <4>1, <4>2
    <3>2. QED
      BY <3>1
  <2>2. h = [k \in D |-> h[k]]
    OBVIOUS
  <2> HIDE DEF h
  <2>3. QED
    BY <2>1, <2>2
<1>7. Runs(sum)
  <2> HIDE DEF Runs, h
  <2>1. QED
    BY <1>6
<1>8. \A k \in D : sum[k] = IF k = 0 THEN 0 ELSE Rounded(sum[k - 1] + Rounded(f[k]))
  <2> HIDE DEF sum
  <2>1. QED
    BY <1>7
<1>9. RoundedSum(f) = sum[N]
  BY DEF RoundedSum
<1> HIDE DEF sum
<1>10. \A k \in 0 .. N : k \in {i \in 0 .. N : sum[i] = Sum(f, 1 .. i)}
  <2> DEFINE Good == {i \in 0 .. N : sum[i] = Sum(f, 1 .. i)}
  <2>1. 0 \in Good
    BY <1>1, <1>5, <1>8
  <2>2. \A k \in 1 .. N : k - 1 \in Good => k \in Good
    BY <1>1, <1>4, <1>8
  <2> HIDE DEF Good
  <2>3. \A k \in 0 .. N : k \in Good
    BY <1>1, <2>1, <2>2, UpwardInduction
  <2>4. QED
    BY <2>3 DEF Good
<1>11. QED
  BY <1>1, <1>9, <1>10

\* The ends of every term, and the sizes the budget adds up.
LEMMA EndFacts ==
  ASSUME BoxTyped, NEW r \in RowType, NEW k \in Columns
  PROVE  /\ LeastEnd(r, k) \in Int /\ GreatestEnd(r, k) \in Int /\ Magnitude(r, k) \in Int
         /\ Abs(LeastEnd(r, k)) <= Magnitude(r, k) /\ Abs(GreatestEnd(r, k)) <= Magnitude(r, k)
         /\ k \notin Terms(r) =>
              LeastEnd(r, k) = 0 /\ GreatestEnd(r, k) = 0 /\ Magnitude(r, k) = 0
<1> DEFINE e == (r.a[k] \div 2) * (lower[k] \div 2)
           f == (r.a[k] \div 2) * (upper[k] \div 2)
<1>1. /\ r.a[k] \in Int /\ lower[k] \in Int /\ upper[k] \in Int
      /\ r.a[k] \div 2 \in Int /\ lower[k] \div 2 \in Int /\ upper[k] \div 2 \in Int
  BY RowFacts DEF BoxTyped
<1>2. e \in Int /\ f \in Int
  BY <1>1
<1>3. Ends(r, k)[1] = e /\ Ends(r, k)[2] = f
  BY DEF Ends
<1>4. k \notin Terms(r) => e = 0 /\ f = 0
  BY <1>1 DEF Terms
<1> HIDE DEF e, f
<1>5. /\ LeastEnd(r, k) = Least(e, f) /\ GreatestEnd(r, k) = Greatest(e, f)
      /\ Magnitude(r, k) = Greatest(Abs(e), Abs(f))
  BY <1>3 DEF LeastEnd, GreatestEnd, Magnitude
<1>6. /\ Least(e, f) \in Int /\ Greatest(e, f) \in Int /\ Greatest(Abs(e), Abs(f)) \in Int
      /\ Abs(Least(e, f)) <= Greatest(Abs(e), Abs(f))
      /\ Abs(Greatest(e, f)) <= Greatest(Abs(e), Abs(f))
  BY <1>2 DEF Least, Greatest, Abs
<1>7. e = 0 /\ f = 0 =>
        Least(e, f) = 0 /\ Greatest(e, f) = 0 /\ Greatest(Abs(e), Abs(f)) = 0
  BY DEF Least, Greatest, Abs
<1>8. QED
  BY <1>4, <1>5, <1>6, <1>7

\* The sum of the other terms' ends, as the double holds it, is what it should be.
LEMMA OthersExact ==
  ASSUME BoxTyped, NEW r \in RowType, WithinBudget(r), NEW j \in Terms(r),
         NEW f, NEW end \in Int, end = f[j],
         \A k \in Columns : /\ f[k] \in Int /\ Abs(f[k]) <= Magnitude(r, k)
                            /\ k \notin Terms(r) => f[k] = 0
  PROVE  /\ Rounded(RoundedSum(f) - end) = Sum(f, Terms(r) \ {j})
         /\ Sum(f, Terms(r) \ {j}) \in Int
<1> DEFINE T == Terms(r)
           mag == [k \in Columns |-> Magnitude(r, k)]
<1>1. /\ T \in SUBSET Columns /\ IsFiniteSet(T) /\ IsFiniteSet(T \ {j})
      /\ T \ {j} \in SUBSET Columns /\ j \in T /\ IsFiniteSet(Columns) /\ ExactLimit \in Nat
  BY RowFacts, ColumnFacts, BoundFacts, FS_Subset
<1>2. \A k \in Columns : /\ mag[k] \in Nat /\ mag[k] \in Int /\ mag[k] = Magnitude(r, k)
                         /\ Abs(f[k]) <= mag[k] /\ k \notin T => mag[k] = 0
  BY EndFacts DEF Abs
<1>3. Abs(r.rhs) \div 4 + Sum(mag, T) <= ExactLimit
  BY DEF WithinBudget
<1> HIDE DEF T, mag
<1>4. Sum(mag, Columns) = Sum(mag, T) /\ Sum(f, Columns) = Sum(f, T)
  BY <1>1, <1>2, SumSupport DEF T
<1>5. Sum(mag, T) \in Nat /\ Sum(mag, T \ {j}) \in Nat /\ Sum(mag, T \ {j}) <= Sum(mag, T)
  <2>1. \A k \in T : mag[k] \in Nat
    BY <1>1, <1>2
  <2>2. QED
    BY <1>1, <2>1, SumOfPart
<1>6. Sum(mag, T) <= ExactLimit
  <2>1. Abs(r.rhs) \div 4 \in Nat
    BY RowFacts DEF Abs
  <2>2. QED
    BY <1>1, <1>3, <1>5, <2>1
<1>7. RoundedSum(f) = Sum(f, T)
  <2>1. \A k \in Columns : f[k] \in Int /\ mag[k] \in Int /\ Abs(f[k]) <= mag[k]
    BY <1>2
  <2>2. RoundedSum(f) = Sum(f, Columns)
    BY <1>4, <1>6, <2>1, RoundedSumExact
  <2>3. QED
    BY <1>4, <2>2
<1>8. Sum(f, T) = end + Sum(f, T \ {j})
  BY <1>1, SumSplit
<1>9. Sum(f, T \ {j}) \in Int /\ Abs(Sum(f, T \ {j})) <= ExactLimit
  <2>1. \A k \in T \ {j} : f[k] \in Int /\ mag[k] \in Int /\ Abs(f[k]) <= mag[k]
    BY <1>1, <1>2
  <2>2. Sum(f, T \ {j}) \in Int /\ Abs(Sum(f, T \ {j})) <= Sum(mag, T \ {j})
    BY <1>1, <2>1, SumWithin
  <2>3. Abs(Sum(f, T \ {j})) \in Int
    BY <2>2 DEF Abs
  <2>4. QED
    BY <1>1, <1>5, <1>6, <2>2, <2>3
<1>10. RoundedSum(f) - end = Sum(f, T \ {j})
  BY <1>7, <1>8, <1>9
<1>11. QED
  BY <1>9, <1>10, RoundedExact DEF T

\* The row in whole units.
Units(r, p) == [k \in Columns |-> (r.a[k] \div 2) * (p[k] \div 2)]

LEMMA EquationInUnits ==
  ASSUME problem \in Problems, NEW r \in RowType, Equation(r), Lattice(r),
         NEW p, IntegerPoint(p), Holds(r, p)
  PROVE  /\ \A k \in Columns : Units(r, p)[k] \in Int
         /\ r.rhs = 4 * Sum(Units(r, p), Terms(r))
<1>1. /\ p \in [Columns -> Int] /\ Terms(r) \in SUBSET Columns /\ IsFiniteSet(Terms(r))
      /\ \A k \in Columns : r.a[k] \in Int
      /\ r.rhs \in Int /\ r.sLo = 0 /\ r.sHi = 0
  BY RowFacts DEF IntegerPoint, Equation
<1>2. \A k \in Columns : Units(r, p)[k] \in Int
  <2>1. ASSUME NEW k \in Columns
        PROVE  Units(r, p)[k] \in Int
    <3>1. r.a[k] \div 2 \in Int /\ p[k] \div 2 \in Int
      BY <1>1
    <3>2. QED
      BY <3>1 DEF Units
  <2>2. QED
    BY <2>1
<1>3. \A k \in Terms(r) : Line(r, p)[k] = 4 * Units(r, p)[k]
  <2>1. ASSUME NEW k \in Terms(r)
        PROVE  Line(r, p)[k] = 4 * Units(r, p)[k]
    <3>1. k \in problem.integer /\ r.a[k] % 2 = 0 /\ k \in Columns /\ r.a[k] \in Int
      BY <1>1 DEF Lattice, ExactInteger
    <3> DEFINE a == r.a[k] \div 2
               q == p[k] \div 2
    <3>2. a \in Int /\ r.a[k] = 2 * a
      BY <3>1
    <3>3. q \in Int /\ p[k] = 2 * q
      BY <3>1, WholeUnits
    <3>4. Line(r, p)[k] = r.a[k] * p[k] /\ Units(r, p)[k] = a * q
      BY <3>1 DEF Line, Units
    <3> HIDE DEF a, q
    <3>5. (2 * a) * (2 * q) = 4 * (a * q)
      BY <3>2, <3>3
    <3>6. QED
      BY <3>2, <3>3, <3>4, <3>5
  <2>2. QED
    BY <2>1
<1>4. Sum(Line(r, p), Terms(r)) = 4 * Sum(Units(r, p), Terms(r))
  <2>1. \A k \in Terms(r) : Units(r, p)[k] \in Int /\ Line(r, p)[k] = 4 * Units(r, p)[k]
    BY <1>1, <1>2, <1>3
  <2>2. 4 \in Int
    OBVIOUS
  <2>3. QED
    BY <1>1, <2>1, <2>2, SumScaled
<1>5. Activity(r, p) = r.rhs
  <2>1. Finite(0)
    BY BoundFacts DEF Finite, Abs
  <2>2. Activity(r, p) >= r.rhs /\ Activity(r, p) <= r.rhs
    BY <1>1, <2>1, SideFacts DEF Holds
  <2>3. Activity(r, p) \in Int
    BY <1>1, ActivityFacts
  <2>4. QED
    BY <1>1, <2>2, <2>3
<1>6. QED
  BY <1>1, <1>2, <1>4, <1>5, ActivityFacts

LEMMA EqualitySound ==
  ASSUME problem \in Problems, BoxTyped, NEW r \in RowType, EqualityApplies(r),
         NEW p, Within(p), Holds(r, p), NEW j \in Terms(r)
  PROVE  /\ EqualityBounds(r, j).lo \in Int /\ EqualityBounds(r, j).lo <= p[j]
         /\ EqualityBounds(r, j).hi \in Int /\ p[j] <= EqualityBounds(r, j).hi
<1> DEFINE T == Terms(r)
           unit == Units(r, p)
           least == [k \in Columns |-> LeastEnd(r, k)]
           most == [k \in Columns |-> GreatestEnd(r, k)]
           a == r.a[j] \div 2
           q == p[j] \div 2
           b == r.rhs \div 4
           fromMost == b - Rounded(RoundedSum(most) - GreatestEnd(r, j))
           fromLeast == b - Rounded(RoundedSum(least) - LeastEnd(r, j))
<1>1. /\ IntegerPoint(p) /\ \A k \in Columns : lower[k] <= p[k] /\ p[k] <= upper[k]
      /\ Equation(r) /\ Lattice(r) /\ WithinBudget(r) /\ r.rhs % 4 = 0
      /\ \A k \in T : lower[k] % 2 = 0 /\ upper[k] % 2 = 0
  BY DEF Within, InBox, EqualityApplies, ExactInteger
<1>2. /\ T \in SUBSET Columns /\ IsFiniteSet(T) /\ IsFiniteSet(T \ {j}) /\ j \in Columns
      /\ r.rhs \in Int /\ p \in [Columns -> Int] /\ \A k \in Columns : r.a[k] \in Int
  BY <1>1, RowFacts, FS_Subset DEF IntegerPoint
<1>3. /\ \A k \in Columns : unit[k] \in Int
      /\ r.rhs = 4 * Sum(unit, T)
  BY <1>1, EquationInUnits
<1>4. \A k \in T : /\ least[k] \in Int /\ most[k] \in Int
                   /\ least[k] <= unit[k] /\ unit[k] <= most[k]
  <2>1. ASSUME NEW k \in T
        PROVE  /\ least[k] \in Int /\ most[k] \in Int
               /\ least[k] <= unit[k] /\ unit[k] <= most[k]
    <3> DEFINE c == r.a[k] \div 2
               l == lower[k] \div 2
               u == upper[k] \div 2
               v == p[k] \div 2
    <3>1. k \in Columns /\ lower[k] \in Int /\ upper[k] \in Int /\ p[k] \in Int /\ r.a[k] \in Int
      BY <1>2 DEF BoxTyped
    <3>2. c \in Int /\ l \in Int /\ u \in Int /\ v \in Int
      BY <3>1
    <3>3. l <= v /\ v <= u
      BY <1>1, <3>1
    <3>4. /\ least[k] = Least(c * l, c * u) /\ most[k] = Greatest(c * l, c * u)
          /\ unit[k] = c * v
      BY <3>1 DEF LeastEnd, GreatestEnd, Ends, Units
    <3> HIDE DEF c, l, u, v, least, most, unit
    <3>5. /\ c * l \in Int /\ c * u \in Int
          /\ Least(c * l, c * u) <= c * v /\ c * v <= Greatest(c * l, c * u)
      BY <3>2, <3>3, TermBetween
    <3>6. QED
      BY <3>4, <3>5, BetweenEnds
  <2>2. QED
    BY <2>1
<1>5. /\ Rounded(RoundedSum(least) - LeastEnd(r, j)) = Sum(least, T \ {j})
      /\ Sum(least, T \ {j}) \in Int
  <2>1. /\ LeastEnd(r, j) \in Int /\ LeastEnd(r, j) = least[j]
        /\ \A k \in Columns : /\ least[k] \in Int /\ Abs(least[k]) <= Magnitude(r, k)
                              /\ k \notin T => least[k] = 0
    BY <1>2, EndFacts
  <2> HIDE DEF least
  <2>2. QED
    BY <1>1, <2>1, OthersExact
<1>6. /\ Rounded(RoundedSum(most) - GreatestEnd(r, j)) = Sum(most, T \ {j})
      /\ Sum(most, T \ {j}) \in Int
  <2>1. /\ GreatestEnd(r, j) \in Int /\ GreatestEnd(r, j) = most[j]
        /\ \A k \in Columns : /\ most[k] \in Int /\ Abs(most[k]) <= Magnitude(r, k)
                              /\ k \notin T => most[k] = 0
    BY <1>2, EndFacts
  <2> HIDE DEF most
  <2>2. QED
    BY <1>1, <2>1, OthersExact
<1>7. /\ Sum(unit, T \ {j}) \in Int
      /\ Sum(least, T \ {j}) <= Sum(unit, T \ {j})
      /\ Sum(unit, T \ {j}) <= Sum(most, T \ {j})
  <2>1. \A k \in T \ {j} : /\ least[k] \in Int /\ most[k] \in Int /\ unit[k] \in Int
                           /\ least[k] <= unit[k] /\ unit[k] <= most[k]
    BY <1>2, <1>3, <1>4
  <2> HIDE DEF least, most, unit, T
  <2>2. QED
    BY <1>2, <2>1, SumType, SumMonotone
<1>8. a \in Int /\ a # 0 /\ q \in Int /\ p[j] = 2 * q /\ unit[j] = a * q
  <2>1. j \in problem.integer /\ r.a[j] % 2 = 0 /\ r.a[j] # 0 /\ r.a[j] \in Int
    BY <1>1, <1>2 DEF Lattice, ExactInteger, Terms
  <2>2. q \in Int /\ p[j] = 2 * q
    BY <1>1, <2>1, WholeUnits
  <2>3. QED
    BY <1>2, <2>1, <2>2 DEF Units
<1>9. Sum(unit, T) = a * q + Sum(unit, T \ {j})
  <2>1. \A k \in T : unit[k] \in Int
    BY <1>2, <1>3
  <2> HIDE DEF unit, a, q
  <2>2. Sum(unit, T) = unit[j] + Sum(unit, T \ {j})
    BY <1>2, <2>1, SumSplit
  <2>3. QED
    BY <1>8, <2>2
<1>10. EqualityBounds(r, j) =
         IF a > 0
         THEN [lo |-> 2 * CeilDiv(fromMost, a), hi |-> 2 * FloorDiv(fromLeast, a)]
         ELSE [lo |-> 2 * CeilDiv(fromLeast, a), hi |-> 2 * FloorDiv(fromMost, a)]
  BY DEF EqualityBounds
<1> HIDE DEF unit, least, most, a, q, T
<1>11. /\ fromMost \in Int /\ fromLeast \in Int
       /\ fromMost <= a * q /\ a * q <= fromLeast
  <2>1. a * q \in Int
    BY <1>8
  <2>2. Sum(unit, T) \in Int /\ b = Sum(unit, T)
    <3>1. Sum(unit, T) \in Int
      BY <1>7, <1>9, <2>1
    <3>2. QED
      BY <1>3, <3>1
  <2> HIDE DEF b
  <2>3. QED
    BY <1>5, <1>6, <1>7, <1>9, <2>1, <2>2
<1> HIDE DEF fromMost, fromLeast
<1>12. CASE a > 0
  <2>1. ~(a < 0)
    BY <1>8, <1>12
  <2>2. CeilDiv(fromMost, a) \in Int /\ CeilDiv(fromMost, a) <= q
    BY <1>8, <1>11, <1>12, <2>1, CeilDivSound
  <2>3. FloorDiv(fromLeast, a) \in Int /\ q <= FloorDiv(fromLeast, a)
    BY <1>8, <1>11, <1>12, <2>1, FloorDivSound
  <2>4. QED
    BY <1>8, <1>10, <1>12, <2>2, <2>3
<1>13. CASE a < 0
  <2>1. ~(a > 0)
    BY <1>8, <1>13
  <2>2. CeilDiv(fromLeast, a) \in Int /\ CeilDiv(fromLeast, a) <= q
    BY <1>8, <1>11, <1>13, <2>1, CeilDivSound
  <2>3. FloorDiv(fromMost, a) \in Int /\ q <= FloorDiv(fromMost, a)
    BY <1>8, <1>11, <1>13, <2>1, FloorDivSound
  <2>4. QED
    BY <1>8, <1>10, <2>1, <2>2, <2>3
<1>14. QED
  BY <1>8, <1>12, <1>13

(***************************************************************************)
(* Lattices: the gcd of a row divides every activity of it.                *)
(***************************************************************************)
LEMMA GcdFacts ==
  ASSUME NEW r \in RowType, Lattice(r), Terms(r) # {}
  PROVE  /\ Gcd(r) \in Int /\ Gcd(r) > 0
         /\ \A j \in Terms(r) : (Abs(r.a[j]) \div 2) % Gcd(r) = 0
<1> DEFINE sizes == {Abs(r.a[j]) \div 2 : j \in Terms(r)}
           common == {d \in 1 .. Max(sizes) : \A s \in sizes : s % d = 0}
<1>1. \A j \in Terms(r) : Abs(r.a[j]) \div 2 \in Int /\ Abs(r.a[j]) \div 2 > 0
  <2>1. ASSUME NEW j \in Terms(r)
        PROVE  Abs(r.a[j]) \div 2 \in Int /\ Abs(r.a[j]) \div 2 > 0
    <3>1. r.a[j] \in Int /\ r.a[j] # 0 /\ r.a[j] % 2 = 0
      BY RowFacts DEF Lattice, ExactInteger, Terms
    <3>2. Abs(r.a[j]) \in Int /\ Abs(r.a[j]) >= 2
      BY <3>1 DEF Abs
    <3>3. QED
      BY <3>2
  <2>2. QED
    BY <2>1
<1>2. IsFiniteSet(sizes)
  <2>1. IsFiniteSet(Terms(r))
    BY RowFacts
  <2> DEFINE f == [j \in Terms(r) |-> Abs(r.a[j]) \div 2]
  <2>2. f \in Surjection(Terms(r), sizes)
    BY DEF Surjection
  <2>3. QED
    BY <2>1, <2>2, FS_Surjection
<1>3. sizes # {} /\ sizes \subseteq Int
  BY <1>1
<1>4. Max(sizes) \in Int /\ Max(sizes) >= 1
  <2> HIDE DEF sizes
  <2>1. \E m \in sizes : \A n \in sizes : m >= n
    BY <1>2, <1>3, FiniteExtremes
  <2>2. Max(sizes) \in sizes
    BY <2>1 DEF Max
  <2>3. \A s \in sizes : s \in Int /\ s > 0
    BY <1>1 DEF sizes
  <2>4. QED
    BY <2>2, <2>3
<1>5. 1 \in common
  <2>1. \A s \in sizes : s \in Int
    BY <1>1
  <2> HIDE DEF sizes
  <2>2. \A s \in sizes : s % 1 = 0
    BY <2>1
  <2>3. QED
    BY <1>4, <2>2
<1>6. Max(common) \in common
  <2>1. IsFiniteSet(1 .. Max(sizes))
    BY <1>4, FS_Interval
  <2>2. IsFiniteSet(common) /\ common # {} /\ common \subseteq Int
    <3>1. common \in SUBSET (1 .. Max(sizes))
      OBVIOUS
    <3>2. IsFiniteSet(common)
      BY <2>1, <3>1, FS_Subset
    <3>3. common \subseteq Int
      BY <1>4
    <3> HIDE DEF common
    <3>4. QED
      BY <1>5, <3>2, <3>3
  <2> HIDE DEF common
  <2>3. \E m \in common : \A n \in common : m >= n
    BY <2>2, FiniteExtremes
  <2>4. QED
    BY <2>3 DEF Max
<1>7. Gcd(r) = Max(common)
  BY DEF Gcd
<1>8. Gcd(r) \in Int /\ Gcd(r) > 0 /\ \A s \in sizes : s % Gcd(r) = 0
  <2> HIDE DEF sizes
  <2>1. Gcd(r) \in common
    BY <1>6, <1>7
  <2>2. QED
    BY <1>4, <2>1
<1>9. QED
  BY <1>8

LEMMA GcdDivides ==
  ASSUME problem \in Problems, NEW r \in RowType, Lattice(r), Terms(r) # {},
         NEW p, IntegerPoint(p)
  PROVE  /\ 4 * Gcd(r) \in Int /\ 4 * Gcd(r) > 0
         /\ \E m \in Int : Activity(r, p) = (4 * Gcd(r)) * m
<1> DEFINE g == Gcd(r)
<1>1. g \in Int /\ g > 0 /\ \A j \in Terms(r) : (Abs(r.a[j]) \div 2) % g = 0
  BY GcdFacts
<1> HIDE DEF g
<1>2. 4 * g \in Int /\ 4 * g > 0
  BY <1>1
<1>3. ASSUME NEW j \in Terms(r)
      PROVE  \E m \in Int : r.a[j] * p[j] = (4 * g) * m
  <2>1. r.a[j] \in Int /\ r.a[j] % 2 = 0 /\ j \in problem.integer
    BY RowFacts DEF Lattice, ExactInteger
  <2> DEFINE s == Abs(r.a[j]) \div 2
             k == s \div g
             q == p[j] \div 2
  <2>2. s \in Int /\ (r.a[j] = 2 * s \/ r.a[j] = -(2 * s))
    <3>1. Abs(r.a[j]) \in Int /\ Abs(r.a[j]) % 2 = 0
      BY <2>1 DEF Abs
    <3>2. s \in Int /\ Abs(r.a[j]) = 2 * s
      BY <3>1
    <3>3. QED
      BY <2>1, <3>2 DEF Abs
  <2>3. q \in Int /\ p[j] = 2 * q
    BY <2>1, WholeUnits
  <2>4. s % g = 0
    BY <1>1
  <2> HIDE DEF s, q
  <2>5. k \in Int /\ s = g * k
    <3>1. s \div g \in Int /\ s = g * (s \div g) + (s % g) /\ s % g \in Int
      BY <1>1, <2>2, Division
    <3>2. g * (s \div g) \in Int
      BY <1>1, <3>1
    <3>3. QED
      BY <2>4, <3>1, <3>2
  <2> HIDE DEF k
  <2>6. CASE r.a[j] = 2 * s
    <3>1. (2 * (g * k)) * (2 * q) = (4 * g) * (k * q) /\ k * q \in Int
      BY <1>1, <2>3, <2>5
    <3>2. r.a[j] * p[j] = (4 * g) * (k * q)
      BY <2>3, <2>5, <2>6, <3>1
    <3>3. QED
      BY <3>1, <3>2
  <2>7. CASE r.a[j] = -(2 * s)
    <3>1. (-(2 * (g * k))) * (2 * q) = (4 * g) * (-(k * q)) /\ -(k * q) \in Int
      BY <1>1, <2>3, <2>5
    <3>2. r.a[j] * p[j] = (4 * g) * (-(k * q))
      BY <2>3, <2>5, <2>7, <3>1
    <3>3. QED
      BY <3>1, <3>2
  <2>8. QED
    BY <2>2, <2>6, <2>7
<1>4. \E m \in Int : Activity(r, p) = (4 * g) * m
  <2>1. p \in [Columns -> Int]
    BY DEF IntegerPoint
  <2>2. QED
    BY <1>2, <1>3, <2>1, ActivityDivisible
<1>5. QED
  BY <1>2, <1>4 DEF g

\* A lattice row whose right-hand side is off the lattice has no integer point.
LEMMA GcdRefutesSound ==
  ASSUME problem \in Problems, NEW r \in RowType, GcdRefutes(r), NEW p, IntegerPoint(p)
  PROVE  ~Holds(r, p)
<1> SUFFICES ASSUME Holds(r, p)
             PROVE  FALSE
  OBVIOUS
<1> DEFINE d == 4 * Gcd(r)
<1>1. /\ Equation(r) /\ Lattice(r) /\ Terms(r) # {} /\ r.rhs % d # 0
      /\ r.rhs \in Int /\ r.sLo = 0 /\ r.sHi = 0
  BY RowFacts DEF GcdRefutes, Equation
<1>2. Activity(r, p) = r.rhs
  <2>1. Finite(0)
    BY BoundFacts DEF Finite, Abs
  <2>2. Activity(r, p) >= r.rhs /\ Activity(r, p) <= r.rhs
    BY <1>1, <2>1, SideFacts DEF Holds
  <2>3. Activity(r, p) \in Int
    BY ActivityFacts DEF IntegerPoint
  <2>4. QED
    BY <1>1, <2>2, <2>3
<1>3. d \in Int /\ d > 0 /\ \E m \in Int : r.rhs = d * m
  BY <1>1, <1>2, GcdDivides
<1> HIDE DEF d
<1>4. PICK m \in Int : r.rhs = d * m
  BY <1>3
<1>5. (d * m) % d = 0
  <2>1. d * ((d * m) \div d) <= d * m /\ (d * m) \div d \in Int /\ d * m \in Int
    BY <1>3, <1>4, Division
  <2>2. m <= (d * m) \div d
    BY <1>3, <2>1, FloorOfQuotient
  <2> DEFINE k == (d * m) \div d
             v == d * m
  <2>3. (d * m) = d * k + ((d * m) % d) /\ (d * m) % d \in Int
    BY <1>3, <2>1, Division
  <2>4. k \in Int /\ m <= k /\ d * k <= d * m
    BY <2>1, <2>2
  <2> HIDE DEF k
  <2>5. /\ k - m \in Nat /\ d * (k - m) >= 0 /\ d * (k - m) = d * k - d * m
        /\ d * k \in Int /\ d * m \in Int
    BY <1>3, <2>4
  <2>6. d * k = d * m
    BY <2>4, <2>5
  <2>7. QED
    BY <2>1, <2>3, <2>6
<1>6. QED
  BY <1>1, <1>4, <1>5

\* Rounding a right-hand side to the lattice keeps every integer point.
LEMMA RoundedRhsSound ==
  ASSUME problem \in Problems, NEW i \in DOMAIN Rows, RoundsRhs(i), rhs[i] \in Int,
         NEW p, IntegerPoint(p), Holds(Held(i), p)
  PROVE  /\ RoundedRhs(i) \in Int
         /\ Holds([Rows[i] EXCEPT !.rhs = RoundedRhs(i)], p)
<1> DEFINE r == Rows[i]
           s == [r EXCEPT !.rhs = RoundedRhs(i)]
           h == Held(i)
           d == 4 * Gcd(r)
<1>1. /\ r \in RowType /\ OneSided(r) /\ Endpoint(r) = 0 /\ Terms(r) # {} /\ Lattice(r)
      /\ r.type = "L" \/ r.type = "G"
      /\ p \in [Columns -> Int]
  BY ProblemFacts DEF RoundsRhs, OneSided, IntegerPoint
<1>2. /\ h.a = r.a /\ h.sLo = r.sLo /\ h.sHi = r.sHi /\ h.rhs = rhs[i]
      /\ s.a = r.a /\ s.sLo = r.sLo /\ s.sHi = r.sHi /\ s.rhs = RoundedRhs(i)
      /\ h \in RowType
  BY <1>1 DEF Held, RowType
<1>3. Activity(h, p) = Activity(r, p) /\ Activity(s, p) = Activity(r, p)
  BY <1>2 DEF Activity
<1>4. d \in Int /\ d > 0 /\ Activity(r, p) \in Int /\ \E m \in Int : Activity(r, p) = d * m
  BY <1>1, GcdDivides, ActivityFacts
<1>5. PICK m \in Int : Activity(r, p) = d * m
  BY <1>4
<1>6. Finite(0) /\ ~Finite(Inf) /\ ~Finite(-Inf) /\ Inf \in Nat
  BY BoundFacts DEF Finite, Abs
<1>7. /\ RoundedRhs(i) = IF r.type = "L" THEN d * FloorDiv(rhs[i], d)
                                        ELSE d * CeilDiv(rhs[i], d)
      /\ FloorDiv(rhs[i], d) \in Int /\ CeilDiv(rhs[i], d) \in Int
  <2>1. d # 0
    BY <1>4
  <2>2. FloorDiv(rhs[i], d) \in Int /\ CeilDiv(rhs[i], d) \in Int
    BY <1>4, <2>1, FloorDivType
  <2>3. QED
    BY <2>2 DEF RoundedRhs
<1> HIDE DEF d, s, h, r
<1>8. RoundedRhs(i) \in Int
  BY <1>4, <1>7
<1>9. CASE r.type = "L"
  <2>1. ~Finite(r.sHi) /\ r.sLo = 0
    BY <1>1, <1>9 DEF OneSided, Endpoint
  <2>2. Activity(h, p) <= rhs[i]
    BY <1>2, <1>6, <2>1 DEF Holds, RowHigh, h
  <2>3. d * m <= d * FloorDiv(rhs[i], d)
    BY <1>3, <1>4, <1>5, <2>2, MultipleBelow
  <2>4. Activity(s, p) <= s.rhs - s.sLo
    BY <1>2, <1>3, <1>5, <1>7, <1>8, <1>9, <2>1, <2>3
  <2>5. ~Finite(s.sHi) /\ Finite(s.sLo) /\ RowHigh(s) = s.rhs - s.sLo
    BY <1>2, <1>6, <2>1 DEF RowHigh
  <2>6. Holds(s, p)
    BY <2>4, <2>5 DEF Holds
  <2>7. QED
    BY <1>8, <2>6 DEF s, r
<1>10. CASE r.type = "G"
  <2>1. ~Finite(r.sLo) /\ r.sHi = 0 /\ r.type # "L"
    BY <1>1, <1>10 DEF OneSided, Endpoint
  <2>2. Activity(h, p) >= rhs[i]
    BY <1>2, <1>6, <2>1 DEF Holds, RowLow, h
  <2>3. d * CeilDiv(rhs[i], d) <= d * m
    BY <1>3, <1>4, <1>5, <2>2, MultipleAbove
  <2>4. Activity(s, p) >= s.rhs - s.sHi
    BY <1>2, <1>3, <1>4, <1>5, <1>7, <1>8, <2>1, <2>3
  <2>5. ~Finite(s.sLo) /\ Finite(s.sHi) /\ RowLow(s) = s.rhs - s.sHi
    BY <1>2, <1>6, <2>1 DEF RowLow
  <2>6. Holds(s, p)
    BY <2>4, <2>5 DEF Holds
  <2>7. QED
    BY <1>8, <2>6 DEF s, r
<1>11. QED
  BY <1>1, <1>9, <1>10 DEF r

(***************************************************************************)
(* Cuts.                                                                   *)
(***************************************************************************)
LEMMA CutHolds ==
  ASSUME NEW from, NEW a, NEW b \in Int, NEW type \in {"L", "G"}, NEW p,
         Activity(Cut(from, a, type, b).row, p) \in Int,
         type = "L" => Activity(Cut(from, a, type, b).row, p) <= b,
         type = "G" => Activity(Cut(from, a, type, b).row, p) >= b
  PROVE  Holds(Cut(from, a, type, b).row, p)
<1>1. Inf \in Nat /\ Inf > 0 /\ Finite(0) /\ ~Finite(Inf) /\ ~Finite(-Inf)
  BY BoundFacts DEF Finite, Abs
<1> DEFINE row == Cut(from, a, type, b).row
<1>2. /\ row.rhs = b
      /\ row.sLo = IF type = "L" THEN 0 ELSE -Inf
      /\ row.sHi = IF type = "L" THEN Inf ELSE 0
  BY DEF Cut
<1> HIDE DEF row
<1>3. CASE type = "L"
  <2>1. ~Finite(row.sHi) /\ Finite(row.sLo) /\ RowHigh(row) = b - 0
    BY <1>1, <1>2, <1>3 DEF RowHigh
  <2>2. QED
    BY <1>3, <2>1 DEF Holds, row
<1>4. CASE type = "G"
  <2>1. ~Finite(row.sLo) /\ Finite(row.sHi) /\ RowLow(row) = b - 0
    BY <1>1, <1>2, <1>4 DEF RowLow
  <2>2. QED
    BY <1>4, <2>1 DEF Holds, row
<1>5. QED
  BY <1>3, <1>4

\* A cover cut holds of a point of binaries that does not take the whole cover.
LEMMA CoverCutHolds ==
  ASSUME NEW C \in SUBSET Columns, NEW p \in [Columns -> Int],
         \A j \in C : p[j] \in {0, 2}, NEW out \in C, p[out] = 0
  PROVE  Holds(CoverCut(C).row, p)
<1> DEFINE a == [j \in Columns |-> IF j \in C THEN 2 ELSE 0]
           f == [j \in Columns |-> a[j] * p[j]]
           four == [j \in Columns |-> 4]
           b == 4 * (Cardinality(C) - 1)
<1>1. /\ IsFiniteSet(C) /\ IsFiniteSet(Columns) /\ IsFiniteSet(C \ {out})
      /\ Cardinality(C) \in Nat /\ Cardinality(C \ {out}) = Cardinality(C) - 1
  BY ColumnFacts, FS_Subset, FS_RemoveElement
<1>2. /\ \A j \in Columns : f[j] \in Int /\ four[j] \in Int
      /\ \A j \in Columns \ C : f[j] = 0
      /\ \A j \in C : f[j] <= four[j] /\ four[j] = 4
      /\ f[out] = 0
  OBVIOUS
<1>3. CoverCut(C) = Cut("cover", a, "L", b)
  BY DEF CoverCut
<1>4. Activity(CoverCut(C).row, p) = Sum(f, Columns)
  BY DEF CoverCut, Cut, Activity
<1> HIDE DEF f, four, a
<1>5. Sum(f, Columns) = Sum(f, C)
  BY <1>1, <1>2, SumSupport
<1>6. Sum(f, C) = f[out] + Sum(f, C \ {out})
  <2>1. \A j \in C : f[j] \in Int
    BY <1>2
  <2>2. QED
    BY <1>1, <2>1, SumSplit
<1>7. Sum(f, C \ {out}) \in Int /\ Sum(f, C \ {out}) <= Sum(four, C \ {out})
  <2>1. \A j \in C \ {out} : f[j] \in Int /\ four[j] \in Int /\ f[j] <= four[j]
    BY <1>2
  <2>2. QED
    BY <1>1, <2>1, SumMonotone, SumType
<1>8. Sum(four, C \ {out}) = 4 * Cardinality(C \ {out})
  <2>1. \A j \in C \ {out} : four[j] = 4
    BY <1>2
  <2>2. 4 \in Int
    OBVIOUS
  <2>3. QED
    BY <1>1, <2>1, <2>2, SumConstant
<1>9. Activity(CoverCut(C).row, p) \in Int /\ Activity(CoverCut(C).row, p) <= b /\ b \in Int
  BY <1>1, <1>2, <1>4, <1>5, <1>6, <1>7, <1>8
<1> HIDE DEF b
<1>10. QED
  BY <1>3, <1>9, CutHolds

\* When every member of C is at one, the row carries at least the weight of C.
LEMMA FullCoverWeighs ==
  ASSUME NEW r \in RowType, NEW p \in [Columns -> Int], NEW K \in SUBSET Columns,
         NEW C \in SUBSET K, \A j \in K : r.a[j] > 0 /\ p[j] >= 0,
         \A j \in C : p[j] = 2
  PROVE  /\ Weight(r, C) \in Int /\ Sum(Line(r, p), K) \in Int
         /\ Weight(r, C) <= Sum(Line(r, p), K)
<1> DEFINE w == [j \in Columns |-> 2 * r.a[j]]
<1>1. IsFiniteSet(K) /\ IsFiniteSet(C) /\ C \in SUBSET Columns
  BY ColumnFacts
<1>2. \A j \in K : /\ Line(r, p)[j] \in Nat /\ Line(r, p)[j] = r.a[j] * p[j]
  <2>1. ASSUME NEW j \in K
        PROVE  Line(r, p)[j] \in Nat /\ Line(r, p)[j] = r.a[j] * p[j]
    <3>1. r.a[j] \in Nat /\ p[j] \in Nat /\ Line(r, p)[j] = r.a[j] * p[j]
      BY RowFacts, ActivityFacts
    <3>2. QED
      BY <3>1
  <2>2. QED
    BY <2>1
<1>3. \A j \in C : w[j] \in Int /\ w[j] = Line(r, p)[j]
  <2>1. ASSUME NEW j \in C
        PROVE  w[j] \in Int /\ w[j] = Line(r, p)[j]
    <3>1. r.a[j] \in Int /\ p[j] = 2 /\ w[j] = 2 * r.a[j] /\ Line(r, p)[j] = r.a[j] * p[j]
      BY <1>1, <1>2, RowFacts
    <3>2. QED
      BY <3>1
  <2>2. QED
    BY <2>1
<1>4. Weight(r, C) = Sum(w, C)
  BY DEF Weight
<1> HIDE DEF w
<1>5. Sum(w, C) = Sum(Line(r, p), C)
  BY <1>1, <1>3, SumEqual
<1>6. Sum(Line(r, p), C) \in Nat /\ Sum(Line(r, p), K) \in Nat
      /\ Sum(Line(r, p), C) <= Sum(Line(r, p), K)
  BY <1>1, <1>2, SumOfPart
<1>7. QED
  BY <1>4, <1>5, <1>6

\* The members of a cover solve_milp finds are binaries at zero or one.
LEMMA BinaryValues ==
  ASSUME problem \in Problems, NEW p, IntegerPoint(p), NEW j \in Columns, j \in problem.integer,
         NEW l \in Int, NEW u \in Int, l >= 0, u <= 2, l <= p[j], p[j] <= u
  PROVE  p[j] \in {0, 2} /\ p[j] >= 0
<1>1. p[j] \in Int /\ p[j] % 2 = 0
  BY DEF IntegerPoint
<1>2. p[j] = 0 \/ p[j] = 1 \/ p[j] = 2
  BY <1>1
<1>3. QED
  BY <1>1, <1>2

LEMMA CoverValid ==
  ASSUME problem \in Problems, NEW i \in DOMAIN Rows, NEW p \in Points[problem],
         NEW C \in SUBSET CoverTerms(Rows[i]), C # {}, Finite(RowHigh(Rows[i])),
         Weight(Rows[i], C) > EffectiveUpper(Rows[i])
  PROVE  Holds(CoverCut(C).row, p)
<1> DEFINE r == Rows[i]
           T == Terms(r)
           K == CoverTerms(r)
           least == [j \in Columns |-> LeastTerm(r, j)]
           line == Line(r, p)
<1>1. /\ r \in RowType /\ IntegerPoint(p) /\ Holds(r, p) /\ p \in [Columns -> Int]
      /\ \A j \in Columns : problem.lower[j] <= p[j] /\ p[j] <= problem.upper[j]
  BY ProblemFacts, PointFacts DEF InBox, IntegerPoint
<1> HIDE DEF r
<1>2. /\ T \in SUBSET Columns /\ IsFiniteSet(T) /\ K \in SUBSET T /\ K \in SUBSET Columns
      /\ IsFiniteSet(T \ K) /\ C \in SUBSET Columns
  BY <1>1, RowFacts, FS_Subset DEF CoverTerms, r
<1>3. \A j \in K : r.a[j] > 0 /\ p[j] \in {0, 2} /\ p[j] >= 0
  <2>1. ASSUME NEW j \in K
        PROVE  r.a[j] > 0 /\ p[j] \in {0, 2} /\ p[j] >= 0
    <3>1. /\ r.a[j] > 0 /\ j \in problem.integer /\ j \in Columns
          /\ problem.lower[j] >= 0 /\ problem.upper[j] <= 2
          /\ problem.lower[j] \in Int /\ problem.upper[j] \in Int
      BY <1>2, ProblemFacts DEF CoverTerms, BinaryDomain
    <3>2. QED
      BY <1>1, <3>1, BinaryValues
  <2>2. QED
    BY <2>1
<1>4. SUFFICES ASSUME \A j \in C : p[j] = 2
               PROVE  FALSE
  <2>1. CASE \A j \in C : p[j] = 2
    BY <1>4, <2>1
  <2>2. CASE \E j \in C : p[j] # 2
    <3>1. PICK out \in C : p[out] # 2
      BY <2>2
    <3>2. p[out] = 0 /\ \A j \in C : p[j] \in {0, 2}
      BY <1>3, <3>1 DEF r
    <3>3. QED
      BY <1>1, <1>2, <3>2, CoverCutHolds
  <2>3. QED
    BY <2>1, <2>2
<1>5. \A j \in Columns : line[j] \in Int /\ line[j] = r.a[j] * p[j]
  BY <1>1, ActivityFacts
<1>6. \A j \in T \ K : least[j] \in Int /\ least[j] <= line[j]
  <2>1. ASSUME NEW j \in T \ K
        PROVE  least[j] \in Int /\ least[j] <= line[j]
    <3> DEFINE a == r.a[j]
               l == problem.lower[j]
               u == problem.upper[j]
    <3>1. /\ a \in Int /\ a # 0 /\ l \in Int /\ u \in Int /\ p[j] \in Int
          /\ l <= p[j] /\ p[j] <= u
          /\ line[j] = a * p[j]
          /\ least[j] = IF a > 0 THEN a * l ELSE a * u
      BY <1>1, <1>2, <1>5, RowFacts, ProblemFacts DEF LeastTerm, Terms
    <3> HIDE DEF a, l, u, least, line
    <3>2. /\ a * l \in Int /\ a * u \in Int /\ a * p[j] \in Int
          /\ a >= 0 => a * l <= a * p[j]
          /\ a <= 0 => a * u <= a * p[j]
      BY <3>1, TermBetween
    <3>3. CASE a > 0
      BY <3>1, <3>2, <3>3
    <3>4. CASE ~(a > 0)
      BY <3>1, <3>2, <3>4
    <3>5. QED
      BY <3>3, <3>4
  <2>2. QED
    BY <2>1
<1>7. EffectiveUpper(r) = RowHigh(r) - Sum(least, T \ K)
  BY DEF EffectiveUpper
<1>8. C \in SUBSET K
  BY DEF r
<1> HIDE DEF least, line, T, K
<1>9. Sum(least, T \ K) \in Int /\ Sum(line, T \ K) \in Int /\ Sum(least, T \ K) <= Sum(line, T \ K)
  <2>1. \A j \in T \ K : least[j] \in Int /\ line[j] \in Int /\ least[j] <= line[j]
    BY <1>2, <1>5, <1>6
  <2>2. QED
    BY <1>2, <2>1, SumMonotone, SumType
<1>10. Sum(line, T) = Sum(line, K) + Sum(line, T \ K)
  <2>1. \A j \in T : line[j] \in Int
    BY <1>2, <1>5
  <2>2. QED
    BY <1>2, <2>1, SumUnion
<1>11. /\ Weight(r, C) \in Int /\ Sum(line, K) \in Int
       /\ Weight(r, C) <= Sum(line, K)
  BY <1>1, <1>2, <1>3, <1>4, <1>8, FullCoverWeighs DEF line
<1>12. Activity(r, p) = Sum(line, T)
  BY <1>1, ActivityFacts DEF line, T
<1>13. Activity(r, p) <= RowHigh(r) /\ RowHigh(r) \in Int
  BY <1>1, SideFacts DEF Holds, r
<1>14. Weight(r, C) > RowHigh(r) - Sum(least, T \ K)
  BY <1>7 DEF r
<1>15. QED
  BY <1>9, <1>10, <1>11, <1>12, <1>13, <1>14

\* Every set of columns has a first one in the order of a key.
LEMMA FirstByKey ==
  ASSUME NEW key, \A j \in Columns : key[j] \in Int, NEW S \in SUBSET Columns, S # {}
  PROVE  \E j \in S : \A i \in S : ~Before(key, i, j)
<1> DEFINE values == {key[j] : j \in S}
<1>1. IsFiniteSet(S) /\ S \subseteq Int
  BY ColumnFacts
<1>2. IsFiniteSet(values)
  <2> DEFINE f == [j \in S |-> key[j]]
  <2>1. f \in Surjection(S, values)
    BY DEF Surjection
  <2>2. QED
    BY <1>1, <2>1, FS_Surjection
<1>3. values # {} /\ values \subseteq Int
  OBVIOUS
<1>4. PICK v \in values : \A w \in values : v <= w
  <2> HIDE DEF values
  <2>1. QED
    BY <1>2, <1>3, FiniteExtremes
<1> DEFINE ties == {j \in S : key[j] = v}
<1>5. ties # {} /\ IsFiniteSet(ties) /\ ties \subseteq Int
  <2>1. ties # {} /\ ties \in SUBSET S
    OBVIOUS
  <2>2. QED
    BY <1>1, <2>1, FS_Subset
<1>6. PICK j \in ties : \A i \in ties : j <= i
  <2> HIDE DEF ties
  <2>1. QED
    BY <1>5, FiniteExtremes
<1>7. \A i \in S : ~Before(key, i, j)
  <2>1. ASSUME NEW i \in S, Before(key, i, j)
        PROVE  FALSE
    <3>1. key[i] \in Int /\ v \in Int /\ key[j] = v /\ v <= key[i] /\ i \in Int /\ j \in Int
      BY <1>1, <1>3, <1>4
    <3>2. key[i] = v /\ i < j
      BY <2>1, <3>1 DEF Before
    <3>3. QED
      BY <1>6, <3>1, <3>2
  <2>2. QED
    BY <2>1
<1>8. QED
  BY <1>7

\* What the greedy choice gives weighs enough, if it gives anything.
IsCover(r, C, b) == C = {} \/ Weight(r, C) > b

LEMMA GreedyCovers ==
  ASSUME NEW r, NEW K \in SUBSET Columns, NEW key, \A j \in Columns : key[j] \in Int, NEW b
  PROVE  Greedy(r, K, key, b) \in SUBSET K /\ IsCover(r, Greedy(r, K, key, b), b)
<1> DEFINE over == {j \in K : Weight(r, UpTo(K, key, j)) > b}
           first == CHOOSE j \in over : \A i \in over : ~Before(key, i, j)
<1>1. CASE over = {}
  BY <1>1 DEF Greedy, IsCover
<1>2. CASE over # {}
  <2>1. over \in SUBSET Columns
    OBVIOUS
  <2>2. first \in over
    <3> HIDE DEF over
    <3>1. \E j \in over : \A i \in over : ~Before(key, i, j)
      BY <1>2, <2>1, FirstByKey
    <3>2. QED
      BY <3>1
  <2>3. Greedy(r, K, key, b) = UpTo(K, key, first)
    BY <1>2 DEF Greedy
  <2> HIDE DEF first
  <2>4. QED
    BY <2>2, <2>3 DEF UpTo, IsCover
<1>3. QED
  BY <1>1, <1>2

\* A sequence of steps over values of one set can be taken.
StepsIn(V, step, N) == \A n \in 1 .. N : \A v \in V : step[n][v] \in V
Steps(f, V, init, step, N) ==
    /\ f \in [0 .. N -> V] /\ f[0] = init
    /\ \A n \in 1 .. N : f[n] = step[n][f[n - 1]]

LEMMA RecursionExists ==
  ASSUME NEW N \in Nat, NEW V, NEW init \in V, NEW step, StepsIn(V, step, N)
  PROVE  \E f : Steps(f, V, init, step, N)
<1> DEFINE Taken(f, m) == f[0] = init /\ \A n \in 1 .. m : f[n] = step[n][f[n - 1]]
           Good == {m \in 0 .. N : \E f \in [0 .. m -> V] : Taken(f, m)}
<1>1. 0 \in Good
  <2> DEFINE f == [n \in 0 .. 0 |-> init]
  <2>1. f \in [0 .. 0 -> V] /\ Taken(f, 0)
    OBVIOUS
  <2>2. 0 \in 0 .. N
    OBVIOUS
  <2> HIDE DEF f
  <2>3. \E h \in [0 .. 0 -> V] : Taken(h, 0)
    BY <2>1
  <2> HIDE DEF Taken
  <2>4. QED
    BY <2>2, <2>3
<1>2. ASSUME NEW k \in 1 .. N, k - 1 \in Good
      PROVE  k \in Good
  <2>1. PICK f \in [0 .. (k - 1) -> V] : Taken(f, k - 1)
    BY <1>2
  <2>2. f[k - 1] \in V /\ step[k][f[k - 1]] \in V /\ k \in Nat
    BY DEF StepsIn
  <2> DEFINE g == [n \in 0 .. k |-> IF n = k THEN step[k][f[k - 1]] ELSE f[n]]
  <2>3. g \in [0 .. k -> V]
    <3>1. \A n \in 0 .. k : n # k => n \in 0 .. (k - 1)
      OBVIOUS
    <3>2. \A n \in 0 .. k : g[n] \in V
      BY <2>2, <3>1
    <3>3. QED
      BY <3>2
  <2>4. Taken(g, k)
    <3>1. g[0] = init
      BY <2>1, <2>2
    <3>2. ASSUME NEW n \in 1 .. k
          PROVE  g[n] = step[n][g[n - 1]]
      <4>1. n - 1 \in 0 .. k /\ n - 1 # k
        OBVIOUS
      <4>2. g[n - 1] = f[n - 1]
        BY <4>1
      <4>3. CASE n = k
        <5>1. g[k] = step[k][f[k - 1]]
          BY <2>2
        <5> HIDE DEF g
        <5>2. QED
          BY <4>2, <4>3, <5>1
      <4>4. CASE n # k
        <5>1. n \in 1 .. (k - 1) /\ n \in 0 .. k
          BY <4>4
        <5>2. g[n] = f[n]
          BY <4>4, <5>1
        <5> HIDE DEF g
        <5>3. QED
          BY <2>1, <4>2, <5>1, <5>2
      <4>5. QED
        BY <4>3, <4>4
    <3>3. QED
      BY <3>1, <3>2
  <2> HIDE DEF g
  <2>5. k \in 0 .. N
    OBVIOUS
  <2>6. QED
    BY <2>3, <2>4, <2>5
<1> HIDE DEF Good
<1>3. \A k \in 0 .. N : k \in Good
  BY <1>1, <1>2, UpwardInduction
<1>4. N \in Good
  BY <1>3
<1>5. QED
  BY <1>4 DEF Good, Steps

\* Dropping members one by one keeps a cover a cover.
LEMMA MinimalCovers ==
  ASSUME NEW r \in RowType, NEW key, \A j \in Columns : key[j] \in Int
  PROVE  /\ Minimal(r, key) \in SUBSET CoverTerms(r)
         /\ IsCover(r, Minimal(r, key), EffectiveUpper(r))
<1> DEFINE K == CoverTerms(r)
           b == EffectiveUpper(r)
           N == Cardinality(K)
           taken(n) == CHOOSE j \in K : Cardinality(UpTo(K, key, j)) = n
           Runs(s) == s = [n \in 0 .. N |->
                             IF n = 0 THEN Greedy(r, K, key, b)
                             ELSE Dropped(r, s[n - 1], taken(n), b)]
           left == CHOOSE s : Runs(s)
           step == [n \in 1 .. N |-> [C \in SUBSET K |-> Dropped(r, C, taken(n), b)]]
<1>1. K \in SUBSET Columns /\ N \in Nat
  <2>1. K \in SUBSET Columns
    BY RowFacts DEF CoverTerms
  <2>2. QED
    BY <2>1, ColumnFacts
<1>2. Greedy(r, K, key, b) \in SUBSET K /\ IsCover(r, Greedy(r, K, key, b), b)
  <2> HIDE DEF K, b
  <2>1. QED
    BY <1>1, GreedyCovers
<1>3. Minimal(r, key) = left[N]
  BY DEF Minimal
<1> HIDE DEF K, b
<1>4. \A C \in SUBSET K : \A j : Dropped(r, C, j, b) \in SUBSET K
  BY DEF Dropped
<1>5. \A C : \A j : IsCover(r, C, b) => IsCover(r, Dropped(r, C, j, b), b)
  BY DEF Dropped, IsCover
<1> HIDE DEF taken
<1>6. StepsIn(SUBSET K, step, N)
  BY <1>4 DEF StepsIn
<1>7. PICK f : Steps(f, SUBSET K, Greedy(r, K, key, b), step, N)
  <2> HIDE DEF step, N
  <2>1. QED
    BY <1>1, <1>2, <1>6, RecursionExists
<1>8. Runs(f)
  <2>1. \A n \in 0 .. N : f[n] = IF n = 0 THEN Greedy(r, K, key, b)
                                 ELSE Dropped(r, f[n - 1], taken(n), b)
    <3>1. ASSUME NEW n \in 0 .. N, n # 0
          PROVE  f[n] = Dropped(r, f[n - 1], taken(n), b)
      <4>1. n \in 1 .. N /\ n - 1 \in 0 .. N
        BY <1>1, <3>1
      <4>2. f[n - 1] \in SUBSET K /\ f[n] = step[n][f[n - 1]]
        BY <1>7, <4>1 DEF Steps
      <4>3. step[n][f[n - 1]] = Dropped(r, f[n - 1], taken(n), b)
        BY <4>1, <4>2
      <4>4. QED
        BY <4>2, <4>3
    <3>2. f[0] = Greedy(r, K, key, b)
      BY <1>7 DEF Steps
    <3>3. QED
      BY <3>1, <3>2
  <2>2. f = [n \in 0 .. N |-> f[n]]
    BY <1>7 DEF Steps
  <2>3. QED
    BY <2>1, <2>2
<1>9. Runs(left)
  <2> HIDE DEF Runs
  <2>1. QED
    BY <1>8
<1>10. \A n \in 0 .. N : left[n] = IF n = 0 THEN Greedy(r, K, key, b)
                                   ELSE Dropped(r, left[n - 1], taken(n), b)
  <2> HIDE DEF left
  <2>1. QED
    BY <1>9
<1> HIDE DEF left, N
<1> DEFINE Good == {n \in 0 .. N : left[n] \in SUBSET K /\ IsCover(r, left[n], b)}
<1>11. 0 \in Good
  BY <1>1, <1>2, <1>10
<1>12. ASSUME NEW n \in 1 .. N, n - 1 \in Good
       PROVE  n \in Good
  <2>1. n \in 0 .. N /\ n # 0
    BY <1>1
  <2>2. left[n] = Dropped(r, left[n - 1], taken(n), b)
    BY <1>10, <2>1
  <2>3. left[n - 1] \in SUBSET K /\ IsCover(r, left[n - 1], b)
    BY <1>12
  <2>4. left[n] \in SUBSET K /\ IsCover(r, left[n], b)
    BY <1>4, <1>5, <2>2, <2>3
  <2>5. QED
    BY <2>1, <2>4
<1> HIDE DEF Good
<1>13. \A n \in 0 .. N : n \in Good
  BY <1>1, <1>11, <1>12, UpwardInduction
<1>14. N \in Good
  BY <1>1, <1>13
<1>15. QED
  BY <1>3, <1>14 DEF Good, K, b

\* A rounding cut: the activity of the row is whole.
LEMMA RoundingValid ==
  ASSUME problem \in Problems, NEW i \in DOMAIN Rows, GivesRoundingCut(Rows[i]),
         NEW p \in Points[problem]
  PROVE  Holds(RoundingCutOf(Rows[i]).row, p)
<1> DEFINE r == Rows[i]
           b == r.rhs - Endpoint(r)
           side == RoundedSide(r)
<1>1. /\ r \in RowType /\ IntegerPoint(p) /\ Holds(r, p) /\ p \in [Columns -> Int]
      /\ OneSided(r) /\ Finite(Endpoint(r)) /\ r.type \in {"L", "G"}
      /\ \A j \in Terms(r) : j \in problem.integer /\ r.a[j] % 2 = 0 /\ r.a[j] \in Int
  BY ProblemFacts, PointFacts, RowFacts DEF IntegerPoint, GivesRoundingCut, OneSided
<1>2. RoundingCutOf(Rows[i]) = Cut("rounding", r.a, r.type, side)
  BY DEF RoundingCutOf
<1> HIDE DEF r
<1>3. Activity(Cut("rounding", r.a, r.type, side).row, p) = Activity(r, p)
  BY DEF Cut, Activity
<1>4. Activity(r, p) \in Int /\ \E m \in Int : Activity(r, p) = 4 * m
  <2>1. ASSUME NEW j \in Terms(r)
        PROVE  \E m \in Int : r.a[j] * p[j] = 4 * m
    <3> DEFINE a == r.a[j] \div 2
               q == p[j] \div 2
    <3>1. a \in Int /\ r.a[j] = 2 * a
      BY <1>1
    <3>2. q \in Int /\ p[j] = 2 * q
      BY <1>1, WholeUnits
    <3> HIDE DEF a, q
    <3>3. (2 * a) * (2 * q) = 4 * (a * q) /\ a * q \in Int
      BY <3>1, <3>2
    <3>4. QED
      BY <3>1, <3>2, <3>3
  <2>2. 4 \in Int
    OBVIOUS
  <2>3. QED
    BY <1>1, <2>1, <2>2, ActivityDivisible, ActivityFacts
<1>5. PICK m \in Int : Activity(r, p) = 4 * m
  BY <1>4
<1>6. /\ b \in Int /\ FloorDiv(b, 4) \in Int /\ CeilDiv(b, 4) \in Int
      /\ side = IF r.type = "L" THEN 4 * FloorDiv(b, 4) ELSE 4 * CeilDiv(b, 4)
  <2>1. b \in Int
    BY <1>1, RowFacts, SignFacts
  <2>2. FloorDiv(b, 4) \in Int /\ CeilDiv(b, 4) \in Int
    BY <2>1, FloorDivType
  <2>3. QED
    BY <2>1, <2>2 DEF RoundedSide
<1>7. /\ r.type = "L" => Activity(r, p) <= b
      /\ r.type = "G" => Activity(r, p) >= b
  BY <1>1, SignFacts, SideFacts DEF Holds
<1> HIDE DEF b, side
<1>8. CASE r.type = "L"
  <2>1. 4 * m <= 4 * FloorDiv(b, 4)
    BY <1>4, <1>5, <1>6, <1>7, <1>8, WholeBelow
  <2>2. side \in Int /\ Activity(r, p) <= side /\ r.type # "G"
    BY <1>5, <1>6, <1>8, <2>1
  <2>3. QED
    BY <1>1, <1>2, <1>3, <1>4, <2>2, CutHolds
<1>9. CASE r.type = "G"
  <2>1. 4 * CeilDiv(b, 4) <= 4 * m
    BY <1>4, <1>5, <1>6, <1>7, <1>9, WholeAbove
  <2>2. side \in Int /\ Activity(r, p) >= side /\ r.type # "L"
    BY <1>5, <1>6, <1>9, <2>1
  <2>3. QED
    BY <1>1, <1>2, <1>3, <1>4, <2>2, CutHolds
<1>10. QED
  BY <1>1, <1>8, <1>9

\* A coefficient-floor cut holds where no column may be negative.
LEMMA FloorValid ==
  ASSUME problem \in Problems, NEW i \in DOMAIN Rows, GivesFloorCut(Rows[i]),
         NEW p \in Points[problem], \A j \in Columns : problem.lower[j] >= 0
  PROVE  Holds(FloorCutOf(Rows[i]).row, p)
<1> DEFINE r == Rows[i]
           T == Terms(r)
           flo == FlooredRow(r)
           f == [j \in Columns |-> flo[j] * p[j]]
           g == [j \in Columns |-> flo[j] * 2 * CeilDiv(problem.lower[j], 2)]
           shift == LowerShift(r)
           b == 4 * FloorDiv(Side(r) - shift, 4) + shift
           signed == SignedLine(r, p)
<1>1. /\ r \in RowType /\ IntegerPoint(p) /\ Holds(r, p) /\ p \in [Columns -> Int]
      /\ OneSided(r) /\ Finite(Endpoint(r))
      /\ \A j \in T : j \in problem.integer
      /\ \A j \in Columns : problem.lower[j] <= p[j]
  BY ProblemFacts, PointFacts DEF IntegerPoint, InBox, GivesFloorCut
<1>2. FloorCutOf(Rows[i]) = Cut("floor", flo, "L", b)
  BY DEF FloorCutOf
<1> HIDE DEF r
<1>3. /\ Sign(r) \in Int /\ Side(r) \in Int
      /\ \A j \in Columns : signed[j] \in Int
      /\ Sum(signed, T) <= Side(r)
      /\ T \in SUBSET Columns /\ IsFiniteSet(T) /\ IsFiniteSet(Columns)
  BY <1>1, SignFacts, SignedRow, RowFacts, ColumnFacts
<1>4. ASSUME NEW j \in Columns
      PROVE  /\ flo[j] \in Int /\ f[j] \in Int /\ f[j] <= signed[j]
             /\ j \notin T => f[j] = 0
             /\ j \in T => \E m \in Int : f[j] = 4 * m
             /\ \E m \in Int : g[j] = 4 * m
  <2> DEFINE c == Sign(r) * r.a[j]
             h == FloorDiv(c, 2)
             e == CeilDiv(problem.lower[j], 2)
  <2>1. c \in Int /\ p[j] \in Nat /\ problem.lower[j] \in Int
    <3>1. r.a[j] \in Int /\ p[j] \in Int /\ problem.lower[j] \in Int /\ problem.lower[j] <= p[j]
      BY <1>1, RowFacts, ProblemFacts
    <3>2. QED
      BY <3>1, <1>3
  <2>2. flo[j] = 2 * h /\ signed[j] = c * p[j] /\ f[j] = flo[j] * p[j] /\ g[j] = flo[j] * 2 * e
    BY DEF FlooredRow, SignedLine
  <2>3. h \in Int /\ e \in Int /\ 2 * h <= c
    BY <2>1 DEF FloorDiv, CeilDiv
  <2>4. j \notin T => c = 0 /\ h = 0
    <3>1. j \notin T => r.a[j] = 0
      BY DEF Terms
    <3>2. j \notin T => c = 0
      BY <3>1, <1>3
    <3>3. QED
      BY <3>2 DEF FloorDiv
  <2> HIDE DEF c, h, e, f, g, flo, signed
  <2>5. flo[j] \in Int /\ f[j] \in Int
    BY <2>1, <2>2, <2>3
  <2>6. f[j] <= signed[j]
    <3>1. c - 2 * h \in Nat
      BY <2>1, <2>3
    <3>2. (c - 2 * h) * p[j] >= 0 /\ (c - 2 * h) * p[j] = c * p[j] - (2 * h) * p[j]
      BY <2>1, <2>3, <3>1
    <3>3. c * p[j] \in Int /\ (2 * h) * p[j] \in Int
      BY <2>1, <2>3
    <3>4. QED
      BY <2>2, <3>2, <3>3
  <2>7. j \notin T => f[j] = 0
    BY <2>1, <2>2, <2>4
  <2>8. j \in T => \E m \in Int : f[j] = 4 * m
    <3>1. SUFFICES ASSUME j \in T
                   PROVE  \E m \in Int : f[j] = 4 * m
      OBVIOUS
    <3> DEFINE q == p[j] \div 2
    <3>2. q \in Int /\ p[j] = 2 * q
      BY <1>1, <3>1, WholeUnits
    <3> HIDE DEF q
    <3>3. (2 * h) * (2 * q) = 4 * (h * q) /\ h * q \in Int
      BY <2>3, <3>2
    <3>4. f[j] = 4 * (h * q)
      BY <2>2, <3>2, <3>3
    <3>5. QED
      BY <3>3, <3>4
  <2>9. \E m \in Int : g[j] = 4 * m
    <3>1. (2 * h) * 2 * e = 4 * (h * e) /\ h * e \in Int
      BY <2>3
    <3>2. QED
      BY <2>2, <3>1
  <2>10. QED
    BY <2>5, <2>6, <2>7, <2>8, <2>9
<1>5. Activity(Cut("floor", flo, "L", b).row, p) = Sum(f, Columns)
  BY DEF Cut, Activity
<1>6. shift = Sum(g, T)
  BY DEF LowerShift
<1> HIDE DEF f, g, flo, signed, T
<1>7. Sum(f, Columns) = Sum(f, T)
  BY <1>3, <1>4, SumSupport
<1>8. Sum(f, T) \in Int /\ Sum(f, T) <= Sum(signed, T) /\ Sum(signed, T) \in Int
  <2>1. \A j \in T : f[j] \in Int /\ signed[j] \in Int /\ f[j] <= signed[j]
    BY <1>3, <1>4
  <2>2. QED
    BY <1>3, <2>1, SumMonotone, SumType
<1>9. PICK m \in Int : Sum(f, T) = 4 * m
  <2>1. \A j \in T : \E m \in Int : f[j] = 4 * m
    BY <1>3, <1>4
  <2>2. QED
    BY <1>3, <2>1, SumWhole
<1>10. PICK n \in Int : shift = 4 * n
  <2>1. \A j \in T : \E h \in Int : g[j] = 4 * h
    BY <1>3, <1>4
  <2>2. QED
    BY <1>3, <1>6, <2>1, SumWhole
<1> HIDE DEF shift
<1>11. 4 * (m - n) <= Side(r) - shift /\ m - n \in Int /\ Side(r) - shift \in Int
  BY <1>3, <1>8, <1>9, <1>10
<1>12. /\ 4 * (m - n) <= 4 * FloorDiv(Side(r) - shift, 4)
       /\ FloorDiv(Side(r) - shift, 4) \in Int
  BY <1>11, WholeBelow
<1>13. b \in Int /\ Sum(f, T) <= b
  BY <1>9, <1>10, <1>12
<1> HIDE DEF b
<1>14. QED
  BY <1>2, <1>5, <1>7, <1>8, <1>13, CutHolds

\* A separator's limit.
LEMMA FirstCutsFacts ==
  ASSUME NEW found, IsFiniteSet(DOMAIN found), DOMAIN found \subseteq Int
  PROVE  /\ \A c \in FirstCuts(found) : \E k \in DOMAIN found : c = found[k]
         /\ IsFiniteSet(FirstCuts(found)) /\ Cardinality(FirstCuts(found)) <= MaxCuts
<1> DEFINE D == DOMAIN found
           earlier(k) == {found[h] : h \in {g \in D : g < k}}
           taken == {h \in D : Cardinality(earlier(h)) < MaxCuts}
<1>1. FirstCuts(found) = {found[k] : k \in taken}
  BY DEF FirstCuts
<1>2. \A c \in FirstCuts(found) : \E k \in DOMAIN found : c = found[k]
  BY <1>1
<1>3. \A S \in SUBSET D : IsFiniteSet({found[k] : k \in S})
  <2>1. ASSUME NEW S \in SUBSET D
        PROVE  IsFiniteSet({found[k] : k \in S})
    <3>1. IsFiniteSet(S)
      BY FS_Subset
    <3> DEFINE f == [k \in S |-> found[k]]
    <3>2. f \in Surjection(S, {found[k] : k \in S})
      BY DEF Surjection
    <3>3. QED
      BY <3>1, <3>2, FS_Surjection
  <2>2. QED
    BY <2>1
<1>4. IsFiniteSet(taken) /\ taken \in SUBSET D /\ taken \subseteq Int
  <2>1. taken \in SUBSET D
    OBVIOUS
  <2>2. IsFiniteSet(taken)
    BY <2>1, FS_Subset
  <2>3. QED
    BY <2>1, <2>2
<1>5. IsFiniteSet(FirstCuts(found))
  BY <1>1, <1>3, <1>4
<1>6. CASE taken = {}
  <2>1. FirstCuts(found) = {}
    BY <1>1, <1>6
  <2>2. QED
    BY <1>2, <1>5, <2>1, FS_EmptySet, BoundFacts
<1>7. CASE taken # {}
  <2>1. PICK last \in taken : \A k \in taken : last >= k
    <3> HIDE DEF taken
    <3>1. QED
      BY <1>4, <1>7, FiniteExtremes
  <2>2. last \in D /\ last \in Int /\ Cardinality(earlier(last)) < MaxCuts
    BY <1>4
  <2>3. IsFiniteSet(earlier(last))
    <3>1. {g \in D : g < last} \in SUBSET D
      OBVIOUS
    <3>2. QED
      BY <1>3, <3>1
  <2>4. FirstCuts(found) \in SUBSET (earlier(last) \cup {found[last]})
    <3>1. ASSUME NEW k \in taken
          PROVE  found[k] \in earlier(last) \cup {found[last]}
      <4>1. k = last \/ k < last
        BY <1>4, <2>1, <2>2
      <4>2. QED
        BY <1>4, <4>1
    <3>2. QED
      BY <1>1, <3>1
  <2> HIDE DEF earlier
  <2>5. /\ IsFiniteSet(earlier(last) \cup {found[last]})
        /\ Cardinality(earlier(last) \cup {found[last]}) <= Cardinality(earlier(last)) + 1
        /\ Cardinality(earlier(last)) \in Nat
        /\ Cardinality(earlier(last) \cup {found[last]}) \in Nat
    <3>1. /\ IsFiniteSet(earlier(last) \cup {found[last]})
          /\ Cardinality(earlier(last) \cup {found[last]}) =
               IF found[last] \in earlier(last) THEN Cardinality(earlier(last))
               ELSE Cardinality(earlier(last)) + 1
      BY <2>3, FS_AddElement
    <3>2. Cardinality(earlier(last)) \in Nat
      BY <2>3, FS_CardinalityType
    <3>3. QED
      BY <3>1, <3>2
  <2>6. Cardinality(FirstCuts(found)) <= Cardinality(earlier(last) \cup {found[last]})
    BY <2>4, <2>5, FS_Subset
  <2>7. Cardinality(FirstCuts(found)) \in Nat
    BY <1>5, FS_CardinalityType
  <2>8. Cardinality(FirstCuts(found)) <= MaxCuts
    BY <2>2, <2>5, <2>6, <2>7, BoundFacts
  <2>9. QED
    BY <1>2, <1>5, <2>8
<1>8. QED
  BY <1>6, <1>7

\* What a cut promises, and what the separators give.
CutValid(c) ==
    (c.from = "floor" => \A j \in Columns : problem.lower[j] >= 0) =>
        \A p \in Points[problem] : Holds(c.row, p)
Given(S, from) ==
    /\ \A c \in S : c.from = from /\ CutValid(c)
    /\ IsFiniteSet(S) /\ Cardinality(S) <= MaxCuts

LEMMA CoverCutsGiven ==
  ASSUME problem \in Problems, x \in [Columns -> Int]
  PROVE  Given(CoverCuts, "cover")
<1> DEFINE D == {n \in 1 .. 4 * Len(Rows) : GivesCover(n)}
           found == [k \in D |-> CoverCut(CoverAt(k))]
<1>1. Len(Rows) \in Nat /\ DOMAIN Rows = 1 .. Len(Rows)
  BY ProblemFacts
<1>2. IsFiniteSet(D) /\ D \subseteq Int
  <2>1. 4 * Len(Rows) \in Int /\ 1 \in Int
    BY <1>1
  <2>2. IsFiniteSet(1 .. 4 * Len(Rows)) /\ D \in SUBSET (1 .. 4 * Len(Rows))
    BY <2>1, FS_Interval
  <2>3. QED
    BY <2>2, FS_Subset
<1>3. ASSUME NEW k \in D
      PROVE  found[k].from = "cover" /\ CutValid(found[k])
  <2> DEFINE i == ((k - 1) \div 4) + 1
             r == Rows[i]
             n == ((k - 1) % 4) + 1
             key == Keys(r)[n]
             C == CoverAt(k)
  <2>1. k \in Int /\ 1 <= k /\ k <= 4 * Len(Rows) /\ GivesCover(k)
    BY <1>1
  <2>2. i \in DOMAIN Rows /\ n \in 1 .. 4
    BY <1>1, <2>1
  <2>3. r \in RowType /\ r.a \in [Columns -> Int]
    BY <2>2, ProblemFacts, RowFacts
  <2>4. \A j \in Columns : key[j] \in Int
    <3>1. n = 1 \/ n = 2 \/ n = 3 \/ n = 4
      BY <2>2
    <3>2. CASE n = 1
      <4>1. key = Keys(r)[1]
        BY <3>2
      <4> HIDE DEF key, n, r
      <4>2. key = [j \in Columns |-> -x[j]]
        BY <4>1 DEF Keys
      <4>3. QED
        BY <2>3, <4>2
    <3>3. CASE n = 2
      <4>1. key = Keys(r)[2]
        BY <3>3
      <4> HIDE DEF key, n, r
      <4>2. key = [j \in Columns |-> -r.a[j]]
        BY <4>1 DEF Keys
      <4>3. QED
        BY <2>3, <4>2
    <3>4. CASE n = 3
      <4>1. key = Keys(r)[3]
        BY <3>4
      <4> HIDE DEF key, n, r
      <4>2. key = r.a
        BY <4>1 DEF Keys
      <4>3. QED
        BY <2>3, <4>2
    <3>5. CASE n = 4
      <4>1. key = Keys(r)[4]
        BY <3>5
      <4> HIDE DEF key, n, r
      <4>2. key = x
        BY <4>1 DEF Keys
      <4>3. QED
        BY <2>3, <4>2
    <3>6. QED
      BY <3>1, <3>2, <3>3, <3>4, <3>5
  <2>5. C = Minimal(r, key) /\ CoverRow(k) = r
    BY DEF CoverAt, CoverRow
  <2>6. Finite(RowHigh(r)) /\ SeparatesAtX(C)
    BY <2>1, <2>5 DEF GivesCover
  <2> HIDE DEF i, n, key, C
  <2>7. C \in SUBSET CoverTerms(r) /\ IsCover(r, C, EffectiveUpper(r))
    BY <2>3, <2>4, <2>5, MinimalCovers
  <2>8. C # {}
    <3>1. Cardinality(C) > 1
      BY <2>6 DEF SeparatesAtX
    <3>2. Cardinality({}) = 0
      BY FS_EmptySet
    <3>3. ASSUME C = {}
          PROVE  FALSE
      BY <3>1, <3>2, <3>3
    <3>4. QED
      BY <3>3
  <2>9. \A p \in Points[problem] : Holds(CoverCut(C).row, p)
    BY <2>2, <2>6, <2>7, <2>8, CoverValid DEF IsCover
  <2>10. found[k] = CoverCut(C)
    BY DEF C
  <2>11. QED
    BY <2>9, <2>10 DEF CutValid, CoverCut, Cut
<1>4. CoverCuts = FirstCuts(found)
  BY DEF CoverCuts
<1>5. DOMAIN found = D
  OBVIOUS
<1>6. \A k \in DOMAIN found : found[k].from = "cover" /\ CutValid(found[k])
  BY <1>3
<1> HIDE DEF found, D
<1>7. IsFiniteSet(DOMAIN found) /\ DOMAIN found \subseteq Int
  BY <1>2, <1>5
<1>8. QED
  BY <1>4, <1>6, <1>7, FirstCutsFacts DEF Given

LEMMA RowCutsGiven ==
  ASSUME NEW found, NEW from, DOMAIN found \in SUBSET (1 .. Len(Rows)), Len(Rows) \in Nat,
         \A i \in DOMAIN found : found[i].from = from /\ CutValid(found[i])
  PROVE  Given(FirstCuts(found), from)
<1>1. IsFiniteSet(DOMAIN found) /\ DOMAIN found \subseteq Int
  <2>1. IsFiniteSet(1 .. Len(Rows))
    BY FS_Interval
  <2>2. QED
    BY <2>1, FS_Subset
<1>2. QED
  BY <1>1, FirstCutsFacts DEF Given

LEMMA SeparatedGiven ==
  ASSUME problem \in Problems, x \in [Columns -> Int]
  PROVE  \E R, F : /\ SeparatedCuts = CoverCuts \cup R \cup F
                   /\ Given(CoverCuts, "cover") /\ Given(R, "rounding") /\ Given(F, "floor")
<1> DEFINE dr == {i \in DOMAIN Rows : GivesRoundingCut(Rows[i])}
           df == {i \in DOMAIN Rows : GivesFloorCut(Rows[i])}
           fr == [i \in dr |-> RoundingCutOf(Rows[i])]
           ff == [i \in df |-> FloorCutOf(Rows[i])]
<1>1. DOMAIN Rows = 1 .. Len(Rows) /\ Len(Rows) \in Nat
  BY ProblemFacts
<1>2. ASSUME NEW i \in dr
      PROVE  fr[i].from = "rounding" /\ CutValid(fr[i])
  <2>1. i \in DOMAIN Rows /\ GivesRoundingCut(Rows[i])
    OBVIOUS
  <2>2. fr[i] = RoundingCutOf(Rows[i])
    OBVIOUS
  <2>3. fr[i].from = "rounding"
    BY <2>2 DEF RoundingCutOf, Cut
  <2>4. \A p \in Points[problem] : Holds(fr[i].row, p)
    BY <2>1, <2>2, RoundingValid
  <2>5. QED
    BY <2>3, <2>4 DEF CutValid
<1>3. ASSUME NEW i \in df
      PROVE  ff[i].from = "floor" /\ CutValid(ff[i])
  <2>1. i \in DOMAIN Rows /\ GivesFloorCut(Rows[i])
    OBVIOUS
  <2>2. ff[i] = FloorCutOf(Rows[i])
    OBVIOUS
  <2>3. ff[i].from = "floor"
    BY <2>2 DEF FloorCutOf, Cut
  <2>4. (\A j \in Columns : problem.lower[j] >= 0) =>
           \A p \in Points[problem] : Holds(ff[i].row, p)
    BY <2>1, <2>2, FloorValid
  <2>5. QED
    BY <2>3, <2>4 DEF CutValid
<1>4. SeparatedCuts = CoverCuts \cup FirstCuts(fr) \cup FirstCuts(ff)
  BY DEF SeparatedCuts
<1>5. DOMAIN fr = dr /\ DOMAIN ff = df /\ dr \in SUBSET (1 .. Len(Rows))
      /\ df \in SUBSET (1 .. Len(Rows))
  BY <1>1
<1> HIDE DEF fr, ff, dr, df
<1>6. Given(FirstCuts(fr), "rounding")
  BY <1>1, <1>2, <1>5, RowCutsGiven
<1>7. Given(FirstCuts(ff), "floor")
  BY <1>1, <1>3, <1>5, RowCutsGiven
<1>8. Given(CoverCuts, "cover")
  BY CoverCutsGiven
<1>9. QED
  BY <1>4, <1>6, <1>7, <1>8

(***************************************************************************)
(* sk_milp_solve's covers: rows of binaries with positive coefficients.    *)
(***************************************************************************)
LEMMA NativeCoverValid ==
  ASSUME problem \in Problems, NEW i \in CoveredRows, NEW C \in Covers(Rows[i]),
         NEW p \in Points[problem]
  PROVE  Holds(CoverCut(C).row, p)
<1> DEFINE r == Rows[i]
           T == Terms(r)
<1>1. /\ r \in RowType /\ IntegerPoint(p) /\ Holds(r, p) /\ p \in [Columns -> Int]
      /\ \A j \in Columns : problem.lower[j] <= p[j] /\ p[j] <= problem.upper[j]
      /\ Finite(RowHigh(r))
  BY ProblemFacts, PointFacts DEF InBox, IntegerPoint, CoveredRows
<1>2. /\ \A j \in T : /\ j \in problem.integer /\ r.a[j] > 0
                      /\ problem.lower[j] = 0 /\ problem.upper[j] = 2
      /\ C \in SUBSET T /\ C # {} /\ Weight(r, C) > RowHigh(r)
  BY DEF CoveredRows, AllBinary, Covers, HeaviestUpTo
<1> HIDE DEF r
<1>3. T \in SUBSET Columns /\ C \in SUBSET Columns
  BY <1>1, <1>2, RowFacts
<1>4. \A j \in T : p[j] \in {0, 2} /\ p[j] >= 0
  <2>1. ASSUME NEW j \in T
        PROVE  p[j] \in {0, 2} /\ p[j] >= 0
    <3>1. /\ j \in problem.integer /\ j \in Columns /\ problem.lower[j] = 0
          /\ problem.upper[j] = 2 /\ problem.lower[j] <= p[j] /\ p[j] <= problem.upper[j]
          /\ 0 \in Int /\ 2 \in Int
      BY <1>1, <1>2, <1>3
    <3>2. QED
      BY <1>1, <3>1, BinaryValues
  <2>2. QED
    BY <2>1
<1> HIDE DEF T
<1>5. SUFFICES ASSUME \A j \in C : p[j] = 2
               PROVE  FALSE
  <2>1. CASE \A j \in C : p[j] = 2
    BY <1>5, <2>1
  <2>2. CASE \E j \in C : p[j] # 2
    <3>1. PICK out \in C : p[out] # 2
      BY <2>2
    <3>2. p[out] = 0 /\ \A j \in C : p[j] \in {0, 2}
      BY <1>2, <1>4, <3>1
    <3>3. QED
      BY <1>1, <1>3, <3>2, CoverCutHolds
  <2>3. QED
    BY <2>1, <2>2
<1>6. /\ Weight(r, C) \in Int /\ Sum(Line(r, p), T) \in Int
      /\ Weight(r, C) <= Sum(Line(r, p), T)
  BY <1>1, <1>2, <1>3, <1>4, <1>5, FullCoverWeighs
<1>7. Activity(r, p) = Sum(Line(r, p), T) /\ Activity(r, p) <= RowHigh(r) /\ RowHigh(r) \in Int
  BY <1>1, ActivityFacts, SideFacts DEF Holds, T
<1>8. QED
  BY <1>2, <1>6, <1>7

LEMMA NativeCoversGiven ==
  ASSUME problem \in Problems, NEW pick, \A i \in CoveredRows : pick[i] \in Covers(Rows[i])
  PROVE  Given({CoverCut(pick[i]) : i \in {k \in CoveredRows :
                    Cardinality({h \in CoveredRows : h < k}) < MaxCuts}}, "cover")
<1> DEFINE D == CoveredRows
           earlier(k) == {h \in D : h < k}
           taken == {k \in D : Cardinality(earlier(k)) < MaxCuts}
           given == {CoverCut(pick[i]) : i \in taken}
<1>1. \A c \in given : c.from = "cover" /\ CutValid(c)
  <2>1. ASSUME NEW i \in D
        PROVE  CoverCut(pick[i]).from = "cover" /\ CutValid(CoverCut(pick[i]))
    <3>1. \A p \in Points[problem] : Holds(CoverCut(pick[i]).row, p)
      BY NativeCoverValid
    <3>2. QED
      BY <3>1 DEF CutValid, CoverCut, Cut
  <2>2. QED
    BY <2>1
<1>2. IsFiniteSet(D) /\ D \subseteq Int
  <2>1. D \in SUBSET (1 .. Len(Rows)) /\ Len(Rows) \in Nat
    BY ProblemFacts DEF CoveredRows
  <2>2. IsFiniteSet(1 .. Len(Rows))
    BY <2>1, FS_Interval
  <2> HIDE DEF D
  <2>3. IsFiniteSet(D)
    BY <2>1, <2>2, FS_Subset
  <2>4. D \subseteq Int
    BY <2>1
  <2>5. QED
    BY <2>3, <2>4
<1> HIDE DEF D
<1>3. IsFiniteSet(taken) /\ taken \subseteq Int
  <2>1. taken \in SUBSET D
    OBVIOUS
  <2>2. QED
    BY <1>2, <2>1, FS_Subset
<1>4. IsFiniteSet(given) /\ Cardinality(given) <= Cardinality(taken)
  <2> DEFINE f == [i \in taken |-> CoverCut(pick[i])]
  <2>1. f \in Surjection(taken, given)
    BY DEF Surjection
  <2>2. QED
    BY <1>3, <2>1, FS_Surjection
<1>5. Cardinality(taken) <= MaxCuts /\ Cardinality(taken) \in Nat
  <2>1. CASE taken = {}
    <3>1. Cardinality({}) = 0
      BY FS_EmptySet
    <3>2. Cardinality(taken) = 0
      BY <2>1, <3>1
    <3>3. 0 <= MaxCuts
      BY BoundFacts
    <3>4. QED
      BY <3>2, <3>3
  <2>2. CASE taken # {}
    <3>1. PICK last \in taken : \A k \in taken : last >= k
      <4> HIDE DEF taken
      <4>1. QED
        BY <1>3, <2>2, FiniteExtremes
    <3>2. last \in D /\ last \in Int /\ Cardinality(earlier(last)) < MaxCuts
      BY <1>3
    <3>3. IsFiniteSet(earlier(last))
      <4>1. earlier(last) \in SUBSET D
        OBVIOUS
      <4>2. QED
        BY <1>2, <4>1, FS_Subset
    <3>4. taken \in SUBSET (earlier(last) \cup {last})
      <4>1. ASSUME NEW k \in taken
            PROVE  k \in earlier(last) \cup {last}
        <5>1. k \in D /\ k \in Int /\ last >= k /\ last \in Int
          BY <1>3, <3>1
        <5>2. k = last \/ k < last
          <6> HIDE DEF taken
          <6>1. QED
            BY <5>1
        <5>3. QED
          BY <5>1, <5>2
      <4>2. QED
        BY <4>1
    <3> HIDE DEF earlier, taken
    <3>5. /\ IsFiniteSet(earlier(last) \cup {last})
          /\ Cardinality(earlier(last) \cup {last}) =
               IF last \in earlier(last) THEN Cardinality(earlier(last))
               ELSE Cardinality(earlier(last)) + 1
      BY <3>3, FS_AddElement
    <3>6. Cardinality(earlier(last)) \in Nat /\ Cardinality(taken) \in Nat
      BY <1>3, <3>3, FS_CardinalityType
    <3>7. Cardinality(taken) <= Cardinality(earlier(last) \cup {last})
      BY <3>4, <3>5, FS_Subset
    <3>8. QED
      BY <3>2, <3>5, <3>6, <3>7, BoundFacts
  <2>3. QED
    BY <2>1, <2>2
<1>6. Cardinality(given) \in Nat
  BY <1>4, FS_CardinalityType
<1> HIDE DEF given, taken
<1>7. Given(given, "cover")
  BY <1>1, <1>4, <1>5, <1>6, BoundFacts DEF Given
<1>8. QED
  BY <1>7 DEF given, taken, D

(***************************************************************************)
(* milp_propagate: activity ranges inverted under moving bounds.           *)
(***************************************************************************)
LEMMA CeilNotBelow ==
  ASSUME NEW n \in Int, NEW d \in Int, d # 0, NEW q \in Int
  PROVE  /\ (d > 0 => d * q <= n) /\ (d < 0 => d * q >= n) => q <= CeilDiv(n, d)
         /\ (d > 0 => d * q >= n) /\ (d < 0 => d * q <= n) => FloorDiv(n, d) <= q
<1>1. ASSUME NEW m \in Int, NEW e \in Int, e > 0, NEW t \in Int, e * t >= m
      PROVE  m \div e <= t
  <2> DEFINE k == m \div e
  <2>1. k \in Int /\ e * k <= m
    BY <1>1, Division
  <2> HIDE DEF k
  <2>2. ASSUME k > t
        PROVE  FALSE
    <3>1. k - t - 1 \in Nat /\ e * (k - t - 1) >= 0
      BY <2>1, <2>2, <1>1
    <3>2. e * (k - t - 1) = e * k - e * t - e
      BY <2>1, <1>1
    <3>3. e * k \in Int /\ e * t \in Int
      BY <2>1, <1>1
    <3>4. QED
      BY <1>1, <2>1, <3>1, <3>2, <3>3
  <2>3. QED
    BY <1>1, <2>1, <2>2 DEF k
<1>2. ASSUME NEW m \in Int, NEW e \in Int, e # 0, NEW t \in Int,
             e > 0 => e * t >= m, e < 0 => e * t <= m
      PROVE  FloorDiv(m, e) <= t
  <2>1. CASE e > 0
    BY <1>1, <1>2, <2>1 DEF FloorDiv
  <2>2. CASE e < 0
    <3>1. (-e) * t >= -m /\ -e > 0 /\ -e \in Int /\ -m \in Int
      BY <1>2, <2>2
    <3>2. (-m) \div (-e) <= t
      BY <1>1, <3>1
    <3>3. QED
      BY <3>2, <2>2 DEF FloorDiv
  <2>3. QED
    BY <1>2, <2>1, <2>2
<1>3. ASSUME d > 0 => d * q <= n, d < 0 => d * q >= n
      PROVE  q <= CeilDiv(n, d)
  <2>1. -n \in Int /\ -q \in Int /\ d * (-q) = -(d * q) /\ d * q \in Int
    OBVIOUS
  <2>2. FloorDiv(-n, d) <= -q
    BY <1>2, <1>3, <2>1
  <2>3. FloorDiv(-n, d) \in Int
    BY <2>1, FloorDivType
  <2>4. QED
    BY <2>2, <2>3 DEF CeilDiv
<1>4. QED
  BY <1>2, <1>3

\* A range computed from a wider box lo0 .. hi0, and the present contribution.
Wider(lo0, hi0, lo, hi, p, k) ==
    /\ lo0[k] \in Int /\ hi0[k] \in Int /\ lo[k] \in Int /\ hi[k] \in Int /\ p[k] \in Int
    /\ lo0[k] <= lo[k] /\ lo[k] <= p[k] /\ p[k] <= hi[k] /\ hi[k] <= hi0[k]
    /\ -Inf < p[k] /\ p[k] < Inf

LEMMA ContributionFacts ==
  ASSUME NEW r \in RowType, NEW k \in Terms(r), NEW lo0, NEW hi0, NEW lo, NEW hi, NEW p,
         Wider(lo0, hi0, lo, hi, p, k), NEW least \in BOOLEAN,
         NEW old, old = Contribution(r, k, lo0, hi0, least),
         NEW new, new = Contribution(r, k, lo, hi, least)
  PROVE  /\ old.sum \in Int /\ new.sum \in Int /\ old.inf \in {0, 1} /\ new.inf \in {0, 1}
         /\ new.inf <= old.inf
         /\ old.inf = 1 => old.sum = 0
         /\ new.inf = 1 => new.sum = 0
         /\ old.inf = 0 /\ least => old.sum <= new.sum
         /\ old.inf = 0 /\ ~least => new.sum <= old.sum
         /\ new.inf = 0 /\ least => new.sum <= r.a[k] * p[k]
         /\ new.inf = 0 /\ ~least => r.a[k] * p[k] <= new.sum
<1> DEFINE a == r.a[k]
           low == (a > 0) = least
           before == IF low THEN lo0[k] ELSE hi0[k]
           now == IF low THEN lo[k] ELSE hi[k]
<1>1. a \in Int /\ a # 0 /\ Inf \in Nat /\ Inf > 0
  <2>1. k \in Columns /\ r.a[k] # 0
    BY DEF Terms
  <2>2. QED
    BY <2>1, RowFacts, BoundFacts
<1>2. /\ before \in Int /\ now \in Int /\ p[k] \in Int
      /\ low => before <= now /\ now <= p[k]
      /\ ~low => p[k] <= now /\ now <= before
      /\ -Inf < p[k] /\ p[k] < Inf
  BY DEF Wider
<1>3. /\ old = IF Finite(before) THEN [sum |-> a * before, inf |-> 0]
               ELSE [sum |-> 0, inf |-> 1]
      /\ new = IF Finite(now) THEN [sum |-> a * now, inf |-> 0]
               ELSE [sum |-> 0, inf |-> 1]
  BY DEF Contribution
<1>4. low \in BOOLEAN /\ (low <=> ((a > 0) <=> least))
  BY <1>1
<1> HIDE DEF a, low, before, now
<1>5. Finite(before) => Finite(now)
  BY <1>1, <1>2, <1>4 DEF Finite, Abs
<1>6. a * before \in Int /\ a * now \in Int /\ a * p[k] \in Int
  BY <1>1, <1>2
<1>7. /\ low /\ a > 0 => a * before <= a * now /\ a * now <= a * p[k]
      /\ low /\ a < 0 => a * before >= a * now /\ a * now >= a * p[k]
      /\ ~low /\ a > 0 => a * before >= a * now /\ a * now >= a * p[k]
      /\ ~low /\ a < 0 => a * before <= a * now /\ a * now <= a * p[k]
  <2>1. CASE low
    <3>1. /\ now \in Int /\ before <= now /\ now <= p[k]
          /\ before <= p[k]
      BY <1>2, <2>1
    <3>2. /\ a >= 0 => a * before <= a * now
          /\ a <= 0 => a * now <= a * before
      BY <1>1, <1>2, <3>1, TermBetween
    <3>3. /\ a >= 0 => a * now <= a * p[k]
          /\ a <= 0 => a * p[k] <= a * now
      BY <1>1, <1>2, <3>1, TermBetween
    <3>4. QED
      BY <1>1, <2>1, <3>2, <3>3
  <2>2. CASE ~low
    <3>1. p[k] <= now /\ now <= before /\ p[k] <= before
      BY <1>2, <2>2
    <3>2. /\ a >= 0 => a * now <= a * before
          /\ a <= 0 => a * before <= a * now
      BY <1>1, <1>2, <3>1, TermBetween
    <3>3. /\ a >= 0 => a * p[k] <= a * now
          /\ a <= 0 => a * now <= a * p[k]
      BY <1>1, <1>2, <3>1, TermBetween
    <3>4. QED
      BY <1>1, <2>2, <3>2, <3>3
  <2>3. QED
    BY <2>1, <2>2, <1>4
<1>8. /\ least => (a > 0 => low) /\ (a < 0 => ~low)
      /\ ~least => (a > 0 => ~low) /\ (a < 0 => low)
  BY <1>1, <1>4
<1>9. /\ least => a * before <= a * now /\ a * now <= a * p[k]
      /\ ~least => a * before >= a * now /\ a * now >= a * p[k]
  BY <1>1, <1>7, <1>8
<1>10. a * p[k] = r.a[k] * p[k]
  BY DEF a
<1> DEFINE ab == a * before
           an == a * now
           ap == r.a[k] * p[k]
<1> HIDE DEF ab, an, ap
<1>11. /\ ab \in Int /\ an \in Int /\ ap \in Int
       /\ least => ab <= an /\ an <= ap
       /\ ~least => ab >= an /\ an >= ap
       /\ old = IF Finite(before) THEN [sum |-> ab, inf |-> 0] ELSE [sum |-> 0, inf |-> 1]
       /\ new = IF Finite(now) THEN [sum |-> an, inf |-> 0] ELSE [sum |-> 0, inf |-> 1]
  BY <1>3, <1>6, <1>9, <1>10 DEF ab, an, ap
<1>12. CASE Finite(before)
  <2>1. old.sum = ab /\ old.inf = 0 /\ new.sum = an /\ new.inf = 0
    BY <1>5, <1>11, <1>12
  <2>2. QED
    BY <1>11, <2>1 DEF ap
<1>13. CASE ~Finite(before) /\ Finite(now)
  <2>1. old.sum = 0 /\ old.inf = 1 /\ new.sum = an /\ new.inf = 0
    BY <1>11, <1>13
  <2>2. QED
    BY <1>11, <2>1 DEF ap
<1>14. CASE ~Finite(before) /\ ~Finite(now)
  <2>1. old.sum = 0 /\ old.inf = 1 /\ new.sum = 0 /\ new.inf = 1
    BY <1>11, <1>14
  <2>2. QED
    BY <1>11, <2>1 DEF ap
<1>15. QED
  BY <1>12, <1>13, <1>14


\* When taking out j leaves no infinite term, the rest bounds the other terms.
LEMMA RestSound ==
  ASSUME NEW r \in RowType, NEW j \in Terms(r), NEW lo0, NEW hi0, NEW lo, NEW hi,
         NEW p \in [Columns -> Int],
         \A k \in Columns : Wider(lo0, hi0, lo, hi, p, k), NEW least \in BOOLEAN,
         NEW rest, rest = Rest(RangeSide(r, lo0, hi0, least), r, j, lo, hi, least),
         rest.inf = 0
  PROVE  /\ rest.sum \in Int /\ Sum(Line(r, p), Terms(r) \ {j}) \in Int
         /\ least => rest.sum <= Sum(Line(r, p), Terms(r) \ {j})
         /\ ~least => Sum(Line(r, p), Terms(r) \ {j}) <= rest.sum
<1> DEFINE T == Terms(r)
           others == T \ {j}
           f == [k \in Columns |-> Contribution(r, k, lo0, hi0, least).sum]
           g == [k \in Columns |-> Contribution(r, k, lo0, hi0, least).inf]
           own == Contribution(r, j, lo, hi, least)
           line == Line(r, p)
<1>1. /\ T \in SUBSET Columns /\ IsFiniteSet(T) /\ others \in SUBSET T /\ IsFiniteSet(others)
      /\ j \in T
  BY RowFacts, FS_Subset
<1>2. \A k \in Columns : line[k] \in Int /\ line[k] = r.a[k] * p[k]
  BY ActivityFacts
<1>3. /\ rest.sum = Sum(f, T) - own.sum
      /\ rest.inf = Sum(g, T) - own.inf
  BY DEF Rest, RangeSide
<1>4. ASSUME NEW k \in T
      PROVE  /\ f[k] \in Int /\ g[k] \in {0, 1}
             /\ g[k] = 0 /\ least => f[k] <= line[k]
             /\ g[k] = 0 /\ ~least => line[k] <= f[k]
  <2> DEFINE old == Contribution(r, k, lo0, hi0, least)
             new == Contribution(r, k, lo, hi, least)
  <2>1. k \in Columns /\ Wider(lo0, hi0, lo, hi, p, k)
    BY <1>1
  <2>2. f[k] = old.sum /\ g[k] = old.inf /\ line[k] = r.a[k] * p[k] /\ line[k] \in Int
    BY <1>2, <2>1
  <2> HIDE DEF old, new, f, g, line, T
  <2>3. /\ old.sum \in Int /\ new.sum \in Int /\ old.inf \in {0, 1} /\ new.inf \in {0, 1}
        /\ new.inf <= old.inf
        /\ old.inf = 0 /\ least => old.sum <= new.sum
        /\ old.inf = 0 /\ ~least => new.sum <= old.sum
        /\ new.inf = 0 /\ least => new.sum <= r.a[k] * p[k]
        /\ new.inf = 0 /\ ~least => r.a[k] * p[k] <= new.sum
    BY <2>1, ContributionFacts DEF old, new, T
  <2>4. old.inf = 0 => new.inf = 0
    BY <2>3
  <2>5. QED
    BY <2>2, <2>3, <2>4
<1>5. /\ own.sum \in Int /\ own.inf \in {0, 1} /\ own.inf <= g[j]
      /\ g[j] = 0 /\ least => f[j] <= own.sum
      /\ g[j] = 0 /\ ~least => own.sum <= f[j]
      /\ g[j] = 1 => f[j] = 0
      /\ own.inf = 1 => own.sum = 0
  <2> DEFINE old == Contribution(r, j, lo0, hi0, least)
  <2>1. j \in Columns /\ Wider(lo0, hi0, lo, hi, p, j)
    BY <1>1
  <2>2. f[j] = old.sum /\ g[j] = old.inf
    BY <2>1
  <2> HIDE DEF old, own, f, g, T
  <2>3. /\ own.sum \in Int /\ own.inf \in {0, 1} /\ own.inf <= old.inf
        /\ old.inf = 0 /\ least => old.sum <= own.sum
        /\ old.inf = 0 /\ ~least => own.sum <= old.sum
        /\ old.inf = 1 => old.sum = 0
        /\ own.inf = 1 => own.sum = 0
    BY <2>1, ContributionFacts DEF old, own
  <2>4. QED
    BY <2>2, <2>3
<1> HIDE DEF f, g, own, line, T
<1>6. /\ Sum(f, T) = f[j] + Sum(f, others) /\ Sum(f, others) \in Int
      /\ Sum(g, T) = g[j] + Sum(g, others) /\ Sum(g, others) \in Nat
  <2>1. \A k \in T : f[k] \in Int /\ g[k] \in Int /\ g[k] \in Nat
    BY <1>4
  <2>2. \A k \in others : f[k] \in Int /\ g[k] \in Nat
    BY <1>1, <2>1
  <2> HIDE DEF others
  <2>3. Sum(f, others) \in Int /\ Sum(g, others) \in Nat
    BY <1>1, <2>2, SumType, SumNonnegative
  <2>4. Sum(f, T) = f[j] + Sum(f, T \ {j}) /\ Sum(g, T) = g[j] + Sum(g, T \ {j})
    BY <1>1, <2>1, SumSplit
  <2>5. QED
    BY <2>3, <2>4 DEF others
<1>7. g[j] = own.inf /\ Sum(g, others) = 0
  <2>1. own.inf \in Int /\ g[j] \in Int /\ own.inf <= g[j]
    BY <1>1, <1>4, <1>5
  <2>2. Sum(g, others) + g[j] - own.inf = 0
    BY <1>3, <1>6, <2>1
  <2>3. QED
    BY <1>6, <2>1, <2>2
<1>8. \A k \in others : g[k] = 0
  <2>1. ASSUME NEW k \in others
        PROVE  g[k] = 0
    <3>1. \A h \in others : g[h] \in Int /\ g[h] \in Nat
      BY <1>1, <1>4
    <3> HIDE DEF others
    <3>2. Sum(g, others) = g[k] + Sum(g, others \ {k})
      BY <1>1, <3>1, SumSplit
    <3>3. IsFiniteSet(others \ {k})
      BY <1>1, FS_Subset
    <3>4. Sum(g, others \ {k}) \in Nat
      BY <3>1, <3>3, SumNonnegative
    <3>5. QED
      BY <1>7, <3>1, <3>2, <3>4
  <2>2. QED
    BY <2>1
<1>9. rest.sum \in Int /\ rest.sum = (f[j] - own.sum) + Sum(f, others)
  <2>1. f[j] \in Int
    BY <1>1, <1>4
  <2>2. QED
    BY <1>3, <1>5, <1>6, <2>1
<1>10. /\ least => f[j] - own.sum <= 0
       /\ ~least => f[j] - own.sum >= 0
       /\ f[j] - own.sum \in Int
  <2>1. f[j] \in Int /\ own.sum \in Int /\ g[j] \in {0, 1}
    BY <1>1, <1>4, <1>5
  <2>2. CASE g[j] = 0
    BY <2>1, <2>2, <1>5
  <2>3. CASE g[j] = 1
    <3>1. own.sum = 0 /\ f[j] = 0
      BY <1>5, <1>7, <2>3
    <3>2. QED
      BY <3>1
  <2>4. QED
    BY <2>1, <2>2, <2>3
<1>11. \A k \in others : line[k] \in Int /\ f[k] \in Int
  BY <1>1, <1>2, <1>4
<1>12. Sum(line, others) \in Int
  BY <1>1, <1>11, SumType
<1>13. CASE least
  <2>1. \A k \in others : f[k] \in Int /\ line[k] \in Int /\ f[k] <= line[k]
    BY <1>1, <1>4, <1>8, <1>11, <1>13
  <2> HIDE DEF others
  <2>2. Sum(f, others) <= Sum(line, others)
    BY <1>1, <2>1, SumMonotone
  <2>3. QED
    BY <1>6, <1>9, <1>10, <1>12, <1>13, <2>2 DEF line, others, T
<1>14. CASE ~least
  <2>1. \A k \in others : line[k] \in Int /\ f[k] \in Int /\ line[k] <= f[k]
    BY <1>1, <1>4, <1>8, <1>11, <1>14
  <2> HIDE DEF others
  <2>2. Sum(line, others) <= Sum(f, others)
    BY <1>1, <2>1, SumMonotone
  <2>3. QED
    BY <1>6, <1>9, <1>10, <1>12, <1>14, <2>2 DEF line, others, T
<1>15. QED
  BY <1>13, <1>14


\* A range without an infinite term holds the activity.
LEMMA RangeSound ==
  ASSUME NEW r \in RowType, NEW lo, NEW hi, NEW p \in [Columns -> Int],
         \A k \in Columns : Wider(lo, hi, lo, hi, p, k), NEW least \in BOOLEAN,
         NEW range, range = RangeSide(r, lo, hi, least), range.inf = 0
  PROVE  /\ range.sum \in Int
         /\ least => range.sum <= Activity(r, p)
         /\ ~least => Activity(r, p) <= range.sum
<1> DEFINE T == Terms(r)
           f == [k \in Columns |-> Contribution(r, k, lo, hi, least).sum]
           g == [k \in Columns |-> Contribution(r, k, lo, hi, least).inf]
           line == Line(r, p)
<1>1. T \in SUBSET Columns /\ IsFiniteSet(T)
  BY RowFacts
<1>2. /\ \A k \in Columns : line[k] \in Int /\ line[k] = r.a[k] * p[k]
      /\ Activity(r, p) = Sum(line, T) /\ Activity(r, p) \in Int
  BY ActivityFacts
<1>3. range.sum = Sum(f, T) /\ range.inf = Sum(g, T)
  BY DEF RangeSide
<1>4. ASSUME NEW k \in T
      PROVE  /\ f[k] \in Int /\ g[k] \in {0, 1} /\ g[k] \in Nat
             /\ g[k] = 0 /\ least => f[k] <= line[k]
             /\ g[k] = 0 /\ ~least => line[k] <= f[k]
  <2> DEFINE new == Contribution(r, k, lo, hi, least)
  <2>1. k \in Columns /\ Wider(lo, hi, lo, hi, p, k)
    BY <1>1
  <2>2. f[k] = new.sum /\ g[k] = new.inf /\ line[k] = r.a[k] * p[k] /\ line[k] \in Int
    BY <1>2, <2>1
  <2> HIDE DEF new, f, g, line, T
  <2>3. /\ new.sum \in Int /\ new.inf \in {0, 1}
        /\ new.inf = 0 /\ least => new.sum <= r.a[k] * p[k]
        /\ new.inf = 0 /\ ~least => r.a[k] * p[k] <= new.sum
    BY <2>1, ContributionFacts DEF new, T
  <2>4. QED
    BY <2>2, <2>3
<1> HIDE DEF f, g, line, T
<1>5. \A k \in T : g[k] = 0
  <2>1. ASSUME NEW k \in T
        PROVE  g[k] = 0
    <3>1. \A h \in T : g[h] \in Int /\ g[h] \in Nat
      BY <1>4
    <3>2. Sum(g, T) = g[k] + Sum(g, T \ {k})
      BY <1>1, <3>1, SumSplit
    <3>3. IsFiniteSet(T \ {k})
      BY <1>1, FS_Subset
    <3>4. Sum(g, T \ {k}) \in Nat
      BY <3>1, <3>3, SumNonnegative
    <3>5. QED
      BY <1>3, <3>1, <3>2, <3>4
  <2>2. QED
    BY <2>1
<1>6. \A k \in T : line[k] \in Int /\ f[k] \in Int
  BY <1>1, <1>2, <1>4
<1>7. range.sum \in Int
  BY <1>1, <1>3, <1>6, SumType
<1>8. CASE least
  <2>1. \A k \in T : f[k] \in Int /\ line[k] \in Int /\ f[k] <= line[k]
    BY <1>4, <1>5, <1>6, <1>8
  <2>2. Sum(f, T) <= Sum(line, T)
    BY <1>1, <2>1, SumMonotone
  <2>3. QED
    BY <1>2, <1>3, <1>7, <1>8, <2>2
<1>9. CASE ~least
  <2>1. \A k \in T : line[k] \in Int /\ f[k] \in Int /\ line[k] <= f[k]
    BY <1>4, <1>5, <1>6, <1>9
  <2>2. Sum(line, T) <= Sum(f, T)
    BY <1>1, <2>1, SumMonotone
  <2>3. QED
    BY <1>2, <1>3, <1>7, <1>9, <2>2
<1>10. QED
  BY <1>8, <1>9

\* A row inverted for one column, over the room the rest of the row leaves.
LEMMA BoundSound ==
  ASSUME problem \in Problems, NEW p, IntegerPoint(p), NEW j \in Columns, NEW side \in Int,
         NEW rest, rest.sum \in Int, NEW a \in Int, a # 0,
         NEW room, room = side - rest.sum
  PROVE  /\ Bound(j, side, rest, a, TRUE) \in Int /\ Bound(j, side, rest, a, FALSE) \in Int
         /\ (a > 0 => a * p[j] <= room) /\ (a < 0 => a * p[j] >= room)
              => p[j] <= Bound(j, side, rest, a, TRUE)
         /\ (a > 0 => a * p[j] >= room) /\ (a < 0 => a * p[j] <= room)
              => Bound(j, side, rest, a, FALSE) <= p[j]
<1> DEFINE top == Bound(j, side, rest, a, TRUE)
           bottom == Bound(j, side, rest, a, FALSE)
           fits == (a > 0 => a * p[j] <= room) /\ (a < 0 => a * p[j] >= room)
           clears == (a > 0 => a * p[j] >= room) /\ (a < 0 => a * p[j] <= room)
<1>1. room \in Int /\ p[j] \in Int
  BY DEF IntegerPoint
<1>2. CASE j \in problem.integer
  <2> DEFINE q == p[j] \div 2
             e == 2 * a
  <2>1. q \in Int /\ p[j] = 2 * q
    BY <1>2, WholeUnits
  <2>2. top = 2 * FloorDiv(room, e) /\ bottom = 2 * CeilDiv(room, e)
    BY <1>2 DEF Bound
  <2>3. e \in Int /\ e # 0 /\ (e > 0 <=> a > 0) /\ (e < 0 <=> a < 0)
    OBVIOUS
  <2> HIDE DEF q, top, bottom
  <2>4. e * q = a * p[j]
    BY <2>1
  <2> HIDE DEF e
  <2>5. FloorDiv(room, e) \in Int /\ CeilDiv(room, e) \in Int
    BY <1>1, <2>3, FloorDivType
  <2>6. fits => q <= FloorDiv(room, e)
    BY <1>1, <2>1, <2>3, <2>4, FloorDivSound
  <2>7. clears => CeilDiv(room, e) <= q
    BY <1>1, <2>1, <2>3, <2>4, CeilDivSound
  <2> HIDE DEF fits, clears
  <2>8. /\ top \in Int /\ bottom \in Int
        /\ fits => p[j] <= top
        /\ clears => bottom <= p[j]
    BY <2>1, <2>2, <2>5, <2>6, <2>7
  <2>9. QED
    BY <2>8 DEF top, bottom, fits, clears
<1>3. CASE j \notin problem.integer
  <2>1. top = CeilDiv(room, a) /\ bottom = FloorDiv(room, a)
    BY <1>3 DEF Bound
  <2> HIDE DEF top, bottom
  <2>2. FloorDiv(room, a) \in Int /\ CeilDiv(room, a) \in Int
    BY <1>1, FloorDivType
  <2>3. /\ fits => p[j] <= CeilDiv(room, a)
        /\ clears => FloorDiv(room, a) <= p[j]
    BY <1>1, CeilNotBelow
  <2> HIDE DEF fits, clears
  <2>4. /\ top \in Int /\ bottom \in Int
        /\ fits => p[j] <= top
        /\ clears => bottom <= p[j]
    BY <2>1, <2>2, <2>3
  <2>5. QED
    BY <2>4 DEF top, bottom, fits, clears
<1>4. QED
  BY <1>2, <1>3

LEMMA InvertedSound ==
  ASSUME problem \in Problems, NEW r \in RowType, NEW j \in Terms(r),
         NEW lo0, NEW hi0, NEW lo, NEW hi, NEW p, IntegerPoint(p), Holds(r, p),
         \A k \in Columns : Wider(lo0, hi0, lo, hi, p, k),
         NEW new, new = Inverted(Ranges(r, lo0, hi0), r, j, lo, hi)
  PROVE  /\ new.lo \in Int /\ new.lo <= p[j]
         /\ new.hi \in Int /\ p[j] <= new.hi
<1> DEFINE a == r.a[j]
           range == Ranges(r, lo0, hi0)
           least == Rest(range.min, r, j, lo, hi, TRUE)
           most == Rest(range.max, r, j, lo, hi, FALSE)
           fromHigh == Finite(RowHigh(r)) /\ least.inf = 0
           fromLow == Finite(RowLow(r)) /\ most.inf = 0
           others == Sum(Line(r, p), Terms(r) \ {j})
<1>1. /\ j \in Columns /\ a \in Int /\ a # 0 /\ p \in [Columns -> Int] /\ Inf \in Nat
      /\ p[j] \in Int /\ -Inf < p[j] /\ p[j] < Inf
  <2>1. j \in Columns /\ r.a[j] # 0
    BY DEF Terms
  <2>2. QED
    BY <2>1, RowFacts, BoundFacts DEF IntegerPoint
<1>2. range.min = RangeSide(r, lo0, hi0, TRUE) /\ range.max = RangeSide(r, lo0, hi0, FALSE)
  BY DEF Ranges
<1>3. /\ RowHigh(r) \in Int /\ RowLow(r) \in Int
      /\ Finite(RowHigh(r)) => Activity(r, p) <= RowHigh(r)
      /\ Finite(RowLow(r)) => Activity(r, p) >= RowLow(r)
  BY SideFacts DEF Holds
<1>4. Activity(r, p) = a * p[j] + others /\ others \in Int /\ Activity(r, p) \in Int
      /\ a * p[j] \in Int
  <2>1. /\ \A k \in Columns : Line(r, p)[k] \in Int /\ Line(r, p)[k] = r.a[k] * p[k]
        /\ Activity(r, p) = Sum(Line(r, p), Terms(r)) /\ Activity(r, p) \in Int
    BY <1>1, ActivityFacts
  <2>2. \A k \in Terms(r) : Line(r, p)[k] \in Int
    BY <2>1, RowFacts
  <2>3. Sum(Line(r, p), Terms(r)) = Line(r, p)[j] + others
    BY <2>2, RowFacts, SumSplit
  <2>4. others \in Int
    <3>1. IsFiniteSet(Terms(r) \ {j}) /\ \A k \in Terms(r) \ {j} : Line(r, p)[k] \in Int
      BY <2>2, RowFacts, FS_Subset
    <3>2. QED
      BY <3>1, SumType
  <2>5. Line(r, p)[j] = a * p[j]
    BY <1>1, <2>1
  <2>6. a * p[j] \in Int
    BY <1>1
  <2>7. QED
    BY <2>1, <2>3, <2>4, <2>5, <2>6
<1>5. least.inf = 0 => least.sum \in Int /\ least.sum <= others
  <2>1. TRUE \in BOOLEAN
    OBVIOUS
  <2> HIDE DEF range, others
  <2>2. QED
    BY <1>1, <1>2, <2>1, RestSound DEF others
<1>6. most.inf = 0 => most.sum \in Int /\ others <= most.sum
  <2>1. FALSE \in BOOLEAN
    OBVIOUS
  <2> HIDE DEF range, others
  <2>2. QED
    BY <1>1, <1>2, <2>1, RestSound DEF others
<1>7. new = [lo |-> CASE a > 0 /\ fromLow -> Bound(j, RowLow(r), most, a, FALSE)
                     [] a < 0 /\ fromHigh -> Bound(j, RowHigh(r), least, a, FALSE)
                     [] OTHER -> -Inf,
             hi |-> CASE a > 0 /\ fromHigh -> Bound(j, RowHigh(r), least, a, TRUE)
                     [] a < 0 /\ fromLow -> Bound(j, RowLow(r), most, a, TRUE)
                     [] OTHER -> Inf]
  BY DEF Inverted
<1> HIDE DEF a, least, most, others
<1>8. fromHigh => /\ Bound(j, RowHigh(r), least, a, TRUE) \in Int
                  /\ Bound(j, RowHigh(r), least, a, FALSE) \in Int
                  /\ a > 0 => p[j] <= Bound(j, RowHigh(r), least, a, TRUE)
                  /\ a < 0 => Bound(j, RowHigh(r), least, a, FALSE) <= p[j]
  <2> SUFFICES ASSUME fromHigh
               PROVE  /\ Bound(j, RowHigh(r), least, a, TRUE) \in Int
                      /\ Bound(j, RowHigh(r), least, a, FALSE) \in Int
                      /\ a > 0 => p[j] <= Bound(j, RowHigh(r), least, a, TRUE)
                      /\ a < 0 => Bound(j, RowHigh(r), least, a, FALSE) <= p[j]
    OBVIOUS
  <2> DEFINE room == RowHigh(r) - least.sum
  <2>1. least.sum \in Int /\ room \in Int /\ a * p[j] <= room
    BY <1>3, <1>4, <1>5
  <2>2. /\ a > 0 => ~(a < 0)
        /\ a < 0 => ~(a > 0)
    BY <1>1
  <2> HIDE DEF room
  <2>3. /\ Bound(j, RowHigh(r), least, a, TRUE) \in Int
        /\ Bound(j, RowHigh(r), least, a, FALSE) \in Int
        /\ (a > 0 => a * p[j] <= room) /\ (a < 0 => a * p[j] >= room)
              => p[j] <= Bound(j, RowHigh(r), least, a, TRUE)
        /\ (a > 0 => a * p[j] >= room) /\ (a < 0 => a * p[j] <= room)
              => Bound(j, RowHigh(r), least, a, FALSE) <= p[j]
    BY <1>1, <1>3, <2>1, BoundSound DEF room
  <2>4. QED
    BY <2>1, <2>2, <2>3
<1>9. fromLow => /\ Bound(j, RowLow(r), most, a, TRUE) \in Int
                 /\ Bound(j, RowLow(r), most, a, FALSE) \in Int
                 /\ a > 0 => Bound(j, RowLow(r), most, a, FALSE) <= p[j]
                 /\ a < 0 => p[j] <= Bound(j, RowLow(r), most, a, TRUE)
  <2> SUFFICES ASSUME fromLow
               PROVE  /\ Bound(j, RowLow(r), most, a, TRUE) \in Int
                      /\ Bound(j, RowLow(r), most, a, FALSE) \in Int
                      /\ a > 0 => Bound(j, RowLow(r), most, a, FALSE) <= p[j]
                      /\ a < 0 => p[j] <= Bound(j, RowLow(r), most, a, TRUE)
    OBVIOUS
  <2> DEFINE room == RowLow(r) - most.sum
  <2>1. most.sum \in Int /\ room \in Int /\ a * p[j] >= room
    BY <1>3, <1>4, <1>6
  <2>2. /\ a > 0 => ~(a < 0)
        /\ a < 0 => ~(a > 0)
    BY <1>1
  <2> HIDE DEF room
  <2>3. /\ Bound(j, RowLow(r), most, a, TRUE) \in Int
        /\ Bound(j, RowLow(r), most, a, FALSE) \in Int
        /\ (a > 0 => a * p[j] <= room) /\ (a < 0 => a * p[j] >= room)
              => p[j] <= Bound(j, RowLow(r), most, a, TRUE)
        /\ (a > 0 => a * p[j] >= room) /\ (a < 0 => a * p[j] <= room)
              => Bound(j, RowLow(r), most, a, FALSE) <= p[j]
    BY <1>1, <1>3, <2>1, BoundSound DEF room
  <2>4. QED
    BY <2>1, <2>2, <2>3
<1> DEFINE belowLow == Bound(j, RowLow(r), most, a, FALSE)
           aboveLow == Bound(j, RowLow(r), most, a, TRUE)
           belowHigh == Bound(j, RowHigh(r), least, a, FALSE)
           aboveHigh == Bound(j, RowHigh(r), least, a, TRUE)
<1>10. fromHigh \in BOOLEAN /\ fromLow \in BOOLEAN
  OBVIOUS
<1> HIDE DEF fromHigh, fromLow
<1>11. /\ new.lo = CASE a > 0 /\ fromLow -> belowLow
                      [] a < 0 /\ fromHigh -> belowHigh
                      [] OTHER -> -Inf
       /\ new.hi = CASE a > 0 /\ fromHigh -> aboveHigh
                      [] a < 0 /\ fromLow -> aboveLow
                      [] OTHER -> Inf
  BY <1>7
<1>12. /\ fromHigh => /\ aboveHigh \in Int /\ belowHigh \in Int
                      /\ a > 0 => p[j] <= aboveHigh
                      /\ a < 0 => belowHigh <= p[j]
       /\ fromLow => /\ aboveLow \in Int /\ belowLow \in Int
                     /\ a > 0 => belowLow <= p[j]
                     /\ a < 0 => p[j] <= aboveLow
  BY <1>8, <1>9
<1> HIDE DEF belowLow, aboveLow, belowHigh, aboveHigh
<1>13. -Inf \in Int /\ Inf \in Int /\ -Inf <= p[j] /\ p[j] <= Inf
  BY <1>1
<1>14. CASE a > 0
  <2>1. ~(a < 0)
    BY <1>1, <1>14
  <2>2. CASE fromLow
    <3>1. new.lo = belowLow
      BY <1>11, <1>14, <2>1, <2>2
    <3>2. CASE fromHigh
      <4>1. new.hi = aboveHigh
        BY <1>11, <1>14, <2>1, <3>2
      <4>2. QED
        BY <1>12, <1>14, <2>2, <3>1, <3>2, <4>1
    <3>3. CASE ~fromHigh
      <4>1. new.hi = Inf
        BY <1>11, <1>14, <2>1, <3>3
      <4>2. QED
        BY <1>12, <1>13, <1>14, <2>2, <3>1, <4>1
    <3>4. QED
      BY <3>2, <3>3
  <2>3. CASE ~fromLow
    <3>1. new.lo = -Inf
      BY <1>11, <1>14, <2>1, <2>3
    <3>2. CASE fromHigh
      <4>1. new.hi = aboveHigh
        BY <1>11, <1>14, <2>1, <3>2
      <4>2. QED
        BY <1>12, <1>13, <1>14, <3>1, <3>2, <4>1
    <3>3. CASE ~fromHigh
      <4>1. new.hi = Inf
        BY <1>11, <1>14, <2>1, <3>3
      <4>2. QED
        BY <1>13, <3>1, <4>1
    <3>4. QED
      BY <3>2, <3>3
  <2>4. QED
    BY <2>2, <2>3
<1>15. CASE a < 0
  <2>1. ~(a > 0)
    BY <1>1, <1>15
  <2>2. CASE fromHigh
    <3>1. new.lo = belowHigh
      BY <1>11, <1>15, <2>1, <2>2
    <3>2. CASE fromLow
      <4>1. new.hi = aboveLow
        BY <1>11, <1>15, <2>1, <3>2
      <4>2. QED
        BY <1>12, <1>15, <2>2, <3>1, <3>2, <4>1
    <3>3. CASE ~fromLow
      <4>1. new.hi = Inf
        BY <1>11, <1>15, <2>1, <3>3
      <4>2. QED
        BY <1>12, <1>13, <1>15, <2>2, <3>1, <4>1
    <3>4. QED
      BY <3>2, <3>3
  <2>3. CASE ~fromHigh
    <3>1. new.lo = -Inf
      BY <1>11, <1>15, <2>1, <2>3
    <3>2. CASE fromLow
      <4>1. new.hi = aboveLow
        BY <1>11, <1>15, <2>1, <3>2
      <4>2. QED
        BY <1>12, <1>13, <1>15, <3>1, <3>2, <4>1
    <3>3. CASE ~fromLow
      <4>1. new.hi = Inf
        BY <1>11, <1>15, <2>1, <3>3
      <4>2. QED
        BY <1>13, <3>1, <4>1
    <3>4. QED
      BY <3>2, <3>3
  <2>4. QED
    BY <2>2, <2>3
<1>16. QED
  BY <1>1, <1>14, <1>15

\* What one row leaves of the bounds of a column, point or no point.
Interval == [lo : Int, hi : Int]

LEMMA ContributionType ==
  ASSUME NEW r \in RowType, NEW k \in Columns, NEW lo, NEW hi, lo[k] \in Int, hi[k] \in Int,
         NEW least \in BOOLEAN
  PROVE  Contribution(r, k, lo, hi, least).sum \in Int
<1> DEFINE bound == IF (r.a[k] > 0) = least THEN lo[k] ELSE hi[k]
<1>1. bound \in Int /\ r.a[k] \in Int
  BY RowFacts
<1>2. Contribution(r, k, lo, hi, least) =
        IF Finite(bound) THEN [sum |-> r.a[k] * bound, inf |-> 0] ELSE [sum |-> 0, inf |-> 1]
  BY DEF Contribution
<1> HIDE DEF bound
<1>3. r.a[k] * bound \in Int
  BY <1>1
<1>4. QED
  BY <1>2, <1>3

LEMMA RestType ==
  ASSUME NEW r \in RowType, NEW j \in Columns, NEW lo0 \in [Columns -> Int],
         NEW hi0 \in [Columns -> Int], NEW lo, NEW hi, lo[j] \in Int, hi[j] \in Int,
         NEW least \in BOOLEAN
  PROVE  Rest(RangeSide(r, lo0, hi0, least), r, j, lo, hi, least).sum \in Int
<1> DEFINE f == [k \in Columns |-> Contribution(r, k, lo0, hi0, least).sum]
<1>1. \A k \in Columns : f[k] \in Int
  BY ContributionType
<1>2. RangeSide(r, lo0, hi0, least).sum = Sum(f, Terms(r))
  BY DEF RangeSide
<1> HIDE DEF f
<1>3. Sum(f, Terms(r)) \in Int
  BY <1>1, RowFacts, SumType
<1>4. Contribution(r, j, lo, hi, least).sum \in Int
  BY ContributionType
<1>5. QED
  BY <1>2, <1>3, <1>4 DEF Rest

LEMMA InvertedType ==
  ASSUME problem \in Problems, NEW r \in RowType, NEW j \in Terms(r),
         NEW lo0 \in [Columns -> Int], NEW hi0 \in [Columns -> Int],
         NEW lo, NEW hi, lo[j] \in Int, hi[j] \in Int,
         NEW new, new = Inverted(Ranges(r, lo0, hi0), r, j, lo, hi)
  PROVE  new.lo \in Int /\ new.hi \in Int
<1> DEFINE a == r.a[j]
           range == Ranges(r, lo0, hi0)
           least == Rest(range.min, r, j, lo, hi, TRUE)
           most == Rest(range.max, r, j, lo, hi, FALSE)
           fromHigh == Finite(RowHigh(r)) /\ least.inf = 0
           fromLow == Finite(RowLow(r)) /\ most.inf = 0
<1>1. j \in Columns /\ a \in Int /\ a # 0 /\ Inf \in Nat
  <2>1. j \in Columns /\ r.a[j] # 0
    BY DEF Terms
  <2>2. QED
    BY <2>1, RowFacts, BoundFacts
<1>2. range.min = RangeSide(r, lo0, hi0, TRUE) /\ range.max = RangeSide(r, lo0, hi0, FALSE)
  BY DEF Ranges
<1>3. RowHigh(r) \in Int /\ RowLow(r) \in Int
  BY SideFacts
<1>4. least.sum \in Int /\ most.sum \in Int
  BY <1>1, <1>2, RestType
<1>5. /\ new.lo = CASE a > 0 /\ fromLow -> Bound(j, RowLow(r), most, a, FALSE)
                    [] a < 0 /\ fromHigh -> Bound(j, RowHigh(r), least, a, FALSE)
                    [] OTHER -> -Inf
      /\ new.hi = CASE a > 0 /\ fromHigh -> Bound(j, RowHigh(r), least, a, TRUE)
                    [] a < 0 /\ fromLow -> Bound(j, RowLow(r), most, a, TRUE)
                    [] OTHER -> Inf
  BY DEF Inverted
<1>6. ASSUME NEW side \in Int, NEW rest, rest.sum \in Int, NEW upward \in BOOLEAN
      PROVE  Bound(j, side, rest, a, upward) \in Int
  <2> HIDE DEF a
  <2>1. side - rest.sum \in Int /\ 2 * a \in Int /\ 2 * a # 0
    BY <1>1, <1>6
  <2>2. /\ FloorDiv(side - rest.sum, 2 * a) \in Int /\ CeilDiv(side - rest.sum, 2 * a) \in Int
        /\ FloorDiv(side - rest.sum, a) \in Int /\ CeilDiv(side - rest.sum, a) \in Int
    BY <1>1, <2>1, FloorDivType
  <2>3. QED
    BY <2>2 DEF Bound
<1> DEFINE belowLow == Bound(j, RowLow(r), most, a, FALSE)
           aboveLow == Bound(j, RowLow(r), most, a, TRUE)
           belowHigh == Bound(j, RowHigh(r), least, a, FALSE)
           aboveHigh == Bound(j, RowHigh(r), least, a, TRUE)
<1>7. belowLow \in Int /\ aboveLow \in Int /\ belowHigh \in Int /\ aboveHigh \in Int
  <2> HIDE DEF least, most, a
  <2>1. QED
    BY <1>3, <1>4, <1>6
<1>8. /\ new.lo = CASE a > 0 /\ fromLow -> belowLow
                    [] a < 0 /\ fromHigh -> belowHigh
                    [] OTHER -> -Inf
      /\ new.hi = CASE a > 0 /\ fromHigh -> aboveHigh
                    [] a < 0 /\ fromLow -> aboveLow
                    [] OTHER -> Inf
  BY <1>5
<1> DEFINE A == a > 0
           B == a < 0
<1> HIDE DEF belowLow, aboveLow, belowHigh, aboveHigh, fromHigh, fromLow
<1>9. new.lo \in {belowLow, belowHigh, -Inf}
  BY <1>8
<1>10. new.hi \in {aboveLow, aboveHigh, Inf}
  BY <1>8
<1>11. QED
  BY <1>1, <1>7, <1>9, <1>10

\* A point the box and every row still hold, and the box a round started from.
Obeys(p) == Within(p) /\ \A i \in DOMAIN Rows : Holds(Rows[i], p)
Around(lo0, hi0) ==
    /\ lo0 \in [Columns -> Int] /\ hi0 \in [Columns -> Int]
    /\ \A k \in Columns : lo0[k] <= lower[k] /\ upper[k] <= hi0[k]
Narrower(b, j) ==
    /\ b \in Interval /\ lower[j] <= b.lo /\ b.hi <= upper[j]
    /\ \A p : Obeys(p) => b.lo <= p[j] /\ p[j] <= b.hi

LEMMA TightenedType ==
  ASSUME problem \in Problems, BoxTyped, NEW i \in DOMAIN Rows, NEW j \in Columns,
         NEW lo0, NEW hi0, Around(lo0, hi0), NEW b \in Interval
  PROVE  TightenedBy(i, Ranges(Rows[i], lo0, hi0), j, b) \in Interval
<1> DEFINE r == Rows[i]
           lo == [lower EXCEPT ![j] = b.lo]
           hi == [upper EXCEPT ![j] = b.hi]
           new == Inverted(Ranges(r, lo0, hi0), r, j, lo, hi)
<1>1. r \in RowType /\ b.lo \in Int /\ b.hi \in Int
  BY ProblemFacts DEF Interval
<1>2. CASE b.lo > b.hi \/ r.a[j] = 0
  BY <1>2 DEF TightenedBy
<1>3. CASE ~(b.lo > b.hi \/ r.a[j] = 0)
  <2>1. j \in Terms(r)
    BY <1>3 DEF Terms
  <2>2. lo[j] \in Int /\ hi[j] \in Int
    BY <1>1 DEF BoxTyped
  <2>3. TightenedBy(i, Ranges(r, lo0, hi0), j, b) =
          [lo |-> Greatest(b.lo, new.lo), hi |-> Least(b.hi, new.hi)]
    BY <1>3 DEF TightenedBy
  <2> HIDE DEF lo, hi, r
  <2>4. new.lo \in Int /\ new.hi \in Int
    BY <1>1, <2>1, <2>2, InvertedType DEF Around
  <2> HIDE DEF new
  <2>5. Greatest(b.lo, new.lo) \in Int /\ Least(b.hi, new.hi) \in Int
    BY <1>1, <2>4, BetweenEnds
  <2>6. QED
    BY <2>3, <2>5 DEF Interval, r
<1>4. QED
  BY <1>2, <1>3

LEMMA TightenedSound ==
  ASSUME problem \in Problems, BoxTyped, NEW i \in DOMAIN Rows, NEW j \in Columns,
         NEW lo0, NEW hi0, Around(lo0, hi0), NEW b, Narrower(b, j)
  PROVE  Narrower(TightenedBy(i, Ranges(Rows[i], lo0, hi0), j, b), j)
<1> DEFINE r == Rows[i]
           lo == [lower EXCEPT ![j] = b.lo]
           hi == [upper EXCEPT ![j] = b.hi]
           new == Inverted(Ranges(r, lo0, hi0), r, j, lo, hi)
           tight == TightenedBy(i, Ranges(r, lo0, hi0), j, b)
<1>1. r \in RowType /\ b \in Interval /\ b.lo \in Int /\ b.hi \in Int
  BY ProblemFacts DEF Narrower, Interval
<1>2. CASE b.lo > b.hi \/ r.a[j] = 0
  BY <1>2 DEF TightenedBy
<1>3. CASE ~(b.lo > b.hi \/ r.a[j] = 0)
  <2>1. j \in Terms(r)
    BY <1>3 DEF Terms
  <2>2. /\ lo \in [Columns -> Int] /\ hi \in [Columns -> Int]
        /\ lo[j] = b.lo /\ hi[j] = b.hi
        /\ \A k \in Columns \ {j} : lo[k] = lower[k] /\ hi[k] = upper[k]
    BY <1>1 DEF BoxTyped
  <2>3. tight = [lo |-> Greatest(b.lo, new.lo), hi |-> Least(b.hi, new.hi)]
    BY <1>3 DEF TightenedBy
  <2> HIDE DEF lo, hi, tight
  <2>4. new.lo \in Int /\ new.hi \in Int
    <3> HIDE DEF r
    <3>1. QED
      BY <1>1, <2>1, <2>2, InvertedType DEF Around
  <2>5. ASSUME NEW p, Obeys(p)
        PROVE  new.lo <= p[j] /\ p[j] <= new.hi
    <3>1. IntegerPoint(p) /\ Holds(r, p) /\ InBox(p, lower, upper)
      BY <1>1, <2>5 DEF Obeys, Within
    <3>2. \A k \in Columns : Wider(lo0, hi0, lo, hi, p, k)
      <4>1. ASSUME NEW k \in Columns
            PROVE  Wider(lo0, hi0, lo, hi, p, k)
        <5>1. /\ lo0[k] \in Int /\ hi0[k] \in Int /\ lower[k] \in Int /\ upper[k] \in Int
              /\ lo0[k] <= lower[k] /\ upper[k] <= hi0[k] /\ p[k] \in Int
              /\ lower[k] <= p[k] /\ p[k] <= upper[k] /\ -Inf < p[k] /\ p[k] < Inf
          BY <3>1 DEF BoxTyped, Around, IntegerPoint, InBox
        <5>2. CASE k = j
          <6>1. /\ b.lo <= p[j] /\ p[j] <= b.hi /\ lower[j] <= b.lo /\ b.hi <= upper[j]
                /\ lo[k] = b.lo /\ hi[k] = b.hi
            BY <2>2, <2>5, <5>2 DEF Narrower
          <6>2. QED
            BY <1>1, <5>1, <5>2, <6>1 DEF Wider
        <5>3. CASE k # j
          <6>1. lo[k] = lower[k] /\ hi[k] = upper[k]
            BY <2>2, <5>3
          <6>2. QED
            BY <5>1, <6>1 DEF Wider
        <5>4. QED
          BY <5>2, <5>3
      <4>2. QED
        BY <4>1
    <3> HIDE DEF r
    <3>3. QED
      BY <1>1, <2>1, <3>1, <3>2, InvertedSound
  <2> HIDE DEF new, r
  <2>6. /\ tight.lo = Greatest(b.lo, new.lo) /\ tight.hi = Least(b.hi, new.hi)
        /\ tight.lo \in Int /\ tight.hi \in Int /\ tight \in Interval
        /\ b.lo <= tight.lo /\ tight.hi <= b.hi
    BY <1>1, <2>3, <2>4 DEF Greatest, Least, Interval
  <2>7. lower[j] <= tight.lo /\ tight.hi <= upper[j]
    <3>1. lower[j] \in Int /\ upper[j] \in Int /\ lower[j] <= b.lo /\ b.hi <= upper[j]
      BY DEF BoxTyped, Narrower
    <3>2. QED
      BY <1>1, <2>6, <3>1
  <2>8. ASSUME NEW p, Obeys(p)
        PROVE  tight.lo <= p[j] /\ p[j] <= tight.hi
    <3>1. /\ b.lo <= p[j] /\ p[j] <= b.hi /\ p[j] \in Int
          /\ new.lo <= p[j] /\ p[j] <= new.hi
      BY <2>5, <2>8 DEF Narrower, Obeys, Within, IntegerPoint
    <3>2. QED
      BY <1>1, <2>4, <2>6, <3>1 DEF Greatest, Least
  <2>9. QED
    BY <2>6, <2>7, <2>8 DEF Narrower, tight, r
<1>4. QED
  BY <1>2, <1>3


\* A column through the rows, one after another.
LEMMA TightenColumnSound ==
  ASSUME problem \in Problems, BoxTyped, NEW j \in Columns, NEW lo0, NEW hi0,
         Around(lo0, hi0), NEW ranges,
         \A i \in DOMAIN Rows : ranges[i] = Ranges(Rows[i], lo0, hi0)
  PROVE  Narrower(TightenColumn(j, ranges), j)
<1> DEFINE N == Len(Rows)
           init == [lo |-> lower[j], hi |-> upper[j]]
           Runs(s) == s = [i \in 0 .. N |-> IF i = 0 THEN init
                                            ELSE TightenedBy(i, ranges[i], j, s[i - 1])]
           kept == CHOOSE s : Runs(s)
           step == [n \in 1 .. N |-> [v \in Interval |-> TightenedBy(n, ranges[n], j, v)]]
<1>1. N \in Nat /\ DOMAIN Rows = 1 .. N
  BY ProblemFacts
<1>2. init \in Interval /\ Narrower(init, j)
  <2>1. lower[j] \in Int /\ upper[j] \in Int
    BY DEF BoxTyped
  <2>2. init \in Interval /\ init.lo = lower[j] /\ init.hi = upper[j]
    BY <2>1 DEF Interval
  <2> HIDE DEF init
  <2>3. lower[j] <= init.lo /\ init.hi <= upper[j]
    BY <2>1, <2>2
  <2>4. \A p : Obeys(p) => init.lo <= p[j] /\ p[j] <= init.hi
    BY <2>2 DEF Obeys, Within, InBox
  <2>5. QED
    BY <2>2, <2>3, <2>4 DEF Narrower
<1>3. TightenColumn(j, ranges) = kept[N]
  BY DEF TightenColumn
<1> HIDE DEF init
<1>4. ASSUME NEW n \in 1 .. N, NEW v \in Interval
      PROVE  TightenedBy(n, ranges[n], j, v) \in Interval
  <2>1. n \in DOMAIN Rows /\ ranges[n] = Ranges(Rows[n], lo0, hi0)
    BY <1>1
  <2>2. TightenedBy(n, Ranges(Rows[n], lo0, hi0), j, v) \in Interval
    BY <2>1, TightenedType
  <2>3. QED
    BY <2>1, <2>2
<1>5. ASSUME NEW n \in 1 .. N, NEW v, Narrower(v, j)
      PROVE  Narrower(TightenedBy(n, ranges[n], j, v), j)
  <2>1. n \in DOMAIN Rows /\ ranges[n] = Ranges(Rows[n], lo0, hi0)
    BY <1>1
  <2>2. Narrower(TightenedBy(n, Ranges(Rows[n], lo0, hi0), j, v), j)
    BY <1>5, <2>1, TightenedSound
  <2>3. QED
    BY <2>1, <2>2
<1>6. StepsIn(Interval, step, N)
  BY <1>4 DEF StepsIn
<1>7. PICK f : Steps(f, Interval, init, step, N)
  <2> HIDE DEF step, N
  <2>1. QED
    BY <1>1, <1>2, <1>6, RecursionExists
<1>8. Runs(f)
  <2>1. \A n \in 0 .. N : f[n] = IF n = 0 THEN init
                                 ELSE TightenedBy(n, ranges[n], j, f[n - 1])
    <3>1. ASSUME NEW n \in 0 .. N, n # 0
          PROVE  f[n] = TightenedBy(n, ranges[n], j, f[n - 1])
      <4>1. n \in 1 .. N /\ n - 1 \in 0 .. N
        BY <1>1, <3>1
      <4>2. f[n - 1] \in Interval /\ f[n] = step[n][f[n - 1]]
        BY <1>7, <4>1 DEF Steps
      <4>3. step[n][f[n - 1]] = TightenedBy(n, ranges[n], j, f[n - 1])
        BY <4>1, <4>2
      <4>4. QED
        BY <4>2, <4>3
    <3>2. f[0] = init
      BY <1>7 DEF Steps
    <3>3. QED
      BY <3>1, <3>2
  <2>2. f = [n \in 0 .. N |-> f[n]]
    BY <1>7 DEF Steps
  <2>3. QED
    BY <2>1, <2>2
<1>9. Runs(kept)
  <2> HIDE DEF Runs
  <2>1. QED
    BY <1>8
<1>10. \A n \in 0 .. N : kept[n] = IF n = 0 THEN init
                                   ELSE TightenedBy(n, ranges[n], j, kept[n - 1])
  <2> HIDE DEF kept
  <2>1. QED
    BY <1>9
<1> HIDE DEF kept, N
<1> DEFINE Good == {n \in 0 .. N : Narrower(kept[n], j)}
<1>11. 0 \in Good
  BY <1>1, <1>2, <1>10
<1>12. ASSUME NEW n \in 1 .. N, n - 1 \in Good
       PROVE  n \in Good
  <2>1. n \in 0 .. N /\ n # 0
    BY <1>1
  <2>2. kept[n] = TightenedBy(n, ranges[n], j, kept[n - 1])
    BY <1>10, <2>1
  <2>3. Narrower(kept[n - 1], j)
    BY <1>12
  <2>4. QED
    BY <1>5, <2>1, <2>2, <2>3
<1> HIDE DEF Good
<1>13. \A n \in 0 .. N : n \in Good
  BY <1>1, <1>11, <1>12, UpwardInduction
<1>14. N \in Good
  BY <1>1, <1>13
<1>15. QED
  BY <1>3, <1>14 DEF Good

LEMMA UnreachableSound ==
  ASSUME problem \in Problems, BoxTyped, NEW r \in RowType, Unreachable(r), NEW p, Within(p)
  PROVE  ~Holds(r, p)
<1> SUFFICES ASSUME Holds(r, p)
             PROVE  FALSE
  OBVIOUS
<1> DEFINE most == RangeSide(r, lower, upper, FALSE)
           least == RangeSide(r, lower, upper, TRUE)
<1>1. p \in [Columns -> Int] /\ Activity(r, p) \in Int
  BY ActivityFacts DEF Within, IntegerPoint
<1>2. \A k \in Columns : Wider(lower, upper, lower, upper, p, k)
  <2>1. ASSUME NEW k \in Columns
        PROVE  Wider(lower, upper, lower, upper, p, k)
    <3>1. /\ lower[k] \in Int /\ upper[k] \in Int /\ p[k] \in Int
          /\ lower[k] <= p[k] /\ p[k] <= upper[k] /\ -Inf < p[k] /\ p[k] < Inf
      BY DEF Within, IntegerPoint, InBox, BoxTyped
    <3>2. QED
      BY <3>1 DEF Wider
  <2>2. QED
    BY <2>1
<1>3. /\ RowHigh(r) \in Int /\ RowLow(r) \in Int
      /\ Finite(RowHigh(r)) => Activity(r, p) <= RowHigh(r)
      /\ Finite(RowLow(r)) => Activity(r, p) >= RowLow(r)
  BY SideFacts DEF Holds
<1>4. \/ most.inf = 0 /\ Finite(RowLow(r)) /\ most.sum < RowLow(r)
      \/ least.inf = 0 /\ Finite(RowHigh(r)) /\ least.sum > RowHigh(r)
  BY DEF Unreachable, Ranges
<1>5. TRUE \in BOOLEAN /\ FALSE \in BOOLEAN
  OBVIOUS
<1>6. most.inf = 0 => most.sum \in Int /\ Activity(r, p) <= most.sum
  BY <1>1, <1>2, <1>5, RangeSound
<1>7. least.inf = 0 => least.sum \in Int /\ least.sum <= Activity(r, p)
  BY <1>1, <1>2, <1>5, RangeSound
<1> HIDE DEF most, least
<1>8. QED
  BY <1>1, <1>3, <1>4, <1>6, <1>7


(***************************************************************************)
(* Bounds keep their types where no point is left.                         *)
(***************************************************************************)
LEMMA InequalityType ==
  ASSUME BoxTyped, NEW r \in RowType, InequalityApplies(r), NEW j \in Terms(r)
  PROVE  InequalityBounds(r, j).lo \in Int /\ InequalityBounds(r, j).hi \in Int
<1> DEFINE c == Sign(r) * r.a[j]
           low == [k \in Columns |-> MinTerm(r, k, lower, upper)]
           others == Sum(low, Terms(r) \ {j})
           room == Side(r) - others
           whole == IF c > 0 THEN FloorDiv(room, 2 * c) ELSE CeilDiv(room, 2 * c)
<1>1. /\ Sign(r) \in {1, -1} /\ Side(r) \in Int /\ j \in Columns /\ r.a[j] \in Int
      /\ r.a[j] # 0 /\ Inf \in Nat
  <2>1. OneSided(r) /\ j \in Columns /\ r.a[j] # 0
    BY DEF InequalityApplies, Terms
  <2>2. QED
    BY <2>1, RowFacts, SignFacts, BoundFacts
<1>2. \A k \in Columns : low[k] \in Int
  <2>1. ASSUME NEW k \in Columns
        PROVE  low[k] \in Int
    <3>1. r.a[k] \in Int /\ lower[k] \in Int /\ upper[k] \in Int
      BY RowFacts DEF BoxTyped
    <3>2. Sign(r) * r.a[k] * lower[k] \in Int /\ Sign(r) * r.a[k] * upper[k] \in Int
      BY <1>1, <3>1
    <3>3. low[k] = Least(Sign(r) * r.a[k] * lower[k], Sign(r) * r.a[k] * upper[k])
      BY DEF MinTerm
    <3>4. QED
      BY <3>2, <3>3, BetweenEnds
  <2>2. QED
    BY <2>1
<1> HIDE DEF low
<1>3. others \in Int
  <2>1. IsFiniteSet(Terms(r) \ {j}) /\ Terms(r) \ {j} \subseteq Columns
    BY RowFacts, FS_Subset
  <2>2. QED
    BY <1>2, <2>1, SumType
<1>4. c \in Int /\ c # 0
  BY <1>1
<1>5. InequalityBounds(r, j) =
        [lo |-> IF c < 0 /\ Abs(whole) <= ExactLimit THEN 2 * whole ELSE -Inf,
         hi |-> IF c > 0 /\ Abs(whole) <= ExactLimit THEN 2 * whole ELSE Inf]
  BY DEF InequalityBounds, low
<1> HIDE DEF c, others
<1>6. room \in Int /\ 2 * c \in Int /\ 2 * c # 0
  BY <1>1, <1>3, <1>4
<1> HIDE DEF room
<1>7. FloorDiv(room, 2 * c) \in Int /\ CeilDiv(room, 2 * c) \in Int
  BY <1>6, FloorDivType
<1>8. whole \in Int /\ 2 * whole \in Int
  BY <1>7
<1> HIDE DEF whole
<1>9. InequalityBounds(r, j).lo \in {2 * whole, -Inf} /\ InequalityBounds(r, j).hi \in {2 * whole, Inf}
  BY <1>5
<1>10. QED
  BY <1>1, <1>8, <1>9

LEMMA EqualityType ==
  ASSUME problem \in Problems, BoxTyped, NEW r \in RowType, EqualityApplies(r), NEW j \in Terms(r)
  PROVE  EqualityBounds(r, j).lo \in Int /\ EqualityBounds(r, j).hi \in Int
<1> DEFINE T == Terms(r)
           least == [k \in Columns |-> LeastEnd(r, k)]
           most == [k \in Columns |-> GreatestEnd(r, k)]
           a == r.a[j] \div 2
           b == r.rhs \div 4
           fromMost == b - Rounded(RoundedSum(most) - GreatestEnd(r, j))
           fromLeast == b - Rounded(RoundedSum(least) - LeastEnd(r, j))
<1>1. /\ WithinBudget(r) /\ j \in Columns /\ b \in Int /\ r.a[j] % 2 = 0
      /\ r.a[j] # 0 /\ r.a[j] \in Int
  <2>1. j \in Columns /\ r.a[j] # 0
    BY DEF Terms
  <2>2. WithinBudget(r) /\ r.a[j] % 2 = 0
    BY DEF EqualityApplies, Lattice, ExactInteger
  <2>3. r.a[j] \in Int /\ b \in Int
    BY <2>1, RowFacts
  <2>4. QED
    BY <2>1, <2>2, <2>3
<1>2. /\ Rounded(RoundedSum(least) - LeastEnd(r, j)) = Sum(least, T \ {j})
      /\ Sum(least, T \ {j}) \in Int
  <2>1. /\ LeastEnd(r, j) \in Int /\ LeastEnd(r, j) = least[j]
        /\ \A k \in Columns : /\ least[k] \in Int /\ Abs(least[k]) <= Magnitude(r, k)
                              /\ k \notin T => least[k] = 0
    BY <1>1, EndFacts
  <2> HIDE DEF least
  <2>2. QED
    BY <1>1, <2>1, OthersExact
<1>3. /\ Rounded(RoundedSum(most) - GreatestEnd(r, j)) = Sum(most, T \ {j})
      /\ Sum(most, T \ {j}) \in Int
  <2>1. /\ GreatestEnd(r, j) \in Int /\ GreatestEnd(r, j) = most[j]
        /\ \A k \in Columns : /\ most[k] \in Int /\ Abs(most[k]) <= Magnitude(r, k)
                              /\ k \notin T => most[k] = 0
    BY <1>1, EndFacts
  <2> HIDE DEF most
  <2>2. QED
    BY <1>1, <2>1, OthersExact
<1>4. EqualityBounds(r, j) =
         IF a > 0
         THEN [lo |-> 2 * CeilDiv(fromMost, a), hi |-> 2 * FloorDiv(fromLeast, a)]
         ELSE [lo |-> 2 * CeilDiv(fromLeast, a), hi |-> 2 * FloorDiv(fromMost, a)]
  BY DEF EqualityBounds
<1>5. a \in Int /\ a # 0
  BY <1>1
<1> HIDE DEF least, most, a, b, T
<1>6. fromMost \in Int /\ fromLeast \in Int
  BY <1>1, <1>2, <1>3
<1> HIDE DEF fromMost, fromLeast
<1>7. /\ FloorDiv(fromMost, a) \in Int /\ CeilDiv(fromMost, a) \in Int
      /\ FloorDiv(fromLeast, a) \in Int /\ CeilDiv(fromLeast, a) \in Int
  BY <1>5, <1>6, FloorDivType
<1>8. QED
  BY <1>4, <1>7

LEMMA RoundedRhsType ==
  ASSUME problem \in Problems, NEW i \in DOMAIN Rows, RoundsRhs(i), rhs[i] \in Int
  PROVE  RoundedRhs(i) \in Int
<1> DEFINE d == 4 * Gcd(Rows[i])
<1>1. Rows[i] \in RowType /\ Lattice(Rows[i]) /\ Terms(Rows[i]) # {}
  BY ProblemFacts DEF RoundsRhs
<1>2. d \in Int /\ d # 0
  BY <1>1, GcdFacts
<1>3. RoundedRhs(i) = IF Rows[i].type = "L" THEN d * FloorDiv(rhs[i], d)
                                            ELSE d * CeilDiv(rhs[i], d)
  BY DEF RoundedRhs
<1> HIDE DEF d
<1>4. FloorDiv(rhs[i], d) \in Int /\ CeilDiv(rhs[i], d) \in Int
  BY <1>2, FloorDivType
<1>5. d * FloorDiv(rhs[i], d) \in Int /\ d * CeilDiv(rhs[i], d) \in Int
  BY <1>2, <1>4
<1>6. QED
  BY <1>3, <1>5

\* Rounding the bounds of integer columns inward.
LEMMA InwardSound ==
  ASSUME problem \in Problems, NEW lo \in [Columns -> Int], NEW hi \in [Columns -> Int]
  PROVE  /\ InwardLower(lo) \in [Columns -> Int] /\ InwardUpper(hi) \in [Columns -> Int]
         /\ \A p : IntegerPoint(p) /\ InBox(p, lo, hi) =>
                     InBox(p, InwardLower(lo), InwardUpper(hi))
<1> DEFINE L == InwardLower(lo)
           U == InwardUpper(hi)
<1>1. PICK two \in Int : two = 2
  OBVIOUS
<1>2. \A n \in Int : FloorDiv(n, 2) \in Int /\ CeilDiv(n, 2) \in Int
  BY <1>1, FloorDivType
<1>3. \A j \in Columns : /\ L[j] = IF j \in problem.integer /\ Finite(lo[j])
                                   THEN 2 * CeilDiv(lo[j], 2) ELSE lo[j]
                         /\ U[j] = IF j \in problem.integer /\ Finite(hi[j])
                                   THEN 2 * FloorDiv(hi[j], 2) ELSE hi[j]
  BY DEF InwardLower, InwardUpper
<1>4. L \in [Columns -> Int] /\ U \in [Columns -> Int]
  <2>1. \A n \in Int : 2 * FloorDiv(n, 2) \in Int /\ 2 * CeilDiv(n, 2) \in Int
    BY <1>2
  <2>2. \A j \in Columns : L[j] \in Int /\ U[j] \in Int
    <3> HIDE DEF L, U
    <3>1. QED
      BY <1>3, <2>1
  <2>3. L = [j \in Columns |-> L[j]] /\ U = [j \in Columns |-> U[j]]
    BY DEF InwardLower, InwardUpper
  <2> HIDE DEF L, U
  <2>4. QED
    BY <2>2, <2>3
<1> HIDE DEF L, U
<1>5. ASSUME NEW p, IntegerPoint(p), InBox(p, lo, hi), NEW j \in Columns
      PROVE  L[j] <= p[j] /\ p[j] <= U[j]
  <2>1. lo[j] <= p[j] /\ p[j] <= hi[j] /\ lo[j] \in Int /\ hi[j] \in Int /\ p[j] \in Int
    BY <1>5 DEF InBox, IntegerPoint
  <2>2. CASE j \in problem.integer
    <3> DEFINE q == p[j] \div 2
    <3>1. q \in Int /\ p[j] = 2 * q
      BY <1>5, <2>2, WholeUnits
    <3> HIDE DEF q
    <3>2. CeilDiv(lo[j], 2) \in Int /\ CeilDiv(lo[j], 2) <= q
      <4>1. two * q >= lo[j] /\ two > 0 /\ two # 0 /\ ~(two < 0)
        BY <1>1, <2>1, <3>1
      <4>2. CeilDiv(lo[j], two) \in Int /\ CeilDiv(lo[j], two) <= q
        BY <2>1, <3>1, <4>1, CeilDivSound
      <4>3. QED
        BY <1>1, <4>2
    <3>3. FloorDiv(hi[j], 2) \in Int /\ q <= FloorDiv(hi[j], 2)
      <4>1. two * q <= hi[j] /\ two > 0 /\ two # 0 /\ ~(two < 0)
        BY <1>1, <2>1, <3>1
      <4>2. FloorDiv(hi[j], two) \in Int /\ q <= FloorDiv(hi[j], two)
        BY <2>1, <3>1, <4>1, FloorDivSound
      <4>3. QED
        BY <1>1, <4>2
    <3>4. L[j] \in {2 * CeilDiv(lo[j], 2), lo[j]} /\ U[j] \in {2 * FloorDiv(hi[j], 2), hi[j]}
      BY <1>3
    <3>5. QED
      BY <2>1, <3>1, <3>2, <3>3, <3>4
  <2>3. CASE j \notin problem.integer
    BY <1>3, <2>1, <2>3
  <2>4. QED
    BY <2>2, <2>3
<1>6. QED
  BY <1>4, <1>5 DEF InBox, L, U

\* What either propagator of solve_milp makes of one row.
LEMMA PropagatorSound ==
  ASSUME problem \in Problems, BoxTyped, NEW r \in RowType,
         NEW kind \in {"equality", "inequality"}, Applies(kind, r)
  PROVE  /\ NewLower(kind, r) \in [Columns -> Int] /\ NewUpper(kind, r) \in [Columns -> Int]
         /\ \A p : Within(p) /\ Holds(r, p) => InBox(p, NewLower(kind, r), NewUpper(kind, r))
<1>1. \A j \in Terms(r) : Implied(kind, r, j).lo \in Int /\ Implied(kind, r, j).hi \in Int
  <2>1. ASSUME NEW j \in Terms(r)
        PROVE  Implied(kind, r, j).lo \in Int /\ Implied(kind, r, j).hi \in Int
    <3>1. CASE kind = "equality"
      <4>1. EqualityApplies(r) /\ Implied(kind, r, j) = EqualityBounds(r, j)
        BY <3>1 DEF Applies, Implied
      <4>2. QED
        BY <4>1, EqualityType
    <3>2. CASE kind = "inequality"
      <4>1. InequalityApplies(r) /\ Implied(kind, r, j) = InequalityBounds(r, j)
        BY <3>2 DEF Applies, Implied
      <4>2. QED
        BY <4>1, InequalityType
    <3>3. QED
      BY <3>1, <3>2
  <2>2. QED
    BY <2>1
<1>2. /\ NewLower(kind, r) =
           [j \in Columns |-> IF j \in Terms(r) THEN Greatest(lower[j], Implied(kind, r, j).lo)
                              ELSE lower[j]]
      /\ NewUpper(kind, r) =
           [j \in Columns |-> IF j \in Terms(r) THEN Least(upper[j], Implied(kind, r, j).hi)
                              ELSE upper[j]]
  BY DEF NewLower, NewUpper
<1>3. NewLower(kind, r) \in [Columns -> Int] /\ NewUpper(kind, r) \in [Columns -> Int]
  <2>1. \A j \in Columns : lower[j] \in Int /\ upper[j] \in Int
    BY DEF BoxTyped
  <2>2. \A j \in Terms(r) : /\ Greatest(lower[j], Implied(kind, r, j).lo) \in Int
                            /\ Least(upper[j], Implied(kind, r, j).hi) \in Int
    BY <1>1, <2>1, RowFacts, BetweenEnds
  <2>3. QED
    BY <1>2, <2>1, <2>2
<1>4. ASSUME NEW p, Within(p), Holds(r, p), NEW j \in Columns
      PROVE  NewLower(kind, r)[j] <= p[j] /\ p[j] <= NewUpper(kind, r)[j]
  <2>1. /\ lower[j] <= p[j] /\ p[j] <= upper[j] /\ lower[j] \in Int /\ upper[j] \in Int
        /\ p[j] \in Int
    BY <1>4 DEF Within, IntegerPoint, InBox, BoxTyped
  <2>2. CASE j \in Terms(r)
    <3> DEFINE new == Implied(kind, r, j)
    <3>1. new.lo \in Int /\ new.hi \in Int
      BY <1>1, <2>2
    <3>2. new.lo <= p[j] /\ p[j] <= new.hi
      <4>1. CASE kind = "equality"
        <5>1. EqualityApplies(r) /\ new = EqualityBounds(r, j)
          BY <4>1 DEF Applies, Implied
        <5>2. QED
          BY <1>4, <2>2, <5>1, EqualitySound
      <4>2. CASE kind = "inequality"
        <5>1. InequalityApplies(r) /\ new = InequalityBounds(r, j)
          BY <4>2 DEF Applies, Implied
        <5>2. QED
          BY <1>4, <2>2, <5>1, InequalitySound
      <4>3. QED
        BY <4>1, <4>2
    <3>3. /\ NewLower(kind, r)[j] = Greatest(lower[j], new.lo)
          /\ NewUpper(kind, r)[j] = Least(upper[j], new.hi)
      BY <1>2, <2>2
    <3> HIDE DEF new
    <3>4. QED
      BY <2>1, <3>1, <3>2, <3>3 DEF Greatest, Least
  <2>3. CASE j \notin Terms(r)
    BY <1>2, <2>1, <2>3
  <2>4. QED
    BY <2>2, <2>3
<1>5. QED
  BY <1>3, <1>4 DEF InBox


(***************************************************************************)
(* The inductive invariant of a path through either tree: types, the stage *)
(* each engine is at, cuts separated once, and the ranges of a native      *)
(* round taken over a box that holds the present one.                      *)
(***************************************************************************)
NodeTyped ==
    /\ BoxTyped
    /\ node \in [lower : [Columns -> Int], upper : [Columns -> Int]]
    /\ rhs \in [DOMAIN Rows -> Int] /\ x \in [Columns -> Int]
StepsTyped ==
    /\ stage \in IF solver = "solve_milp"
                 THEN {"enter", "equality", "inequality", "gcd", "rhs", "relax", "separate",
                       "branch", "pruned"}
                 ELSE {"covers", "enter", "round", "columns", "relax", "branch", "pruned"}
    /\ stage \in {"equality", "inequality"} => cursor \in 1 .. Len(Rows) + 1
    /\ stage = "columns" => cursor \in 1 .. Cardinality(Columns) + 1
CutsOnce ==
    /\ solver = "solve_milp" /\ ~separated => cuts = {}
    /\ stage = "separate" => ~separated
    /\ stage = "covers" => cuts = {}
RangesTaken ==
    stage = "columns" =>
        \E lo0, hi0 : /\ Around(lo0, hi0)
                      /\ \A i \in DOMAIN Rows : acts[i] = Ranges(Rows[i], lo0, hi0)
NodeInv ==
    /\ RowsTypeOK /\ NodeTyped /\ StepsTyped /\ CutsOnce /\ RangesTaken
    /\ BoxKeepsNodePoints /\ PruneIsProven /\ RowsKeepEveryPoint /\ CutsKeepEveryPoint

\* No box with crossed bounds holds a point.
LEMMA CrossedEmpty ==
  ASSUME NEW lo \in [Columns -> Int], NEW hi \in [Columns -> Int], NEW p \in [Columns -> Int],
         InBox(p, lo, hi)
  PROVE  ~Crossed(lo, hi)
<1> SUFFICES ASSUME Crossed(lo, hi)
             PROVE  FALSE
  OBVIOUS
<1>1. PICK j \in Columns : lo[j] > hi[j]
  BY DEF Crossed
<1>2. lo[j] <= p[j] /\ p[j] <= hi[j] /\ lo[j] \in Int /\ hi[j] \in Int /\ p[j] \in Int
  BY DEF InBox
<1>3. QED
  BY <1>1, <1>2

\* A point of the node in hand, inside the bounds derived in it.
LEMMA NodePointFacts ==
  ASSUME NodeInv, NEW p \in NodePoints
  PROVE  /\ problem \in Problems /\ p \in Points[problem] /\ IntegerPoint(p)
         /\ p \in [Columns -> Int] /\ InBox(p, node.lower, node.upper)
         /\ \A i \in DOMAIN Rows : Holds(Rows[i], p)
         /\ stage \notin {"enter", "pruned"} => Within(p) /\ Obeys(p)
<1>1. problem \in Problems /\ BoxKeepsNodePoints
  BY DEF NodeInv, RowsTypeOK
<1>2. p \in Points[problem] /\ InBox(p, node.lower, node.upper)
  BY DEF NodePoints
<1>3. IntegerPoint(p) /\ \A i \in DOMAIN Rows : Holds(Rows[i], p)
  BY <1>1, <1>2, PointFacts
<1>4. stage \notin {"enter", "pruned"} => InBox(p, lower, upper)
  BY <1>1 DEF BoxKeepsNodePoints
<1>5. QED
  BY <1>1, <1>2, <1>3, <1>4 DEF Within, Obeys, IntegerPoint

LEMMA NodeFacts ==
  ASSUME NodeInv
  PROVE  /\ problem \in Problems /\ BoxTyped
         /\ node.lower \in [Columns -> Int] /\ node.upper \in [Columns -> Int]
         /\ node = [lower |-> node.lower, upper |-> node.upper]
         /\ rhs \in [DOMAIN Rows -> Int] /\ x \in [Columns -> Int]
         /\ DOMAIN Rows = 1 .. Len(Rows) /\ Len(Rows) \in Nat
         /\ \A i \in DOMAIN Rows : Rows[i] \in RowType
<1>1. problem \in Problems /\ NodeTyped
  BY DEF NodeInv, RowsTypeOK
<1>2. node \in [lower : [Columns -> Int], upper : [Columns -> Int]]
  BY <1>1 DEF NodeTyped
<1>3. /\ node.lower \in [Columns -> Int] /\ node.upper \in [Columns -> Int]
      /\ node = [lower |-> node.lower, upper |-> node.upper]
  BY <1>2
<1>4. QED
  BY <1>1, <1>3, ProblemFacts DEF NodeTyped

\* One column of the native round.
LEMMA ColumnTightened ==
  ASSUME NodeInv, stage = "columns", NEW j \in Columns
  PROVE  /\ Narrower(TightenColumn(j, acts), j)
         /\ TightenColumn(j, acts).lo \in Int /\ TightenColumn(j, acts).hi \in Int
<1>1. problem \in Problems /\ BoxTyped
  BY NodeFacts
<1>2. PICK lo0, hi0 : /\ Around(lo0, hi0)
                      /\ \A i \in DOMAIN Rows : acts[i] = Ranges(Rows[i], lo0, hi0)
  BY DEF NodeInv, RangesTaken
<1>3. Narrower(TightenColumn(j, acts), j)
  BY <1>1, <1>2, TightenColumnSound
<1>4. QED
  BY <1>3 DEF Narrower, Interval

\* Bounds and prunings keep the points of the node.
LEMMA BoxStep ==
  ASSUME NodeInv, NodeNext
  PROVE  BoxKeepsNodePoints' /\ PruneIsProven'
<1> DEFINE Same == problem' = problem /\ node' = node
<1>1. ASSUME Same,
             stage' \notin {"enter", "pruned"} => \A p \in NodePoints : InBox(p, lower', upper'),
             stage' = "pruned" => NodePoints = {}
      PROVE  BoxKeepsNodePoints' /\ PruneIsProven'
  <2>1. NodePoints' = NodePoints
    BY <1>1 DEF NodePoints
  <2>2. QED
    BY <1>1, <2>1 DEF BoxKeepsNodePoints, PruneIsProven, InBox
<1>2. ASSUME Same, lower' = lower, upper' = upper, stage \notin {"enter", "pruned"},
             stage' = "pruned" => NodePoints = {}
      PROVE  BoxKeepsNodePoints' /\ PruneIsProven'
  <2>1. \A p \in NodePoints : InBox(p, lower', upper')
    BY <1>2, NodePointFacts DEF Within
  <2>2. QED
    BY <1>1, <1>2, <2>1
<1>3. CASE EnterNode
  <2> DEFINE lo == InwardLower(node.lower)
             hi == InwardUpper(node.upper)
  <2>1. Same /\ lower' = lo /\ upper' = hi
    BY <1>3 DEF EnterNode, Model
  <2>2. stage' = IF Crossed(lo, hi) THEN "pruned" ELSE "equality"
    BY <1>3 DEF EnterNode
  <2>3. lo \in [Columns -> Int] /\ hi \in [Columns -> Int]
    BY NodeFacts, InwardSound
  <2>4. ASSUME NEW p \in NodePoints
        PROVE  InBox(p, lo, hi)
    BY NodeFacts, NodePointFacts, InwardSound
  <2> HIDE DEF lo, hi
  <2>5. stage' = "pruned" => NodePoints = {}
    <3>1. ASSUME Crossed(lo, hi), NEW p \in NodePoints
          PROVE  FALSE
      BY <2>3, <2>4, <3>1, NodePointFacts, CrossedEmpty
    <3>2. QED
      BY <2>2, <3>1
  <2>6. QED
    BY <1>1, <2>1, <2>4, <2>5
<1>4. ASSUME NEW kind \in {"equality", "inequality"}, PropagateRow(kind)
      PROVE  BoxKeepsNodePoints' /\ PruneIsProven'
  <2> DEFINE r == Rows[cursor]
             lo == IF Applies(kind, r) THEN NewLower(kind, r) ELSE lower
             hi == IF Applies(kind, r) THEN NewUpper(kind, r) ELSE upper
  <2>1. Same /\ stage = kind /\ cursor <= Len(Rows)
    BY <1>4 DEF PropagateRow, Model
  <2>2. IF Crossed(lo, hi) THEN stage' = "pruned" /\ lower' = lower /\ upper' = upper
                           ELSE stage' = stage /\ lower' = lo /\ upper' = hi
    BY <1>4 DEF PropagateRow
  <2>3. cursor \in DOMAIN Rows
    <3>1. cursor \in 1 .. Len(Rows) + 1
      BY <2>1 DEF NodeInv, StepsTyped
    <3>2. QED
      BY <2>1, <3>1, NodeFacts
  <2>4. /\ lo \in [Columns -> Int] /\ hi \in [Columns -> Int]
        /\ \A p : Within(p) /\ Holds(r, p) => InBox(p, lo, hi)
    <3>1. r \in RowType /\ problem \in Problems /\ BoxTyped
      BY <2>3, NodeFacts
    <3> HIDE DEF r
    <3>2. CASE Applies(kind, r)
      <4>1. lo = NewLower(kind, r) /\ hi = NewUpper(kind, r)
        BY <3>2
      <4>2. QED
        BY <3>1, <3>2, <4>1, PropagatorSound
    <3>3. CASE ~Applies(kind, r)
      <4>1. lo = lower /\ hi = upper
        BY <3>3
      <4>2. QED
        BY <3>1, <4>1 DEF Within, BoxTyped
    <3>4. QED
      BY <3>2, <3>3
  <2>5. ASSUME NEW p \in NodePoints
        PROVE  InBox(p, lo, hi) /\ p \in [Columns -> Int]
    <3>1. Within(p) /\ Obeys(p) /\ p \in [Columns -> Int]
      BY <2>1, NodePointFacts
    <3> HIDE DEF lo, hi
    <3>2. QED
      BY <2>3, <2>4, <3>1 DEF Obeys
  <2> HIDE DEF lo, hi
  <2>6. CASE Crossed(lo, hi)
    <3>1. NodePoints = {}
      BY <2>4, <2>5, <2>6, CrossedEmpty
    <3>2. QED
      BY <1>1, <2>1, <2>2, <2>6, <3>1
  <2>7. CASE ~Crossed(lo, hi)
    <3>1. stage' # "pruned"
      BY <2>1, <2>2, <2>7
    <3>2. QED
      BY <1>1, <2>1, <2>2, <2>5, <2>7, <3>1
  <2>8. QED
    BY <2>6, <2>7
<1>5. CASE EndPass("equality", "inequality") \/ EndPass("inequality", "gcd")
  <2>1. /\ Same /\ lower' = lower /\ upper' = upper
        /\ stage \in {"equality", "inequality"} /\ stage' \in {"equality", "inequality", "gcd"}
    BY <1>5 DEF EndPass, Model
  <2>2. QED
    BY <1>2, <2>1
<1>6. CASE GcdCheck
  <2>1. /\ Same /\ lower' = lower /\ upper' = upper /\ stage = "gcd"
        /\ stage' = IF \E i \in DOMAIN Rows : GcdRefutes(Rows[i]) THEN "pruned" ELSE "rhs"
    BY <1>6 DEF GcdCheck, Model
  <2>2. ASSUME NEW i \in DOMAIN Rows, GcdRefutes(Rows[i]), NEW p \in NodePoints
        PROVE  FALSE
    BY <2>2, NodeFacts, NodePointFacts, GcdRefutesSound
  <2>3. QED
    BY <1>2, <2>1, <2>2
<1>7. CASE RoundRhs
  <2>1. Same /\ lower' = lower /\ upper' = upper /\ stage = "rhs" /\ stage' = "relax"
    BY <1>7 DEF RoundRhs, Model
  <2>2. QED
    BY <1>2, <2>1
<1>8. CASE SeparateRoot
  <2>1. /\ Same /\ lower' = lower /\ upper' = upper /\ stage = "separate"
        /\ stage' \in {"enter", "branch"}
    BY <1>8 DEF SeparateRoot, Model
  <2>2. QED
    BY <1>2, <2>1
<1>9. CASE Relax
  <2>1. /\ Same /\ lower' = lower /\ upper' = upper /\ stage = "relax"
        /\ stage' \in {"separate", "branch"}
    BY <1>9 DEF Relax
  <2>2. QED
    BY <1>2, <2>1
<1>10. CASE Branch
  <2>1. stage' = "enter"
    BY <1>10 DEF Branch
  <2>2. QED
    BY <2>1 DEF BoxKeepsNodePoints, PruneIsProven
<1>11. CASE BuildCovers
  <2>1. stage' = "enter"
    BY <1>11 DEF BuildCovers
  <2>2. QED
    BY <2>1 DEF BoxKeepsNodePoints, PruneIsProven
<1>12. CASE ApplyNode
  <2> DEFINE lo == InwardLower(node.lower)
             hi == InwardUpper(node.upper)
  <2>1. Same /\ lower' = lo /\ upper' = hi /\ stage' = "round"
    BY <1>12 DEF ApplyNode, Kept
  <2>2. ASSUME NEW p \in NodePoints
        PROVE  InBox(p, lo, hi)
    BY NodeFacts, NodePointFacts, InwardSound
  <2> HIDE DEF lo, hi
  <2>3. QED
    BY <1>1, <2>1, <2>2
<1>13. CASE StartRound
  <2>1. /\ Same /\ lower' = lower /\ upper' = upper /\ stage = "round"
        /\ stage' = IF Crossed(lower, upper) \/ \E i \in DOMAIN Rows : Unreachable(Rows[i])
                    THEN "pruned" ELSE "columns"
    BY <1>13 DEF StartRound, Kept
  <2>2. ASSUME NEW i \in DOMAIN Rows, Unreachable(Rows[i]), NEW p \in NodePoints
        PROVE  FALSE
    <3>1. Within(p) /\ Obeys(p)
      BY <2>1, NodePointFacts
    <3>2. QED
      BY <2>2, <3>1, NodeFacts, UnreachableSound DEF Obeys
  <2>3. ASSUME Crossed(lower, upper), NEW p \in NodePoints
        PROVE  FALSE
    <3>1. Within(p) /\ p \in [Columns -> Int]
      BY <2>1, NodePointFacts
    <3>2. QED
      BY <2>3, <3>1, NodeFacts, CrossedEmpty DEF Within, BoxTyped
  <2>4. QED
    BY <1>2, <2>1, <2>2, <2>3
<1>14. CASE PropagateColumn
  <2> DEFINE b == TightenColumn(cursor, acts)
  <2>1. /\ Same /\ stage = "columns" /\ cursor \in Columns
        /\ lower' = [lower EXCEPT ![cursor] = b.lo] /\ upper' = [upper EXCEPT ![cursor] = b.hi]
        /\ stage' = IF b.lo > b.hi THEN "pruned" ELSE stage
    BY <1>14 DEF PropagateColumn, Kept
  <2>2. Narrower(b, cursor) /\ b.lo \in Int /\ b.hi \in Int
    BY <2>1, ColumnTightened
  <2> HIDE DEF b
  <2>3. ASSUME NEW p \in NodePoints
        PROVE  /\ b.lo <= p[cursor] /\ p[cursor] <= b.hi /\ p[cursor] \in Int
               /\ InBox(p, lower', upper')
    <3>1. Within(p) /\ Obeys(p) /\ p \in [Columns -> Int]
      BY <2>1, NodePointFacts
    <3>2. b.lo <= p[cursor] /\ p[cursor] <= b.hi
      BY <2>2, <3>1 DEF Narrower
    <3>3. \A k \in Columns : lower[k] <= p[k] /\ p[k] <= upper[k]
      BY <3>1 DEF Within, InBox
    <3>4. BoxTyped
      BY NodeFacts
    <3>5. \A k \in Columns : /\ lower'[k] = IF k = cursor THEN b.lo ELSE lower[k]
                             /\ upper'[k] = IF k = cursor THEN b.hi ELSE upper[k]
      BY <2>1, <3>4 DEF BoxTyped
    <3>6. \A k \in Columns : lower'[k] <= p[k] /\ p[k] <= upper'[k]
      BY <3>2, <3>3, <3>5
    <3>7. QED
      BY <2>1, <3>1, <3>2, <3>6 DEF InBox
  <2>4. b.lo > b.hi => NodePoints = {}
    <3>1. ASSUME b.lo > b.hi, NEW p \in NodePoints
          PROVE  FALSE
      BY <2>2, <2>3, <3>1
    <3>2. QED
      BY <3>1
  <2>5. stage' = "pruned" => NodePoints = {}
    BY <2>1, <2>4
  <2>6. QED
    BY <1>1, <2>1, <2>3, <2>5
<1>15. CASE EndRound
  <2>1. /\ Same /\ lower' = lower /\ upper' = upper /\ stage = "columns"
        /\ stage' \in {"round", "relax"}
    BY <1>15 DEF EndRound, Kept
  <2>2. QED
    BY <1>2, <2>1
<1>16. CASE Finished
  <2>1. vars' = vars
    BY <1>16 DEF Finished
  <2>2. BoxKeepsNodePoints /\ PruneIsProven
    BY DEF NodeInv
  <2>3. QED
    BY <2>1, <2>2 DEF vars, BoxKeepsNodePoints, PruneIsProven, NodePoints, InBox
<1>17. QED
  BY <1>3, <1>4, <1>5, <1>6, <1>7, <1>8, <1>9, <1>10, <1>11, <1>12, <1>13, <1>14, <1>15, <1>16
  DEF NodeNext, RowReasoningNext, NativePropagationNext


\* Right-hand sides rounded in one node hold of every point of the model.
LEMMA RowsStep ==
  ASSUME NodeInv, NodeNext
  PROVE  RowsKeepEveryPoint' /\ (rhs \in [DOMAIN Rows -> Int])'
<1>1. /\ problem \in Problems /\ rhs \in [DOMAIN Rows -> Int]
      /\ \A i \in DOMAIN Rows : Rows[i] \in RowType
  BY NodeFacts
<1>2. RowsKeepEveryPoint
  BY DEF NodeInv
<1>3. CASE RoundRhs
  <2>1. problem' = problem
        /\ rhs' = [i \in DOMAIN Rows |-> IF RoundsRhs(i) THEN RoundedRhs(i) ELSE rhs[i]]
    BY <1>3 DEF RoundRhs, Model
  <2>2. Rows' = Rows
    BY <2>1 DEF Rows
  <2>3. \A i \in DOMAIN Rows : rhs'[i] \in Int
    <3>1. ASSUME NEW i \in DOMAIN Rows
          PROVE  rhs'[i] \in Int
      <4>1. RoundsRhs(i) => RoundedRhs(i) \in Int
        BY <1>1, RoundedRhsType
      <4>2. rhs'[i] = IF RoundsRhs(i) THEN RoundedRhs(i) ELSE rhs[i]
        BY <2>1
      <4>3. QED
        BY <1>1, <4>1, <4>2
    <3>2. QED
      BY <3>1
  <2>4. rhs' \in [DOMAIN Rows -> Int]
    BY <2>1, <2>3
  <2>5. ASSUME NEW p \in Points[problem], NEW i \in DOMAIN Rows
        PROVE  Holds([Rows[i] EXCEPT !.rhs = rhs'[i]], p)
    <3>1. IntegerPoint(p) /\ Holds(Held(i), p) /\ rhs[i] \in Int
      BY <1>1, <1>2, PointFacts DEF RowsKeepEveryPoint
    <3>2. CASE RoundsRhs(i)
      <4>1. Holds([Rows[i] EXCEPT !.rhs = RoundedRhs(i)], p)
        BY <1>1, <3>1, <3>2, RoundedRhsSound
      <4>2. rhs'[i] = RoundedRhs(i)
        BY <2>1, <3>2
      <4>3. QED
        BY <4>1, <4>2
    <3>3. CASE ~RoundsRhs(i)
      <4>1. rhs'[i] = rhs[i]
        BY <2>1, <3>3
      <4>2. QED
        BY <3>1, <4>1 DEF Held
    <3>4. QED
      BY <3>2, <3>3
  <2>6. \A i : Held(i)' = [Rows[i] EXCEPT !.rhs = rhs'[i]]
    BY <2>2 DEF Held
  <2>7. QED
    BY <2>1, <2>2, <2>4, <2>5, <2>6 DEF RowsKeepEveryPoint
<1>4. CASE ~RoundRhs
  <2>1. problem' = problem /\ rhs' = rhs
    <3>1. ASSUME NEW kind \in {"equality", "inequality"}, PropagateRow(kind)
          PROVE  problem' = problem /\ rhs' = rhs
      BY <3>1 DEF PropagateRow, Model
    <3>2. CASE EnterNode \/ GcdCheck \/ SeparateRoot \/ Relax \/ Branch
      BY <3>2 DEF EnterNode, GcdCheck, SeparateRoot, Relax, Branch, Model
    <3>3. CASE EndPass("equality", "inequality") \/ EndPass("inequality", "gcd")
      BY <3>3 DEF EndPass, Model
    <3>4. CASE BuildCovers \/ ApplyNode \/ StartRound \/ PropagateColumn \/ EndRound \/ Finished
      BY <3>4 DEF BuildCovers, ApplyNode, StartRound, PropagateColumn, EndRound, Finished, vars,
                  Kept
    <3>5. QED
      BY <1>4, <3>1, <3>2, <3>3, <3>4 DEF NodeNext, RowReasoningNext, NativePropagationNext
  <2>2. Rows' = Rows
    BY <2>1 DEF Rows
  <2>3. \A i : Held(i)' = Held(i)
    BY <2>1, <2>2 DEF Held
  <2>4. QED
    BY <1>1, <1>2, <2>1, <2>2, <2>3 DEF RowsKeepEveryPoint
<1>5. QED
  BY <1>3, <1>4

\* The cuts of one separator, in a set of cuts from several.
CutLimit(S) ==
    \A f \in {"cover", "rounding", "floor"} : Cardinality({c \in S : c.from = f}) <= MaxCuts

LEMMA LimitOfParts ==
  ASSUME NEW C, NEW R, NEW F, Given(C, "cover"), Given(R, "rounding"), Given(F, "floor")
  PROVE  CutLimit(C \cup R \cup F) /\ \A c \in C \cup R \cup F : CutValid(c)
<1> DEFINE all == C \cup R \cup F
<1>1. /\ \A c \in C : c.from = "cover" /\ CutValid(c)
      /\ \A c \in R : c.from = "rounding" /\ CutValid(c)
      /\ \A c \in F : c.from = "floor" /\ CutValid(c)
      /\ Cardinality(C) <= MaxCuts /\ Cardinality(R) <= MaxCuts /\ Cardinality(F) <= MaxCuts
  BY DEF Given
<1>2. {c \in all : c.from = "cover"} = C
  BY <1>1
<1>3. {c \in all : c.from = "rounding"} = R
  BY <1>1
<1>4. {c \in all : c.from = "floor"} = F
  BY <1>1
<1>5. CutLimit(all)
  <2> HIDE DEF all
  <2>1. QED
    BY <1>1, <1>2, <1>3, <1>4 DEF CutLimit
<1>6. QED
  BY <1>1, <1>5

LEMMA NothingGiven ==
  ASSUME NEW from
  PROVE  Given({}, from)
<1>1. IsFiniteSet({}) /\ Cardinality({}) = 0
  BY FS_EmptySet
<1>2. QED
  BY <1>1, BoundFacts DEF Given

\* Cuts appended in one node hold of every point of the model.
LEMMA CutsStep ==
  ASSUME NodeInv, NodeNext
  PROVE  CutsKeepEveryPoint' /\ CutsOnce' /\ CutLimit(cuts')
<1>1. problem \in Problems /\ x \in [Columns -> Int] /\ CutLimit(cuts) /\ CutsOnce
  BY NodeFacts DEF NodeInv, RowsTypeOK, CutLimit
<1>2. \A c \in cuts : CutValid(c)
  BY DEF NodeInv, CutsKeepEveryPoint, CutValid
<1>3. ASSUME problem' = problem, \A c \in cuts' : CutValid(c)
      PROVE  CutsKeepEveryPoint'
  BY <1>3 DEF CutsKeepEveryPoint, CutValid
<1>4. CASE SeparateRoot
  <2>1. /\ problem' = problem /\ solver' = solver /\ solver = "solve_milp"
        /\ stage = "separate" /\ stage' \in {"enter", "branch"}
        /\ cuts' = cuts \cup SeparatedCuts /\ separated' = TRUE
    BY <1>4 DEF SeparateRoot, Model
  <2>2. cuts = {}
    BY <1>1, <2>1 DEF CutsOnce
  <2>3. PICK R, F : /\ SeparatedCuts = CoverCuts \cup R \cup F
                    /\ Given(CoverCuts, "cover") /\ Given(R, "rounding") /\ Given(F, "floor")
    BY <1>1, SeparatedGiven
  <2>4. cuts' = CoverCuts \cup R \cup F
    BY <2>1, <2>2, <2>3
  <2>5. CutLimit(cuts') /\ \A c \in cuts' : CutValid(c)
    BY <2>3, <2>4, LimitOfParts
  <2>6. CutsOnce'
    BY <2>1 DEF CutsOnce
  <2>7. QED
    BY <1>3, <2>1, <2>5, <2>6
<1>5. CASE BuildCovers
  <2>1. /\ problem' = problem /\ solver' = solver /\ solver = "sk_milp_solve" /\ stage' = "enter"
        /\ separated' = separated
    BY <1>5 DEF BuildCovers
  <2>2. PICK pick : /\ \A i \in CoveredRows : pick[i] \in Covers(Rows[i])
                    /\ cuts' = {CoverCut(pick[i]) : i \in {k \in CoveredRows :
                                  Cardinality({h \in CoveredRows : h < k}) < MaxCuts}}
    BY <1>5 DEF BuildCovers
  <2>3. Given(cuts', "cover") /\ Given({}, "rounding") /\ Given({}, "floor")
    BY <1>1, <2>2, NativeCoversGiven, NothingGiven
  <2>4. cuts' = cuts' \cup {} \cup {}
    OBVIOUS
  <2>5. CutLimit(cuts') /\ \A c \in cuts' : CutValid(c)
    BY <2>3, <2>4, LimitOfParts
  <2>6. CutsOnce'
    BY <2>1 DEF CutsOnce
  <2>7. QED
    BY <1>3, <2>1, <2>5, <2>6
<1>6. CASE ~SeparateRoot /\ ~BuildCovers
  <2>1. /\ problem' = problem /\ cuts' = cuts /\ separated' = separated /\ solver' = solver
        /\ stage' \in {"separate", "covers"} => stage' = stage \/ ~separated
        /\ stage' = "covers" => stage = "covers"
    <3>1. ASSUME NEW kind \in {"equality", "inequality"}, PropagateRow(kind)
          PROVE  /\ problem' = problem /\ cuts' = cuts /\ separated' = separated
                 /\ solver' = solver /\ stage' \notin {"separate", "covers"}
      BY <3>1 DEF PropagateRow, Model
    <3>2. CASE EnterNode \/ GcdCheck \/ RoundRhs
      BY <3>2 DEF EnterNode, GcdCheck, RoundRhs, Model
    <3>3. CASE Relax
      BY <3>3 DEF Relax
    <3>4. CASE Branch
      BY <3>4 DEF Branch
    <3>5. CASE EndPass("equality", "inequality") \/ EndPass("inequality", "gcd")
      BY <3>5 DEF EndPass, Model
    <3>6. CASE ApplyNode \/ StartRound \/ PropagateColumn \/ EndRound
      BY <3>6 DEF ApplyNode, StartRound, PropagateColumn, EndRound, Kept
    <3>7. CASE Finished
      BY <3>7 DEF Finished, vars
    <3>8. QED
      BY <1>6, <3>1, <3>2, <3>3, <3>4, <3>5, <3>6, <3>7
      DEF NodeNext, RowReasoningNext, NativePropagationNext
  <2>2. CutsOnce'
    BY <1>1, <2>1 DEF CutsOnce
  <2>3. QED
    BY <1>1, <1>2, <1>3, <2>1, <2>2
<1>7. QED
  BY <1>4, <1>5, <1>6


\* The counters of the propagators, and the stage.
LoopsTyped ==
    /\ problem \in Problems
    /\ solver \in {"solve_milp", "sk_milp_solve"}
    /\ depth \in 0 .. MaxDepth /\ pass \in 0 .. Greatest(8, MaxRounds)
    /\ changed \in BOOLEAN /\ separated \in BOOLEAN
    /\ cursor \in 1 .. Len(Rows) + Cardinality(Columns) + 1

LEMMA LoopBounds ==
  /\ Greatest(8, MaxRounds) \in Nat /\ 8 <= Greatest(8, MaxRounds)
  /\ MaxRounds <= Greatest(8, MaxRounds)
  /\ Cardinality(Columns) \in Nat /\ Columns = 1 .. Cardinality(Columns)
BY BoundFacts, ColumnFacts DEF Greatest

LEMMA PassLimitFacts ==
  ASSUME NodeInv, NEW kind
  PROVE  PassLimit(kind) \in Int /\ PassLimit(kind) <= 8
<1>1. Len(Rows) \in Nat
  BY NodeFacts
<1>2. CASE kind = "equality"
  BY <1>1, <1>2 DEF PassLimit, Greatest, Least
<1>3. CASE kind # "equality"
  BY <1>1, <1>3 DEF PassLimit, Greatest, Least
<1>4. QED
  BY <1>2, <1>3

LEMMA LoopsStep ==
  ASSUME NodeInv, NodeNext
  PROVE  LoopsTyped' /\ StepsTyped'
<1> DEFINE top == Greatest(8, MaxRounds)
           last == Len(Rows) + Cardinality(Columns) + 1
<1>1. LoopsTyped /\ StepsTyped
  BY DEF NodeInv, RowsTypeOK, LoopsTyped
<1>2. /\ solver \in {"solve_milp", "sk_milp_solve"} /\ depth \in 0 .. MaxDepth
      /\ pass \in 0 .. top /\ changed \in BOOLEAN /\ separated \in BOOLEAN
      /\ cursor \in 1 .. last /\ problem \in Problems
  BY <1>1 DEF LoopsTyped
<1>3. /\ top \in Nat /\ 8 <= top /\ MaxRounds <= top /\ MaxRounds \in Nat /\ MaxDepth \in Nat
      /\ Cardinality(Columns) \in Nat /\ Columns = 1 .. Cardinality(Columns)
      /\ Len(Rows) \in Nat /\ last \in Nat /\ 1 \in 0 .. top /\ 1 \in 1 .. last
  BY NodeFacts, LoopBounds, BoundFacts
<1> HIDE DEF top
<1>4. ASSUME problem' = problem, solver' = solver, depth' \in 0 .. MaxDepth,
             pass' \in 0 .. top, changed' \in BOOLEAN, separated' \in BOOLEAN,
             cursor' \in 1 .. last
      PROVE  LoopsTyped'
  <2>1. Rows' = Rows
    BY <1>4 DEF Rows
  <2>2. QED
    BY <1>2, <1>4, <2>1 DEF LoopsTyped, top
<1> HIDE DEF last
<1>5. ASSUME problem' = problem, solver' = solver, solver = "solve_milp",
             stage' \in {"enter", "gcd", "rhs", "relax", "separate", "branch", "pruned"}
      PROVE  StepsTyped'
  BY <1>5 DEF StepsTyped
<1>6. ASSUME problem' = problem, solver' = solver, solver = "solve_milp",
             stage' \in {"equality", "inequality"}, cursor' \in 1 .. Len(Rows) + 1
      PROVE  StepsTyped'
  <2>1. Rows' = Rows
    BY <1>6 DEF Rows
  <2>2. QED
    BY <1>6, <2>1 DEF StepsTyped
<1>7. ASSUME problem' = problem, solver' = solver, solver = "sk_milp_solve",
             stage' \in {"enter", "round", "relax", "branch", "pruned"}
      PROVE  StepsTyped'
  BY <1>7 DEF StepsTyped
<1>8. ASSUME problem' = problem, solver' = solver, solver = "sk_milp_solve",
             stage' = "columns", cursor' \in 1 .. Cardinality(Columns) + 1
      PROVE  StepsTyped'
  BY <1>8 DEF StepsTyped
<1>9. 1 \in 1 .. Len(Rows) + 1 /\ 1 \in 1 .. Cardinality(Columns) + 1
  BY <1>3
<1>10. CASE EnterNode
  <2>1. /\ problem' = problem /\ solver' = solver /\ depth' = depth /\ separated' = separated
        /\ solver = "solve_milp" /\ cursor' = 1 /\ pass' = 1 /\ changed' = FALSE
        /\ stage' \in {"pruned", "equality"}
    BY <1>10 DEF EnterNode, Model
  <2>2. LoopsTyped'
    BY <1>2, <1>3, <1>4, <2>1
  <2>3. StepsTyped'
    BY <1>5, <1>6, <1>9, <2>1
  <2>4. QED
    BY <2>2, <2>3
<1>11. ASSUME NEW kind \in {"equality", "inequality"}, PropagateRow(kind)
       PROVE  LoopsTyped' /\ StepsTyped'
  <2>1. /\ problem' = problem /\ solver' = solver /\ depth' = depth /\ separated' = separated
        /\ solver = "solve_milp" /\ stage = kind /\ cursor <= Len(Rows)
    BY <1>11 DEF PropagateRow, Model
  <2>2. cursor \in 1 .. Len(Rows) + 1
    BY <1>1, <2>1 DEF StepsTyped
  <2>3. \/ stage' = "pruned" /\ cursor' = cursor /\ pass' = pass /\ changed' = changed
        \/ stage' = stage /\ cursor' = cursor + 1 /\ pass' = pass /\ changed' \in BOOLEAN
    BY <1>2, <1>11 DEF PropagateRow, Loops
  <2>4. cursor + 1 \in 1 .. last /\ cursor + 1 \in 1 .. Len(Rows) + 1
    BY <1>3, <2>1, <2>2 DEF last
  <2>5. LoopsTyped'
    BY <1>2, <1>4, <2>1, <2>3, <2>4
  <2>6. StepsTyped'
    BY <1>5, <1>6, <2>1, <2>3, <2>4
  <2>7. QED
    BY <2>5, <2>6
<1>12. ASSUME NEW kind \in {"equality", "inequality"}, NEW next \in {"inequality", "gcd"},
              EndPass(kind, next)
       PROVE  LoopsTyped' /\ StepsTyped'
  <2>1. /\ problem' = problem /\ solver' = solver /\ depth' = depth /\ separated' = separated
        /\ solver = "solve_milp" /\ stage = kind /\ cursor' = 1 /\ changed' = FALSE
    BY <1>12 DEF EndPass, Model
  <2>2. \/ pass < PassLimit(kind) /\ pass' = pass + 1 /\ stage' = stage
        \/ pass' = 1 /\ stage' = next
    BY <1>12 DEF EndPass, AnotherPass
  <2>3. PassLimit(kind) \in Int /\ PassLimit(kind) <= 8
    BY PassLimitFacts
  <2>4. pass' \in 0 .. top
    BY <1>2, <1>3, <2>2, <2>3
  <2>5. LoopsTyped'
    BY <1>2, <1>3, <1>4, <2>1, <2>4
  <2>6. StepsTyped'
    BY <1>5, <1>6, <1>9, <2>1, <2>2
  <2>7. QED
    BY <2>5, <2>6
<1>13. CASE GcdCheck \/ RoundRhs
  <2>1. /\ problem' = problem /\ solver' = solver /\ depth' = depth /\ separated' = separated
        /\ solver = "solve_milp" /\ cursor' = cursor /\ pass' = pass /\ changed' = changed
        /\ stage' \in {"pruned", "rhs", "relax"}
    BY <1>13 DEF GcdCheck, RoundRhs, Model, Loops
  <2>2. QED
    BY <1>2, <1>4, <1>5, <2>1
<1>14. CASE SeparateRoot
  <2>1. /\ problem' = problem /\ solver' = solver /\ depth' = depth /\ separated' = TRUE
        /\ solver = "solve_milp" /\ cursor' = cursor /\ pass' = pass /\ changed' = changed
        /\ stage' \in {"enter", "branch"}
    BY <1>14 DEF SeparateRoot, Model, Loops
  <2>2. QED
    BY <1>2, <1>4, <1>5, <2>1
<1>15. CASE Relax
  <2>1. /\ problem' = problem /\ solver' = solver /\ depth' = depth /\ separated' = separated
        /\ cursor' = cursor /\ pass' = pass /\ changed' = changed
        /\ stage' \in {"separate", "branch"}
        /\ stage' = "separate" => solver = "solve_milp"
    BY <1>15 DEF Relax
  <2>2. LoopsTyped'
    BY <1>2, <1>4, <2>1
  <2>3. StepsTyped'
    <3>1. CASE solver = "solve_milp"
      BY <1>5, <2>1, <3>1
    <3>2. CASE solver = "sk_milp_solve"
      <4>1. stage' = "branch"
        BY <2>1, <3>2
      <4>2. QED
        BY <1>7, <2>1, <3>2, <4>1
    <3>3. QED
      BY <1>2, <3>1, <3>2
  <2>4. QED
    BY <2>2, <2>3
<1>16. CASE Branch
  <2>1. /\ problem' = problem /\ solver' = solver /\ depth' = depth + 1 /\ separated' = separated
        /\ cursor' = cursor /\ pass' = pass /\ changed' = changed
        /\ stage' = "enter" /\ depth < MaxDepth
    BY <1>16 DEF Branch
  <2>2. depth' \in 0 .. MaxDepth
    BY <1>2, <1>3, <2>1
  <2>3. QED
    BY <1>2, <1>4, <1>5, <1>7, <2>1, <2>2
<1>17. CASE BuildCovers
  <2>1. /\ problem' = problem /\ solver' = solver /\ depth' = depth /\ separated' = separated
        /\ cursor' = cursor /\ pass' = pass /\ changed' = changed
        /\ stage' = "enter" /\ solver = "sk_milp_solve"
    BY <1>17 DEF BuildCovers
  <2>2. QED
    BY <1>2, <1>4, <1>7, <2>1
<1>18. CASE ApplyNode
  <2>1. /\ problem' = problem /\ solver' = solver /\ depth' = depth /\ separated' = separated
        /\ cursor' = 1 /\ pass' = 1 /\ changed' = FALSE
        /\ stage' = "round" /\ solver = "sk_milp_solve"
    BY <1>18 DEF ApplyNode, Kept
  <2>2. QED
    BY <1>2, <1>3, <1>4, <1>7, <2>1
<1>19. CASE StartRound
  <2>1. /\ problem' = problem /\ solver' = solver /\ depth' = depth /\ separated' = separated
        /\ cursor' = 1 /\ pass' = pass /\ changed' = FALSE
        /\ stage' \in {"pruned", "columns"} /\ solver = "sk_milp_solve"
    BY <1>19 DEF StartRound, Kept
  <2>2. QED
    BY <1>2, <1>3, <1>4, <1>7, <1>8, <1>9, <2>1
<1>20. CASE PropagateColumn
  <2>1. /\ problem' = problem /\ solver' = solver /\ depth' = depth /\ separated' = separated
        /\ cursor' = cursor + 1 /\ pass' = pass /\ cursor \in Columns
        /\ stage' \in {"pruned", "columns"} /\ solver = "sk_milp_solve"
    BY <1>20 DEF PropagateColumn, Kept
  <2>2. changed' \in BOOLEAN
    BY <1>2, <1>20 DEF PropagateColumn
  <2>3. cursor + 1 \in 1 .. last /\ cursor + 1 \in 1 .. Cardinality(Columns) + 1
    BY <1>3, <2>1 DEF last
  <2>4. QED
    BY <1>2, <1>4, <1>7, <1>8, <2>1, <2>2, <2>3
<1>21. CASE EndRound
  <2>1. /\ problem' = problem /\ solver' = solver /\ depth' = depth /\ separated' = separated
        /\ cursor' = cursor /\ changed' = changed
        /\ stage' \in {"round", "relax"} /\ solver = "sk_milp_solve"
        /\ (pass' = pass + 1 /\ pass < MaxRounds) \/ pass' = pass
    BY <1>21 DEF EndRound, Kept, AnotherRound
  <2>2. pass' \in 0 .. top
    BY <1>2, <1>3, <2>1
  <2>3. QED
    BY <1>2, <1>4, <1>7, <2>1, <2>2
<1>22. CASE Finished
  <2>1. vars' = vars
    BY <1>22 DEF Finished
  <2>2. QED
    BY <1>1, <2>1 DEF vars, LoopsTyped, StepsTyped, Rows
<1>23. QED
  BY <1>10, <1>11, <1>12, <1>13, <1>14, <1>15, <1>16, <1>17, <1>18, <1>19, <1>20, <1>21, <1>22
  DEF NodeNext, RowReasoningNext, NativePropagationNext


\* Boxes, branchings and relaxed points keep their types.
LEMMA TypesStep ==
  ASSUME NodeInv, NodeNext
  PROVE  /\ BoxTyped' /\ (node \in [lower : [Columns -> Int], upper : [Columns -> Int]])'
         /\ (x \in [Columns -> Int])'
<1> DEFINE Node == node \in [lower : [Columns -> Int], upper : [Columns -> Int]]
           Goal == BoxTyped' /\ Node' /\ (x \in [Columns -> Int])'
<1>1. /\ problem \in Problems /\ BoxTyped /\ Node /\ x \in [Columns -> Int]
      /\ lower \in [Columns -> Int] /\ upper \in [Columns -> Int]
      /\ node.lower \in [Columns -> Int] /\ node.upper \in [Columns -> Int]
      /\ node = [lower |-> node.lower, upper |-> node.upper]
  BY NodeFacts DEF BoxTyped
<1>2. ASSUME lower' \in [Columns -> Int], upper' \in [Columns -> Int], node' = node, x' = x
      PROVE  Goal
  BY <1>1, <1>2 DEF BoxTyped
<1>3. CASE EnterNode \/ ApplyNode
  <2>1. /\ lower' = InwardLower(node.lower) /\ upper' = InwardUpper(node.upper)
        /\ node' = node /\ x' = x
    BY <1>3 DEF EnterNode, ApplyNode, Kept
  <2>2. /\ InwardLower(node.lower) \in [Columns -> Int]
        /\ InwardUpper(node.upper) \in [Columns -> Int]
    BY <1>1, InwardSound
  <2>3. QED
    BY <1>2, <2>1, <2>2
<1>4. ASSUME NEW kind \in {"equality", "inequality"}, PropagateRow(kind)
      PROVE  Goal
  <2> DEFINE r == Rows[cursor]
  <2>1. /\ node' = node /\ x' = x /\ stage = kind /\ cursor <= Len(Rows)
        /\ lower' \in {lower, IF Applies(kind, r) THEN NewLower(kind, r) ELSE lower}
        /\ upper' \in {upper, IF Applies(kind, r) THEN NewUpper(kind, r) ELSE upper}
    BY <1>4 DEF PropagateRow
  <2>2. cursor \in DOMAIN Rows
    <3>1. cursor \in 1 .. Len(Rows) + 1
      BY <2>1 DEF NodeInv, StepsTyped
    <3>2. QED
      BY <2>1, <3>1, NodeFacts
  <2>3. r \in RowType
    BY <2>2, NodeFacts
  <2> HIDE DEF r
  <2>4. Applies(kind, r) => /\ NewLower(kind, r) \in [Columns -> Int]
                            /\ NewUpper(kind, r) \in [Columns -> Int]
    BY <1>1, <2>3, PropagatorSound
  <2>5. lower' \in [Columns -> Int] /\ upper' \in [Columns -> Int]
    BY <1>1, <2>1, <2>4
  <2>6. QED
    BY <1>2, <2>1, <2>5
<1>5. CASE \/ EndPass("equality", "inequality") \/ EndPass("inequality", "gcd")
           \/ GcdCheck \/ RoundRhs \/ SeparateRoot
           \/ BuildCovers \/ StartRound \/ EndRound \/ Finished
  <2>1. lower' = lower /\ upper' = upper /\ node' = node /\ x' = x
    BY <1>5 DEF EndPass, GcdCheck, RoundRhs, SeparateRoot, BuildCovers, StartRound, EndRound,
                Finished, vars, Kept
  <2>2. QED
    BY <1>1, <1>2, <2>1
<1>6. CASE PropagateColumn
  <2> DEFINE b == TightenColumn(cursor, acts)
  <2>1. /\ stage = "columns" /\ cursor \in Columns /\ node' = node /\ x' = x
        /\ lower' = [lower EXCEPT ![cursor] = b.lo] /\ upper' = [upper EXCEPT ![cursor] = b.hi]
    BY <1>6 DEF PropagateColumn, Kept
  <2>2. b.lo \in Int /\ b.hi \in Int
    BY <2>1, ColumnTightened
  <2> HIDE DEF b
  <2>3. lower' \in [Columns -> Int] /\ upper' \in [Columns -> Int]
    BY <1>1, <2>1, <2>2
  <2>4. QED
    BY <1>2, <2>1, <2>3
<1>7. CASE Relax
  <2>1. lower' = lower /\ upper' = upper /\ node' = node /\ x' \in Relaxed
    BY <1>7 DEF Relax
  <2>2. x' \in [Columns -> -Horizon .. Horizon]
    BY <2>1 DEF Relaxed, Grid
  <2>3. x' \in [Columns -> Int]
    BY <2>2, BoundFacts
  <2>4. QED
    BY <1>1, <2>1, <2>3 DEF BoxTyped
<1>8. CASE Branch
  <2>1. /\ lower' = lower /\ upper' = upper /\ x' = x
        /\ \E j \in Fractional : node' \in {Down(j), Up(j)}
    BY <1>8 DEF Branch
  <2>2. PICK j \in Fractional : node' \in {Down(j), Up(j)}
    BY <2>1
  <2>3. j \in Columns /\ x[j] - 1 \in Int /\ x[j] + 1 \in Int
        /\ node.upper[j] \in Int /\ node.lower[j] \in Int
    BY <1>1, ProblemFacts DEF Fractional
  <2>4. Least(node.upper[j], x[j] - 1) \in Int /\ Greatest(node.lower[j], x[j] + 1) \in Int
    BY <2>3, BetweenEnds
  <2>5. Down(j) \in [lower : [Columns -> Int], upper : [Columns -> Int]]
    BY <1>1, <2>3, <2>4 DEF Down
  <2>6. Up(j) \in [lower : [Columns -> Int], upper : [Columns -> Int]]
    BY <1>1, <2>3, <2>4 DEF Up
  <2>7. QED
    BY <1>1, <2>1, <2>2, <2>5, <2>6 DEF BoxTyped
<1>9. QED
  BY <1>3, <1>4, <1>5, <1>6, <1>7, <1>8 DEF NodeNext, RowReasoningNext, NativePropagationNext

\* The box a native round took its ranges over holds every later box of it.
LEMMA RangesStep ==
  ASSUME NodeInv, NodeNext
  PROVE  RangesTaken'
<1>1. BoxTyped /\ RangesTaken /\ lower \in [Columns -> Int] /\ upper \in [Columns -> Int]
  BY NodeFacts DEF NodeInv, BoxTyped
<1>2. ASSUME stage' # "columns"
      PROVE  RangesTaken'
  BY <1>2 DEF RangesTaken
<1>3. CASE StartRound
  <2>1. /\ problem' = problem /\ lower' = lower /\ upper' = upper
        /\ acts' = [i \in DOMAIN Rows |-> Ranges(Rows[i], lower, upper)]
    BY <1>3 DEF StartRound, Kept
  <2>2. PICK lo0, hi0 : lo0 = lower /\ hi0 = upper
    OBVIOUS
  <2>3. Rows' = Rows
    BY <2>1 DEF Rows
  <2>4. \A k \in Columns : lo0[k] <= lower'[k] /\ upper'[k] <= hi0[k]
    BY <1>1, <2>1, <2>2
  <2>5. Around(lo0, hi0)'
    BY <1>1, <2>2, <2>4 DEF Around
  <2>6. \A i \in DOMAIN Rows' : acts'[i] = Ranges(Rows'[i], lo0, hi0)
    BY <2>1, <2>2, <2>3
  <2>7. QED
    BY <2>5, <2>6 DEF RangesTaken
<1>4. CASE PropagateColumn
  <2> DEFINE b == TightenColumn(cursor, acts)
  <2>1. /\ problem' = problem /\ acts' = acts /\ stage = "columns" /\ cursor \in Columns
        /\ lower' = [lower EXCEPT ![cursor] = b.lo] /\ upper' = [upper EXCEPT ![cursor] = b.hi]
    BY <1>4 DEF PropagateColumn, Kept
  <2>2. /\ b.lo \in Int /\ b.hi \in Int
        /\ lower[cursor] <= b.lo /\ b.hi <= upper[cursor]
    BY <2>1, ColumnTightened DEF Narrower
  <2> HIDE DEF b
  <2>3. PICK lo0, hi0 : /\ Around(lo0, hi0)
                        /\ \A i \in DOMAIN Rows : acts[i] = Ranges(Rows[i], lo0, hi0)
    BY <1>1, <2>1 DEF RangesTaken
  <2>4. Rows' = Rows
    BY <2>1 DEF Rows
  <2>5. \A k \in Columns : lo0[k] <= lower'[k] /\ upper'[k] <= hi0[k]
    <3>1. ASSUME NEW k \in Columns
          PROVE  lo0[k] <= lower'[k] /\ upper'[k] <= hi0[k]
      <4>1. /\ lo0[k] \in Int /\ hi0[k] \in Int /\ lower[k] \in Int /\ upper[k] \in Int
            /\ lo0[k] <= lower[k] /\ upper[k] <= hi0[k]
        BY <1>1, <2>3 DEF Around
      <4>2. /\ lower'[k] = IF k = cursor THEN b.lo ELSE lower[k]
            /\ upper'[k] = IF k = cursor THEN b.hi ELSE upper[k]
        BY <1>1, <2>1
      <4>3. CASE k = cursor
        <5>1. lower'[k] = b.lo /\ upper'[k] = b.hi /\ lower[k] <= b.lo /\ b.hi <= upper[k]
          BY <2>2, <4>2, <4>3
        <5>2. QED
          BY <2>2, <4>1, <5>1
      <4>4. CASE k # cursor
        BY <4>1, <4>2, <4>4
      <4>5. QED
        BY <4>3, <4>4
    <3>2. QED
      BY <3>1
  <2>6. Around(lo0, hi0)'
    BY <2>3, <2>5 DEF Around
  <2>7. \A i \in DOMAIN Rows' : acts'[i] = Ranges(Rows'[i], lo0, hi0)
    BY <2>1, <2>3, <2>4
  <2>8. QED
    BY <2>6, <2>7 DEF RangesTaken
<1>5. CASE EnterNode \/ GcdCheck \/ RoundRhs \/ SeparateRoot \/ Relax \/ Branch
           \/ BuildCovers \/ ApplyNode \/ EndRound
  <2>1. stage' # "columns"
    BY <1>5 DEF EnterNode, GcdCheck, RoundRhs, SeparateRoot, Relax, Branch, BuildCovers,
                ApplyNode, EndRound
  <2>2. QED
    BY <1>2, <2>1
<1>6. CASE EndPass("equality", "inequality") \/ EndPass("inequality", "gcd")
  <2>1. stage' # "columns"
    BY <1>6 DEF EndPass
  <2>2. QED
    BY <1>2, <2>1
<1>7. ASSUME NEW kind \in {"equality", "inequality"}, PropagateRow(kind)
      PROVE  RangesTaken'
  <2>1. stage' # "columns"
    BY <1>7 DEF PropagateRow
  <2>2. QED
    BY <1>2, <2>1
<1>8. CASE Finished
  <2>1. vars' = vars
    BY <1>8 DEF Finished
  <2>2. QED
    BY <1>1, <2>1 DEF vars, RangesTaken, Around, Rows
<1>9. QED
  BY <1>3, <1>4, <1>5, <1>6, <1>7, <1>8 DEF NodeNext, RowReasoningNext, NativePropagationNext

\* The root of either search.
LEMMA NodeInitial ==
  ASSUME NodeInit
  PROVE  NodeInv
<1>1. /\ problem \in Problems /\ solver \in {"solve_milp", "sk_milp_solve"}
      /\ stage = IF solver = "solve_milp" THEN "enter" ELSE "covers"
      /\ depth = 0 /\ node = [lower |-> problem.lower, upper |-> problem.upper]
      /\ lower = node.lower /\ upper = node.upper
      /\ rhs = [i \in DOMAIN Rows |-> Rows[i].rhs]
      /\ cuts = {} /\ separated = FALSE /\ cursor = 1 /\ pass = 1 /\ changed = FALSE
      /\ x = [j \in Columns |-> 0]
  BY DEF NodeInit
<1>2. /\ problem.lower \in [Columns -> Int] /\ problem.upper \in [Columns -> Int]
      /\ Len(Rows) \in Nat /\ \A i \in DOMAIN Rows : Rows[i] \in RowType
  BY <1>1, ProblemFacts
<1>3. lower = problem.lower /\ upper = problem.upper
  BY <1>1
<1>4. NodeTyped
  <2>1. \A i \in DOMAIN Rows : Rows[i].rhs \in Int
    BY <1>2, RowFacts
  <2>2. rhs \in [DOMAIN Rows -> Int] /\ x \in [Columns -> Int]
    BY <1>1, <2>1
  <2>3. node \in [lower : [Columns -> Int], upper : [Columns -> Int]]
    BY <1>1, <1>2
  <2>4. QED
    BY <1>2, <1>3, <2>2, <2>3 DEF NodeTyped, BoxTyped
<1>5. RowsTypeOK
  <2>1. Cardinality({}) = 0 /\ 0 <= MaxCuts
    BY FS_EmptySet, BoundFacts
  <2>2. \A f : {c \in cuts : c.from = f} = {}
    BY <1>1
  <2>3. 1 \in 0 .. Greatest(8, MaxRounds) /\ 0 \in 0 .. MaxDepth
    BY LoopBounds, BoundFacts
  <2>4. 1 \in 1 .. Len(Rows) + Cardinality(Columns) + 1
    BY <1>2, LoopBounds
  <2>5. DOMAIN lower = Columns /\ DOMAIN upper = Columns /\ DOMAIN rhs = DOMAIN Rows
    BY <1>1, <1>2, <1>3
  <2>6. QED
    BY <1>1, <2>1, <2>2, <2>3, <2>4, <2>5 DEF RowsTypeOK
<1>6. StepsTyped /\ CutsOnce /\ RangesTaken /\ PruneIsProven /\ CutsKeepEveryPoint
  <2>1. /\ stage \in {"enter", "covers"}
        /\ stage = "covers" => solver = "sk_milp_solve"
        /\ stage = "enter" => solver = "solve_milp"
    BY <1>1
  <2>2. QED
    BY <1>1, <2>1 DEF StepsTyped, CutsOnce, RangesTaken, PruneIsProven, CutsKeepEveryPoint
<1>7. BoxKeepsNodePoints
  BY <1>1 DEF BoxKeepsNodePoints, NodePoints
<1>8. RowsKeepEveryPoint
  <2>1. ASSUME NEW p \in Points[problem], NEW i \in DOMAIN Rows
        PROVE  Holds(Held(i), p)
    <3>1. rhs[i] = Rows[i].rhs /\ Rows[i] \in RowType
      BY <1>1, <1>2
    <3>2. Held(i) = Rows[i]
      BY <3>1 DEF Held, RowType
    <3>3. Holds(Rows[i], p)
      BY <1>1, PointFacts
    <3>4. QED
      BY <3>2, <3>3
  <2>2. QED
    BY <2>1 DEF RowsKeepEveryPoint
<1>9. QED
  BY <1>4, <1>5, <1>6, <1>7, <1>8 DEF NodeInv

LEMMA NodeStep ==
  ASSUME NodeInv, [NodeNext]_vars
  PROVE  NodeInv'
<1>1. CASE NodeNext
  <2>1. BoxKeepsNodePoints' /\ PruneIsProven'
    BY <1>1, BoxStep
  <2>2. RowsKeepEveryPoint' /\ (rhs \in [DOMAIN Rows -> Int])'
    BY <1>1, RowsStep
  <2>3. CutsKeepEveryPoint' /\ CutsOnce' /\ CutLimit(cuts')
    BY <1>1, CutsStep
  <2>4. LoopsTyped' /\ StepsTyped'
    BY <1>1, LoopsStep
  <2>5. /\ BoxTyped' /\ (node \in [lower : [Columns -> Int], upper : [Columns -> Int]])'
        /\ (x \in [Columns -> Int])'
    BY <1>1, TypesStep
  <2>6. RangesTaken'
    BY <1>1, RangesStep
  <2>7. NodeTyped'
    BY <2>2, <2>5 DEF NodeTyped
  <2>8. RowsTypeOK'
    BY <2>2, <2>3, <2>4, <2>5 DEF RowsTypeOK, LoopsTyped, BoxTyped, CutLimit
  <2>9. QED
    BY <2>1, <2>2, <2>3, <2>4, <2>6, <2>7, <2>8 DEF NodeInv
<1>2. CASE UNCHANGED vars
  BY <1>2 DEF vars, NodeInv, RowsTypeOK, NodeTyped, StepsTyped, CutsOnce, RangesTaken, Around,
              BoxTyped, BoxKeepsNodePoints, PruneIsProven, RowsKeepEveryPoint,
              CutsKeepEveryPoint, Rows, Held, NodePoints
<1>3. QED
  BY <1>1, <1>2

\* NodeInv along every path.
THEOREM NodeInvariant == NodeSpec => []NodeInv
<1>1. NodeInit => NodeInv
  BY NodeInitial
<1>2. NodeInv /\ [NodeNext]_vars => NodeInv'
  BY NodeStep
<1>3. QED
  BY <1>1, <1>2, PTL DEF NodeSpec

(***************************************************************************)
(* Whatever the model, the horizon and the limits, no node that either     *)
(* engine tightens or drops by row reasoning loses a point of the box its  *)
(* branchings give it (MilpSolver.cpp's propagators and gcd test,          *)
(* sk_milp.c's milp_propagate).                                            *)
(***************************************************************************)
THEOREM NodePointsKept == NodeSpec => []NodeKeepsItsPoints
<1>1. NodeInv => NodeKeepsItsPoints
  BY DEF NodeInv, NodeKeepsItsPoints
<1>2. QED
  BY <1>1, NodeInvariant, PTL

(***************************************************************************)
(* What outlives the node is valid for the whole model: the right-hand     *)
(* sides round_integer_inequality_rhs rounds in the shared workspace and   *)
(* the cuts either engine appends to it hold of every integer point of the *)
(* model, coefficient-floor cuts where no column may be negative.          *)
(***************************************************************************)
THEOREM WorkspacePointsKept == NodeSpec => []WorkspaceKeepsEveryPoint
<1>1. NodeInv => WorkspaceKeepsEveryPoint
  BY DEF NodeInv, WorkspaceKeepsEveryPoint
<1>2. QED
  BY <1>1, NodeInvariant, PTL


=============================================================================

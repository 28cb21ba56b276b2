------------------------- MODULE NativeSolveProofs -------------------------
(***************************************************************************)
(* Theorems about NativeSolve and the simplex inside it.  The basis stays  *)
(* nonsingular, its marks, values and bounds agree, the steps improve, and *)
(* what is answered holds of the problem that was given; the gate rejects  *)
(* no undisturbed optimum.  The quadratic engines keep their working set   *)
(* in order, their corrections leave the loop's point verified or no worse *)
(* in sum, OPTIMAL is said of a convex problem's verified point only, and  *)
(* the residual reported is of the point reported.                         *)
(***************************************************************************)
EXTENDS NativeSolve, SumsProofs, FiniteSetTheorems, SequenceTheorems, TLAPS

(***************************************************************************)
(* The algebra of a basis.  M is the matrix [A -I]; a weighting of the     *)
(* columns of a basis is a function of its positions, a weighting of the   *)
(* rows a function of the rows.                                            *)
(***************************************************************************)
\* The rows, the columns and the variables.
LEMMA IndicesFinite ==
  /\ NRows \in Nat \ {0} /\ NCols \in Nat \ {0}
  /\ IsFiniteSet(Rows) /\ IsFiniteSet(Cols) /\ IsFiniteSet(Vars)
  /\ Cardinality(Rows) = NRows /\ Cardinality(Cols) = NCols
  /\ Cols \subseteq Vars
  /\ \A i \in Rows : NCols + i \in Vars \ Cols
<1>1. NRows \in Nat \ {0} /\ NCols \in Nat \ {0}
  BY SimplexAssumption
<1>2. IsFiniteSet(Rows) /\ Cardinality(Rows) = IF 1 > NRows THEN 0 ELSE NRows - 1 + 1
  BY <1>1, FS_Interval DEF Rows
<1>3. IsFiniteSet(Cols) /\ Cardinality(Cols) = IF 1 > NCols THEN 0 ELSE NCols - 1 + 1
  BY <1>1, FS_Interval DEF Cols
<1>4. IsFiniteSet(Vars)
  BY <1>1, FS_Interval DEF Vars
<1>5. Cols \subseteq Vars /\ \A i \in Rows : NCols + i \in Vars \ Cols
  BY <1>1 DEF Rows, Cols, Vars
<1>6. QED
  BY <1>1, <1>2, <1>3, <1>4, <1>5

\* A variable that is no column is the logical of a row.
LEMMA VarsSplit ==
  ASSUME NEW v \in Vars, v \notin Cols
  PROVE  v - NCols \in Rows /\ v = NCols + (v - NCols)
BY SimplexAssumption DEF Rows, Cols, Vars

\* The data of a problem.
LEMMA ProblemType ==
  ASSUME problem \in Problems
  PROVE  /\ problem.A \in [Rows -> [Cols -> {-1, 0, 1}]] /\ problem.c \in [Cols -> Int]
         /\ \A i \in Rows : BoundsOK(problem.row[i])
         /\ \A j \in Cols : BoundsOK(problem.col[j])
         /\ problem.presolve \in BOOLEAN /\ problem.disturbed \in BOOLEAN /\ problem.limit \in Nat
BY ProblemAssumption

\* The entries of [A -I].
LEMMA MatrixType ==
  ASSUME problem \in Problems
  PROVE  /\ \A i \in Rows, v \in Vars : M(i, v) \in {-1, 0, 1} /\ M(i, v) \in Int
         /\ \A i \in Rows, j \in Cols : M(i, j) = problem.A[i][j]
         /\ \A i \in Rows, k \in Rows : M(i, NCols + k) = IF k = i THEN -1 ELSE 0
<1>1. problem.A \in [Rows -> [Cols -> {-1, 0, 1}]]
  BY ProblemType
<1>2. \A i \in Rows, k \in Rows : M(i, NCols + k) = IF k = i THEN -1 ELSE 0
  <2> SUFFICES ASSUME NEW i \in Rows, NEW k \in Rows
               PROVE  M(i, NCols + k) = IF k = i THEN -1 ELSE 0
    OBVIOUS
  <2>1. NCols + k \notin Cols /\ (NCols + k = NCols + i <=> k = i)
    BY IndicesFinite DEF Rows
  <2>2. QED
    BY <2>1 DEF M, Entry
<1>3. QED
  BY <1>1, <1>2 DEF M, Entry

\* What the rows make of a weighting of the columns b lists.
RowOf(i, b, z) == Sum([k \in Rows |-> M(i, b[k]) * z[k]], Rows)
Column(v) == [i \in Rows |-> M(i, v)]

\* A solve with the basis, in terms of its rows.
LEMMA SolvesRows ==
  ASSUME NEW b, NEW z, NEW r
  PROVE  Solves(problem.A, b, z, r) <=> \A i \in Rows : RowOf(i, b, z) = r[i]
BY DEF Solves, RowOf, M

\* A weighting of the rows, taken along a column.
LEMMA AlongType ==
  ASSUME problem \in Problems, NEW p \in [Rows -> Int], NEW v \in Vars
  PROVE  /\ Along(p, v) \in Int
         /\ \A i \in Rows : Along(p, NCols + i) = -p[i]
<1>1. \A w \in Vars : \A i \in Rows : [k \in Rows |-> M(k, w) * p[k]][i] \in Int
  BY MatrixType
<1>2. Along(p, v) \in Int
  <2> DEFINE f == [k \in Rows |-> M(k, v) * p[k]]
  <2>1. \A i \in Rows : f[i] \in Int
    BY <1>1
  <2> HIDE DEF f
  <2>2. Sum(f, Rows) \in Int
    BY <2>1, SumType, IndicesFinite
  <2>3. QED
    BY <2>2 DEF Along, f
<1>3. ASSUME NEW i \in Rows
      PROVE  Along(p, NCols + i) = -p[i]
  <2> DEFINE f == [k \in Rows |-> M(k, NCols + i) * p[k]]
  <2>1. f[i] = -p[i] /\ f[i] \in Int /\ \A k \in Rows \ {i} : f[k] = 0
    <3>1. M(i, NCols + i) = -1 /\ \A k \in Rows \ {i} : M(k, NCols + i) = 0
      BY MatrixType
    <3>2. p[i] \in Int /\ \A k \in Rows : p[k] \in Int
      OBVIOUS
    <3>3. QED
      BY <3>1, <3>2
  <2> HIDE DEF f
  <2>2. Sum(f, Rows) = f[i]
    BY <2>1, SumSingle, IndicesFinite
  <2>3. QED
    BY <2>1, <2>2 DEF Along, f
<1>4. QED
  BY <1>2, <1>3

Makes(r, T, b, z) == \A i \in Rows : r[i] = Sum([k \in T |-> M(i, b[k]) * z[k]], T)

\* Fubini: multipliers of the rows against a weighting of columns.
LEMMA Pairing ==
  ASSUME problem \in Problems, NEW T, IsFiniteSet(T), NEW b \in [T -> Vars], NEW z \in [T -> Int],
         NEW p \in [Rows -> Int],
         NEW r, Makes(r, T, b, z)
  PROVE  Sum([k \in T |-> Along(p, b[k]) * z[k]], T) = Sum([i \in Rows |-> p[i] * r[i]], Rows)
<1> DEFINE F == [i \in Rows |-> [k \in T |-> p[i] * (M(i, b[k]) * z[k])]]
           G == [k \in T |-> [i \in Rows |-> p[i] * (M(i, b[k]) * z[k])]]
           rows == [i \in Rows |-> p[i] * r[i]]
           cols == [k \in T |-> Along(p, b[k]) * z[k]]
<1>1. \A i \in Rows, k \in T : /\ F[i][k] \in Int /\ M(i, b[k]) \in Int /\ z[k] \in Int
                               /\ p[i] \in Int /\ M(i, b[k]) * z[k] \in Int
                               /\ M(i, b[k]) * p[i] \in Int
                               /\ F[i][k] = p[i] * (M(i, b[k]) * z[k])
                               /\ F[i][k] = z[k] * (M(i, b[k]) * p[i])
  <2> SUFFICES ASSUME NEW i \in Rows, NEW k \in T
               PROVE  /\ F[i][k] \in Int /\ M(i, b[k]) \in Int /\ z[k] \in Int
                      /\ p[i] \in Int /\ M(i, b[k]) * z[k] \in Int
                      /\ M(i, b[k]) * p[i] \in Int
                      /\ F[i][k] = p[i] * (M(i, b[k]) * z[k])
                      /\ F[i][k] = z[k] * (M(i, b[k]) * p[i])
    OBVIOUS
  <2>1. M(i, b[k]) \in Int /\ z[k] \in Int /\ p[i] \in Int
    BY MatrixType
  <2>2. F[i][k] = p[i] * (M(i, b[k]) * z[k])
    OBVIOUS
  <2> HIDE DEF F
  <2>3. QED
    BY <2>1, <2>2
<1>2. \A i \in Rows : rows[i] = Sum(F[i], T)
  <2> SUFFICES ASSUME NEW i \in Rows
               PROVE  rows[i] = Sum(F[i], T)
    OBVIOUS
  <2> DEFINE f == [k \in T |-> M(i, b[k]) * z[k]]
             g == F[i]
  <2>1. \A k \in T : f[k] \in Int /\ g[k] = p[i] * f[k]
    BY <1>1
  <2>2. r[i] = Sum(f, T) /\ rows[i] = p[i] * r[i] /\ p[i] \in Int
    BY DEF Makes
  <2> HIDE DEF f, g, rows
  <2>3. Sum(g, T) = p[i] * Sum(f, T)
    BY <2>1, <2>2, SumScaled
  <2>4. QED
    BY <2>2, <2>3 DEF g
<1>3. \A k \in T : cols[k] = Sum(G[k], Rows)
  <2> SUFFICES ASSUME NEW k \in T
               PROVE  cols[k] = Sum(G[k], Rows)
    OBVIOUS
  <2> DEFINE f == [i \in Rows |-> M(i, b[k]) * p[i]]
             g == G[k]
  <2>1. \A i \in Rows : f[i] \in Int /\ g[i] = z[k] * f[i]
    BY <1>1
  <2>2. z[k] \in Int /\ Along(p, b[k]) = Sum(f, Rows) /\ cols[k] = Along(p, b[k]) * z[k]
        /\ Along(p, b[k]) \in Int
    BY AlongType DEF Along
  <2> HIDE DEF f, g, cols
  <2>3. Sum(g, Rows) = z[k] * Sum(f, Rows)
    BY <2>1, <2>2, SumScaled, IndicesFinite
  <2>4. QED
    BY <2>2, <2>3 DEF g
<1>4. \A i \in Rows, k \in T : F[i][k] \in Int /\ G[k][i] = F[i][k]
  BY <1>1
<1> HIDE DEF F, G, rows, cols
<1>5. Sum(rows, Rows) = Sum(cols, T)
  <2>1. IsFiniteSet(Rows) /\ IsFiniteSet(T)
    BY IndicesFinite
  <2>2. Transposed(F, G, Rows, T) /\ LineSums(rows, F, Rows, T) /\ LineSums(cols, G, T, Rows)
    BY <1>2, <1>3, <1>4 DEF Transposed, LineSums
  <2>3. QED
    BY <2>1, <2>2, SumExchange
<1>6. QED
  BY <1>5 DEF rows, cols

(***************************************************************************)
(* Nonsingular bases: the rows and the columns can be solved for anything. *)
(***************************************************************************)
RowSolvable(b) ==
    \A r \in [Rows -> Int] : \E z \in [Rows -> Int] : Solves(problem.A, b, z, r)
DualSolvable(b) ==
    \A c \in [Rows -> Int] : \E p \in [Rows -> Int] : \A k \in Rows : Along(p, b[k]) = c[k]
Nonsingular(b) == b \in [Rows -> Vars] /\ RowSolvable(b) /\ DualSolvable(b)

\* Rows weighted by p and positions weighted by z meet in one sum.
LEMMA PairedRows ==
  ASSUME problem \in Problems, NEW b \in [Rows -> Vars], NEW z \in [Rows -> Int],
         NEW p \in [Rows -> Int], NEW r, Solves(problem.A, b, z, r)
  PROVE  Sum([k \in Rows |-> Along(p, b[k]) * z[k]], Rows) = Sum([i \in Rows |-> p[i] * r[i]], Rows)
<1>1. Makes(r, Rows, b, z)
  BY SolvesRows DEF RowOf, Makes
<1>2. IsFiniteSet(Rows)
  BY IndicesFinite
<1>3. QED
  BY <1>1, <1>2, Pairing

Unit(k) == [j \in Rows |-> IF j = k THEN 1 ELSE 0]
Zeros == [i \in Rows |-> 0]

\* Only the zero weighting gives zero rows.
LEMMA NonsingularKernel ==
  ASSUME problem \in Problems, NEW b \in [Rows -> Vars], DualSolvable(b),
         NEW z \in [Rows -> Int], Solves(problem.A, b, z, Zeros), NEW k \in Rows
  PROVE  z[k] = 0
<1>1. Unit(k) \in [Rows -> Int]
  BY DEF Unit
<1>2. PICK p \in [Rows -> Int] : \A j \in Rows : Along(p, b[j]) = Unit(k)[j]
  BY <1>1 DEF DualSolvable
<1>3. Sum([j \in Rows |-> Along(p, b[j]) * z[j]], Rows) = Sum([i \in Rows |-> p[i] * Zeros[i]], Rows)
  BY PairedRows
<1> DEFINE f == [j \in Rows |-> Along(p, b[j]) * z[j]]
           g == [i \in Rows |-> p[i] * Zeros[i]]
<1>4. Sum(g, Rows) = 0
  <2>1. \A i \in Rows : g[i] = 0
    BY DEF Zeros
  <2> HIDE DEF g
  <2>2. QED
    BY <2>1, SumOfZeros, IndicesFinite
<1>5. Sum(f, Rows) = f[k] /\ f[k] = z[k]
  <2>1. f[k] = z[k] /\ f[k] \in Int /\ \A j \in Rows \ {k} : f[j] = 0
    <3>1. \A j \in Rows : f[j] = Unit(k)[j] * z[j] /\ z[j] \in Int
      BY <1>2
    <3> HIDE DEF f
    <3>2. QED
      BY <3>1 DEF Unit
  <2> HIDE DEF f
  <2>2. QED
    BY <2>1, SumSingle, IndicesFinite
<1>6. QED
  BY <1>3, <1>4, <1>5

\* The rows of a combination of two weightings.
Combined(z, q, w) == [k \in Rows |-> z[k] + q * w[k]]

\* The rows are linear in the weighting of the positions.
LEMMA RowsCombined ==
  ASSUME problem \in Problems, NEW b \in [Rows -> Vars], NEW z \in [Rows -> Int],
         NEW w \in [Rows -> Int], NEW q \in Int, NEW i \in Rows
  PROVE  /\ RowOf(i, b, z) \in Int
         /\ RowOf(i, b, Combined(z, q, w)) = RowOf(i, b, z) + q * RowOf(i, b, w)
<1> DEFINE f == [k \in Rows |-> M(i, b[k]) * z[k]]
           g == [k \in Rows |-> M(i, b[k]) * w[k]]
           s == [k \in Rows |-> q * g[k]]
           d == [k \in Rows |-> z[k] + q * w[k]]
           h == [k \in Rows |-> M(i, b[k]) * d[k]]
<1>1. \A k \in Rows : /\ M(i, b[k]) \in {-1, 0, 1} /\ z[k] \in Int /\ w[k] \in Int
  BY MatrixType
<1>2. \A k \in Rows : f[k] \in Int /\ g[k] \in Int /\ h[k] = f[k] + s[k] /\ s[k] \in Int /\ s[k] = q * g[k]
  <2> SUFFICES ASSUME NEW k \in Rows
               PROVE  f[k] \in Int /\ g[k] \in Int /\ h[k] = f[k] + s[k] /\ s[k] \in Int /\ s[k] = q * g[k]
    OBVIOUS
  <2>1. /\ f[k] = M(i, b[k]) * z[k] /\ g[k] = M(i, b[k]) * w[k] /\ s[k] = q * g[k]
        /\ h[k] = M(i, b[k]) * (z[k] + q * w[k])
    OBVIOUS
  <2> HIDE DEF f, g, s, h
  <2>2. f[k] \in Int /\ g[k] \in Int
    BY <1>1, <2>1
  <2>3. s[k] \in Int
    BY <2>1, <2>2
  <2>4. q * w[k] \in Int
    BY <1>1
  <2>5. h[k] = f[k] + s[k]
    <3>1. CASE M(i, b[k]) = 0
      BY <1>1, <2>1, <2>4, <3>1
    <3>2. CASE M(i, b[k]) = 1
      BY <1>1, <2>1, <2>4, <3>2
    <3>3. CASE M(i, b[k]) = -1
      BY <1>1, <2>1, <2>4, <3>3
    <3>4. QED
      BY <1>1, <3>1, <3>2, <3>3
  <2>6. QED
    BY <2>1, <2>2, <2>3, <2>5
<1> HIDE DEF f, g, s, h
<1>3. Sum(h, Rows) = Sum(f, Rows) + Sum(s, Rows)
  BY <1>2, SumOfSum, IndicesFinite
<1>4. Sum(s, Rows) = q * Sum(g, Rows)
  BY <1>2, SumScaled, IndicesFinite
<1>5. Sum(f, Rows) \in Int
  BY <1>2, SumType, IndicesFinite
<1>6. QED
  BY <1>3, <1>4, <1>5 DEF RowOf, f, g, h, Combined

\* A nonsingular basis solves its rows in one way.
LEMMA NonsingularUnique ==
  ASSUME problem \in Problems, NEW b \in [Rows -> Vars], DualSolvable(b), NEW r,
         NEW z \in [Rows -> Int], Solves(problem.A, b, z, r),
         NEW w \in [Rows -> Int], Solves(problem.A, b, w, r), NEW k \in Rows
  PROVE  z[k] = w[k]
<1> DEFINE d == Combined(z, -1, w)
<1>1. d \in [Rows -> Int]
  BY DEF Combined
<1>2. \A i \in Rows : RowOf(i, b, d) = 0
  <2> SUFFICES ASSUME NEW i \in Rows
               PROVE  RowOf(i, b, d) = 0
    OBVIOUS
  <2>1. RowOf(i, b, z) = r[i] /\ RowOf(i, b, w) = r[i]
    BY SolvesRows
  <2>2. RowOf(i, b, z) \in Int
    BY RowsCombined
  <2>3. RowOf(i, b, d) = RowOf(i, b, z) + (-1) * RowOf(i, b, w)
    BY RowsCombined
  <2>4. QED
    BY <2>1, <2>2, <2>3
<1>3. Solves(problem.A, b, d, Zeros)
  BY <1>2, SolvesRows DEF Zeros
<1>4. d[k] = z[k] - w[k]
  BY DEF Combined
<1> HIDE DEF d
<1>5. d[k] = 0
  BY <1>1, <1>3, NonsingularKernel
<1>6. z[k] \in Int /\ w[k] \in Int
  OBVIOUS
<1>7. QED
  BY <1>4, <1>5, <1>6

\* A basis whose transpose is solvable has no kernel, whatever the Span.
LEMMA NonsingularRegular ==
  ASSUME problem \in Problems, Span = Int, NEW b \in [Rows -> Vars], DualSolvable(b)
  PROVE  Regular(problem.A, b)
<1> SUFFICES ASSUME NEW z \in [Rows -> Span], Solves(problem.A, b, z, Zeros), NEW k \in Rows
             PROVE  z[k] = 0
  BY DEF Regular, Zeros
<1>1. z \in [Rows -> Int]
  OBVIOUS
<1>2. QED
  BY <1>1, NonsingularKernel

\* A basis lists no variable twice.
LEMMA NonsingularInjective ==
  ASSUME problem \in Problems, NEW b \in [Rows -> Vars], DualSolvable(b),
         NEW k \in Rows, NEW l \in Rows, b[k] = b[l]
  PROVE  k = l
<1>1. Unit(k) \in [Rows -> Int]
  BY DEF Unit
<1>2. PICK p \in [Rows -> Int] : \A j \in Rows : Along(p, b[j]) = Unit(k)[j]
  BY <1>1 DEF DualSolvable
<1>3. Unit(k)[k] = Unit(k)[l]
  BY <1>2
<1>4. QED
  BY <1>3 DEF Unit

\* The solves find what they look for.
LEMMA FtranSolves ==
  ASSUME problem \in Problems, Span = Int, NEW b, RowSolvable(b), NEW r \in [Rows -> Int]
  PROVE  Ftran(b, r) \in [Rows -> Int] /\ Solves(problem.A, b, Ftran(b, r), r)
<1>1. \E z \in [Rows -> Span] : Solves(problem.A, b, z, r)
  BY DEF RowSolvable
<1>2. QED
  BY <1>1 DEF Ftran

\* The transposed solve exists, so Btran() finds one.
LEMMA BtranSolves ==
  ASSUME problem \in Problems, Span = Int, NEW b, DualSolvable(b), NEW c \in [Rows -> Int]
  PROVE  Btran(b, c) \in [Rows -> Int] /\ \A k \in Rows : Along(Btran(b, c), b[k]) = c[k]
<1>1. \E p \in [Rows -> Span] : \A k \in Rows : Along(p, b[k]) = c[k]
  BY DEF DualSolvable
<1>2. QED
  BY <1>1 DEF Btran

\* The basis of the logicals.
Logicals == [k \in Rows |-> NCols + k]

\* The first basis, of the logicals, is the negated identity.
LEMMA LogicalsNonsingular ==
  ASSUME problem \in Problems
  PROVE  Nonsingular(Logicals)
<1>1. Logicals \in [Rows -> Vars]
  BY IndicesFinite DEF Logicals
<1>2. ASSUME NEW c \in [Rows -> Int]
      PROVE  \E p \in [Rows -> Int] : \A k \in Rows : Along(p, Logicals[k]) = c[k]
  <2> DEFINE p == [k \in Rows |-> -c[k]]
  <2>1. p \in [Rows -> Int] /\ \A k \in Rows : -p[k] = c[k]
    OBVIOUS
  <2> HIDE DEF p
  <2>2. \A k \in Rows : Along(p, NCols + k) = -p[k]
    <3>1. PICK v \in Vars : TRUE
      BY IndicesFinite DEF Cols
    <3>2. QED
      BY <2>1, <3>1, AlongType
  <2>3. \A k \in Rows : Logicals[k] = NCols + k
    BY DEF Logicals
  <2>4. QED
    BY <2>1, <2>2, <2>3
<1>3. ASSUME NEW r \in [Rows -> Int]
      PROVE  \E z \in [Rows -> Int] : Solves(problem.A, Logicals, z, r)
  <2> DEFINE z == [k \in Rows |-> -r[k]]
  <2>1. z \in [Rows -> Int]
    OBVIOUS
  <2>2. ASSUME NEW i \in Rows
        PROVE  RowOf(i, Logicals, z) = r[i]
    <3> DEFINE f == [k \in Rows |-> M(i, Logicals[k]) * z[k]]
    <3>1. /\ f[i] = r[i] /\ f[i] \in Int
          /\ \A k \in Rows \ {i} : f[k] = 0
      <4>1. \A k \in Rows : M(i, Logicals[k]) = IF k = i THEN -1 ELSE 0
        BY MatrixType DEF Logicals
      <4>2. \A k \in Rows : z[k] = -r[k] /\ r[k] \in Int
        OBVIOUS
      <4> HIDE DEF z
      <4>3. QED
        BY <4>1, <4>2
    <3> HIDE DEF f
    <3>2. Sum(f, Rows) = f[i]
      BY <3>1, SumSingle, IndicesFinite
    <3>3. QED
      BY <3>1, <3>2 DEF RowOf, f
  <2>3. Solves(problem.A, Logicals, z, r)
    BY <2>2, SolvesRows
  <2>4. QED
    BY <2>1, <2>3
<1>4. QED
  BY <1>1, <1>2, <1>3 DEF Nonsingular, RowSolvable, DualSolvable

\* A column in terms of a basis has coefficients -1, 0 and 1.
LEMMA ColumnSolved ==
  ASSUME problem \in Problems, Span = Int, NEW b, Nonsingular(b), NEW v \in Vars
  PROVE  LET a == Ftran(b, Column(v)) IN
         /\ a \in [Rows -> {-1, 0, 1}] /\ a \in [Rows -> Int]
         /\ \A i \in Rows : RowOf(i, b, a) = M(i, v)
<1> DEFINE a == Ftran(b, Column(v))
<1>1. Column(v) \in [Rows -> Int]
  BY MatrixType DEF Column
<1>2. a \in [Rows -> Int] /\ Solves(problem.A, b, a, Column(v))
  BY <1>1, FtranSolves DEF Nonsingular
<1>3. Regular(problem.A, b) /\ b \in [Rows -> Vars]
  BY NonsingularRegular DEF Nonsingular
<1>4. a \in [Rows -> {-1, 0, 1}]
  <2>1. Column(v) = [i \in Rows |-> Entry(problem.A, i, v)]
    BY DEF Column, M
  <2> HIDE DEF a
  <2>2. \A z \in [Rows -> Span] : Solves(problem.A, b, z, Column(v)) => z \in [Rows -> {-1, 0, 1}]
    BY <1>3, <2>1, UnimodularAssumption
  <2>3. QED
    BY <1>2, <2>2
<1> HIDE DEF a
<1>5. \A i \in Rows : RowOf(i, b, a) = M(i, v)
  BY <1>2, SolvesRows DEF Column
<1>6. QED
  BY <1>2, <1>4, <1>5 DEF a

\* A pivot replaces one member of the basis, and keeps it nonsingular.
LEMMA PivotRowSolvable ==
  ASSUME problem \in Problems, NEW b \in [Rows -> Vars], RowSolvable(b),
         NEW v \in Vars, NEW a \in [Rows -> {-1, 0, 1}], \A i \in Rows : RowOf(i, b, a) = M(i, v),
         NEW k \in Rows, a[k] # 0
  PROVE  RowSolvable([b EXCEPT ![k] = v])
<1> DEFINE b1 == [b EXCEPT ![k] = v]
<1> SUFFICES ASSUME NEW r \in [Rows -> Int]
             PROVE  \E z \in [Rows -> Int] : Solves(problem.A, b1, z, r)
  BY DEF RowSolvable
<1>1. PICK z \in [Rows -> Int] : Solves(problem.A, b, z, r)
  BY DEF RowSolvable
<1>2. PICK t \in Int : t = a[k] * z[k]
  <2>1. a[k] \in Int /\ z[k] \in Int
    OBVIOUS
  <2>2. QED
    BY <2>1
<1>3. PICK q \in Int : q = -t
  BY <1>2
<1> DEFINE u == Combined(z, q, a)
           w == [u EXCEPT ![k] = t]
<1>4. a \in [Rows -> Int]
  OBVIOUS
<1>5. u \in [Rows -> Int] /\ w \in [Rows -> Int]
  <2>1. \A j \in Rows : z[j] \in Int /\ q * a[j] \in Int
    BY <1>4
  <2>2. \A j \in Rows : z[j] + q * a[j] \in Int
    BY <2>1
  <2>3. QED
    BY <2>2 DEF Combined
<1>6. u[k] = 0
  <2>1. u[k] = z[k] + q * a[k] /\ a[k] \in {-1, 1} /\ z[k] \in Int
    BY DEF Combined
  <2> HIDE DEF u
  <2>2. QED
    BY <1>2, <1>3, <2>1
<1>7. ASSUME NEW i \in Rows
      PROVE  RowOf(i, b1, w) = r[i]
  <2>1. RowOf(i, b, u) = r[i] + q * M(i, v)
    <3>1. RowOf(i, b, z) = r[i]
      BY <1>1, SolvesRows
    <3>2. RowOf(i, b, u) = RowOf(i, b, z) + q * RowOf(i, b, a)
      BY <1>4, RowsCombined
    <3>3. QED
      BY <3>1, <3>2
  <2> DEFINE f == [j \in Rows |-> M(i, b[j]) * u[j]]
             g == [j \in Rows |-> M(i, b1[j]) * w[j]]
  <2>2. \A j \in Rows : f[j] \in Int /\ g[j] \in Int
    <3>1. \A j \in Rows : M(i, b[j]) \in Int /\ M(i, b1[j]) \in Int
      BY MatrixType
    <3>2. QED
      BY <1>5, <3>1
  <2>3. \A j \in Rows \ {k} : f[j] = g[j]
    OBVIOUS
  <2>4. f[k] = 0 /\ g[k] = M(i, v) * t /\ M(i, v) \in {-1, 0, 1}
    <3>1. M(i, b[k]) \in Int /\ M(i, v) \in {-1, 0, 1}
      BY MatrixType
    <3>2. f[k] = M(i, b[k]) * u[k] /\ b1[k] = v /\ g[k] = M(i, b1[k]) * w[k]
      OBVIOUS
    <3>4. w[k] = t
      <4>1. k \in DOMAIN u
        BY <1>5
      <4> HIDE DEF u
      <4>2. QED
        BY <4>1
    <3> HIDE DEF f, g, u, w, b1
    <3>3. QED
      BY <1>6, <3>1, <3>2, <3>4
  <2>5. RowOf(i, b, u) = Sum(f, Rows) /\ RowOf(i, b1, w) = Sum(g, Rows)
    BY DEF RowOf
  <2> HIDE DEF f, g, u, w, b1
  <2>6. /\ Sum(f, Rows) = f[k] + Sum(f, Rows \ {k}) /\ Sum(g, Rows) = g[k] + Sum(g, Rows \ {k})
        /\ Sum(f, Rows \ {k}) = Sum(g, Rows \ {k}) /\ Sum(f, Rows \ {k}) \in Int
    <3>1. IsFiniteSet(Rows) /\ IsFiniteSet(Rows \ {k})
      BY IndicesFinite, FS_Subset
    <3>2. \A j \in Rows \ {k} : f[j] \in Int /\ f[j] = g[j]
      BY <2>2, <2>3
    <3>3. Sum(f, Rows \ {k}) = Sum(g, Rows \ {k}) /\ Sum(f, Rows \ {k}) \in Int
      BY <3>1, <3>2, SumEqual, SumType
    <3>4. QED
      BY <2>2, <3>1, <3>3, SumSplit
  <2>7. r[i] \in Int
    OBVIOUS
  <2>8. M(i, v) * t = -(q * M(i, v))
    BY <1>3, <2>4
  <2>9. q * M(i, v) \in Int
    BY <2>4
  <2>10. QED
    BY <2>1, <2>4, <2>5, <2>6, <2>7, <2>8, <2>9
<1>8. Solves(problem.A, b1, w, r)
  <2> HIDE DEF b1, w
  <2>1. QED
    BY <1>7, SolvesRows
<1>9. QED
  BY <1>5, <1>8

\* The transpose stays solvable when the pivot is not zero.
LEMMA PivotDualSolvable ==
  ASSUME problem \in Problems, NEW b \in [Rows -> Vars], DualSolvable(b),
         NEW v \in Vars, NEW a \in [Rows -> {-1, 0, 1}], \A i \in Rows : RowOf(i, b, a) = M(i, v),
         NEW k \in Rows, a[k] # 0
  PROVE  DualSolvable([b EXCEPT ![k] = v])
<1> DEFINE b1 == [b EXCEPT ![k] = v]
<1> SUFFICES ASSUME NEW c \in [Rows -> Int]
             PROVE  \E p \in [Rows -> Int] : \A j \in Rows : Along(p, b1[j]) = c[j]
  BY DEF DualSolvable
<1> DEFINE f == [j \in Rows |-> c[j] * a[j]]
<1>1. \A j \in Rows : c[j] \in Int /\ a[j] \in Int /\ f[j] \in Int /\ f[j] = c[j] * a[j]
  OBVIOUS
<1>2. PICK s \in Int : s = Sum(f, Rows \ {k})
  <2>1. IsFiniteSet(Rows \ {k})
    BY IndicesFinite, FS_Subset
  <2> HIDE DEF f
  <2>2. QED
    BY <1>1, <2>1, SumType
<1>3. PICK e \in Int : e = a[k] * (c[k] - s)
  <2>1. c[k] - s \in Int /\ a[k] \in Int
    BY <1>1
  <2>2. QED
    BY <2>1
<1> DEFINE c1 == [c EXCEPT ![k] = e]
<1>4. PICK p \in [Rows -> Int] : \A j \in Rows : Along(p, b[j]) = c1[j]
  BY DEF DualSolvable
<1>5. \A j \in Rows \ {k} : Along(p, b1[j]) = c[j]
  BY <1>4
<1>6. Along(p, v) = c[k]
  <2> DEFINE g == [j \in Rows |-> Along(p, b[j]) * a[j]]
             h == [i \in Rows |-> p[i] * Column(v)[i]]
             m == [i \in Rows |-> M(i, v) * p[i]]
  <2>1. Sum(g, Rows) = Sum(h, Rows)
    <3>1. Solves(problem.A, b, a, Column(v))
      BY SolvesRows DEF Column
    <3>2. a \in [Rows -> Int]
      OBVIOUS
    <3>3. QED
      BY <3>1, <3>2, PairedRows
  <2>2. Sum(h, Rows) = Along(p, v)
    <3>1. \A i \in Rows : h[i] \in Int /\ h[i] = m[i]
      <4>1. \A i \in Rows : M(i, v) \in {-1, 0, 1} /\ p[i] \in Int /\ Column(v)[i] = M(i, v)
        BY MatrixType DEF Column
      <4>2. \A i \in Rows : h[i] = p[i] * M(i, v) /\ m[i] = M(i, v) * p[i]
        BY <4>1
      <4> HIDE DEF h, m
      <4>3. QED
        BY <4>1, <4>2
    <3>2. Sum(m, Rows) = Along(p, v)
      BY DEF Along
    <3> HIDE DEF h, m
    <3>3. QED
      BY <3>1, <3>2, SumEqual, IndicesFinite
  <2>3. \A j \in Rows : g[j] = c1[j] * a[j]
    BY <1>4
  <2>4. \A j \in Rows \ {k} : g[j] = f[j] /\ g[j] \in Int
    BY <1>1, <2>3
  <2>5. g[k] = e * a[k] /\ a[k] \in {-1, 1}
    BY <2>3
  <2>6. g[k] = c[k] - s /\ g[k] \in Int
    <3>1. c[k] \in Int
      OBVIOUS
    <3> HIDE DEF g, f, c1
    <3>2. QED
      BY <1>3, <2>5, <3>1
  <2> HIDE DEF f, g, h, m
  <2>7. Sum(g, Rows) = g[k] + Sum(g, Rows \ {k}) /\ Sum(g, Rows \ {k}) = s
    <3>1. IsFiniteSet(Rows) /\ IsFiniteSet(Rows \ {k})
      BY IndicesFinite, FS_Subset
    <3>2. \A j \in Rows : g[j] \in Int
      BY <2>4, <2>6
    <3>3. Sum(g, Rows \ {k}) = Sum(f, Rows \ {k})
      BY <2>4, <3>1, SumEqual
    <3>4. QED
      BY <1>2, <3>1, <3>2, <3>3, SumSplit
  <2>8. c[k] \in Int
    OBVIOUS
  <2>9. QED
    BY <2>1, <2>2, <2>6, <2>7, <2>8
<1>7. b1[k] = v /\ \A j \in Rows : j = k \/ j \in Rows \ {k}
  OBVIOUS
<1> HIDE DEF b1
<1>8. QED
  BY <1>5, <1>6, <1>7

\* A pivot on a nonzero entry keeps the basis nonsingular.
LEMMA PivotNonsingular ==
  ASSUME problem \in Problems, Span = Int, NEW b, Nonsingular(b), NEW v \in Vars,
         NEW k \in Rows, Ftran(b, Column(v))[k] # 0
  PROVE  Nonsingular([b EXCEPT ![k] = v])
<1> DEFINE a == Ftran(b, Column(v))
<1>1. a \in [Rows -> {-1, 0, 1}] /\ \A i \in Rows : RowOf(i, b, a) = M(i, v)
  BY ColumnSolved
<1> HIDE DEF a
<1>2. b \in [Rows -> Vars] /\ a[k] # 0
  BY DEF Nonsingular, a
<1>3. RowSolvable([b EXCEPT ![k] = v]) /\ DualSolvable([b EXCEPT ![k] = v])
  BY <1>1, <1>2, PivotRowSolvable, PivotDualSolvable DEF Nonsingular
<1>4. QED
  BY <1>2, <1>3 DEF Nonsingular

(***************************************************************************)
(* Balanced values: the logicals are the activities of the rows.           *)
(***************************************************************************)
Dot(m, z, T) == Sum([k \in T |-> m[k] * z[k]], T)
Combines(h, z, q, w, T) == \A k \in T : h[k] = z[k] + q * w[k]
Integers(m, T) == \A k \in T : m[k] \in Int

\* One term of a combination.
LEMMA Distributes ==
  ASSUME NEW m \in Int, NEW z \in Int, NEW q \in Int, NEW w \in Int
  PROVE  m * (z + q * w) = m * z + q * (m * w)
<1>1. q * w \in Int
  OBVIOUS
<1>2. m * (z + q * w) = m * z + m * (q * w)
  BY <1>1
<1>3. m * (q * w) = q * (m * w)
  OBVIOUS
<1>4. QED
  BY <1>2, <1>3

\* An inner product of integers is an integer.
LEMMA DotType ==
  ASSUME NEW T, IsFiniteSet(T), NEW m, Integers(m, T), NEW z, Integers(z, T)
  PROVE  Dot(m, z, T) \in Int
<1> DEFINE f == [k \in T |-> m[k] * z[k]]
<1>1. \A k \in T : f[k] \in Int
  BY DEF Integers
<1> HIDE DEF f
<1>2. Sum(f, T) \in Int
  BY <1>1, SumType
<1>3. QED
  BY <1>2 DEF Dot, f

\* An inner product is linear.
LEMMA DotCombined ==
  ASSUME NEW T, IsFiniteSet(T), NEW m, Integers(m, T), NEW z, Integers(z, T),
         NEW q \in Int, NEW w, Integers(w, T), NEW h, Combines(h, z, q, w, T)
  PROVE  Dot(m, h, T) = Dot(m, z, T) + q * Dot(m, w, T)
<1> DEFINE f == [k \in T |-> m[k] * z[k]]
           g == [k \in T |-> m[k] * w[k]]
           s == [k \in T |-> q * g[k]]
           t == [k \in T |-> m[k] * h[k]]
<1>2. \A k \in T : f[k] \in Int /\ g[k] \in Int /\ t[k] = f[k] + s[k] /\ s[k] \in Int /\ s[k] = q * g[k]
  <2> SUFFICES ASSUME NEW k \in T
               PROVE  f[k] \in Int /\ g[k] \in Int /\ t[k] = f[k] + s[k] /\ s[k] \in Int /\ s[k] = q * g[k]
    OBVIOUS
  <2>1. f[k] = m[k] * z[k] /\ g[k] = m[k] * w[k] /\ s[k] = q * g[k] /\ t[k] = m[k] * h[k]
    OBVIOUS
  <2>2. m[k] \in Int /\ z[k] \in Int /\ w[k] \in Int /\ h[k] = z[k] + q * w[k]
    BY DEF Integers, Combines
  <2> HIDE DEF f, g, s, t
  <2>3. f[k] \in Int /\ g[k] \in Int
    BY <2>1, <2>2
  <2>4. s[k] \in Int
    BY <2>1, <2>3
  <2>5. t[k] = f[k] + s[k]
    <3>1. m[k] * (z[k] + q * w[k]) = m[k] * z[k] + q * (m[k] * w[k])
      BY <2>2, Distributes
    <3>2. QED
      BY <2>1, <2>2, <3>1
  <2>6. QED
    BY <2>1, <2>3, <2>4, <2>5
<1> HIDE DEF f, g, s, t
<1>3. Sum(t, T) = Sum(f, T) + Sum(s, T)
  BY <1>2, SumOfSum
<1>4. Sum(s, T) = q * Sum(g, T)
  BY <1>2, SumScaled
<1>6. QED
  BY <1>3, <1>4 DEF Dot, f, g, t

Line(i) == [v \in Vars |-> M(i, v)]
Balance(i, w) == Dot(Line(i), w, Vars)
Balanced(w) == w \in [Vars -> Int] /\ \A i \in Rows : Balance(i, w) = 0
Members(b) == {b[k] : k \in Rows}
AtBasis(b, w) == [k \in Rows |-> w[b[k]]]
Plus(z, q, w) == [v \in Vars |-> z[v] + q * w[v]]

\* A row of [A -I] over all the variables.
LEMMA LineType ==
  ASSUME problem \in Problems, NEW i \in Rows
  PROVE  Integers(Line(i), Vars) /\ \A v \in Vars : Line(i)[v] = M(i, v)
BY MatrixType DEF Line, Integers

\* What a row leaves of integer values is an integer.
LEMMA BalanceType ==
  ASSUME problem \in Problems, NEW i \in Rows, NEW w \in [Vars -> Int]
  PROVE  Balance(i, w) \in Int
<1>1. Integers(w, Vars)
  BY DEF Integers
<1>2. QED
  BY <1>1, LineType, DotType, IndicesFinite DEF Balance

\* Balanced values plus a multiple of balanced values are balanced.
LEMMA BalancedPlus ==
  ASSUME problem \in Problems, NEW z, Balanced(z), NEW q \in Int, NEW w, Balanced(w)
  PROVE  Balanced(Plus(z, q, w))
<1>1. z \in [Vars -> Int] /\ w \in [Vars -> Int]
  BY DEF Balanced
<1>2. Plus(z, q, w) \in [Vars -> Int]
  <2>1. \A v \in Vars : q * w[v] \in Int /\ z[v] \in Int
    BY <1>1
  <2>2. QED
    BY <2>1 DEF Plus
<1>3. ASSUME NEW i \in Rows
      PROVE  Balance(i, Plus(z, q, w)) = 0
  <2>1. Integers(z, Vars) /\ Integers(w, Vars) /\ Combines(Plus(z, q, w), z, q, w, Vars)
    BY <1>1 DEF Integers, Combines, Plus
  <2>2. Dot(Line(i), Plus(z, q, w), Vars) = Dot(Line(i), z, Vars) + q * Dot(Line(i), w, Vars)
    BY <2>1, LineType, DotCombined, IndicesFinite
  <2>3. Balance(i, z) = 0 /\ Balance(i, w) = 0
    BY DEF Balanced
  <2>4. q * 0 = 0
    OBVIOUS
  <2>5. QED
    BY <2>2, <2>3, <2>4 DEF Balance
<1>4. QED
  BY <1>2, <1>3 DEF Balanced

\* The part of a balance that a basis holds, and the rest.
LEMMA BalanceSplit ==
  ASSUME problem \in Problems, NEW b \in [Rows -> Vars], DualSolvable(b),
         NEW w \in [Vars -> Int], NEW i \in Rows
  PROVE  /\ Balance(i, w) = RowOf(i, b, AtBasis(b, w))
                            + Sum([v \in Vars |-> M(i, v) * w[v]], Vars \ Members(b))
         /\ RowOf(i, b, AtBasis(b, w)) \in Int
         /\ Sum([v \in Vars |-> M(i, v) * w[v]], Vars \ Members(b)) \in Int
<1> DEFINE f == [v \in Vars |-> M(i, v) * w[v]]
           g == [k \in Rows |-> M(i, b[k]) * AtBasis(b, w)[k]]
           B == Members(b)
<1>1. \A v \in Vars : f[v] \in Int
  BY MatrixType
<1>2. \A k \in Rows : g[k] = f[b[k]] /\ f[b[k]] \in Int
  BY <1>1 DEF AtBasis
<1>3. Balance(i, w) = Sum(f, Vars)
  <2> DEFINE e == [v \in Vars |-> Line(i)[v] * w[v]]
  <2>1. e = f
    BY LineType
  <2>2. QED
    BY <2>1 DEF Balance, Dot
<1>4. RowOf(i, b, AtBasis(b, w)) = Sum(g, Rows)
  BY DEF RowOf
<1> HIDE DEF f, g
<1>5. B \in SUBSET Vars /\ IsFiniteSet(B) /\ IsFiniteSet(Vars \ B) /\ IsFiniteSet(Rows) /\ IsFiniteSet(Vars)
  <2>1. B \in SUBSET Vars
    BY DEF Members
  <2>2. QED
    BY <2>1, IndicesFinite, FS_Subset
<1>6. Sum(f, B) = Sum(g, Rows)
  <2>1. \A x, z \in Rows : b[x] = b[z] => x = z
    BY NonsingularInjective
  <2>2. Sum(f, {b[k] : k \in Rows}) = Sum(g, Rows)
    BY <1>2, <1>5, <2>1, SumReindexed
  <2>3. QED
    BY <2>2 DEF Members
<1>7. Sum(f, Vars) = Sum(f, B) + Sum(f, Vars \ B)
  <2> HIDE DEF B
  <2>1. QED
    BY <1>1, <1>5, SumUnion
<1>8. Sum(f, B) \in Int /\ Sum(f, Vars \ B) \in Int
  <2>1. (\A v \in B : f[v] \in Int) /\ (\A v \in Vars \ B : f[v] \in Int)
    BY <1>1, <1>5
  <2> HIDE DEF B
  <2>2. QED
    BY <1>5, <2>1, SumType
<1>9. QED
  BY <1>3, <1>4, <1>6, <1>7, <1>8 DEF f

\* Balanced values are determined by those of the nonbasic variables.
LEMMA BalancedUnique ==
  ASSUME problem \in Problems, NEW b \in [Rows -> Vars], DualSolvable(b),
         NEW z, Balanced(z), NEW w, Balanced(w), \A v \in Vars \ Members(b) : z[v] = w[v]
  PROVE  z = w
<1> DEFINE d == Plus(z, -1, w)
<1>1. Balanced(d)
  BY BalancedPlus
<1>2. z \in [Vars -> Int] /\ w \in [Vars -> Int] /\ d \in [Vars -> Int]
  BY <1>1 DEF Balanced
<1>3. \A v \in Vars : d[v] = z[v] - w[v]
  BY <1>2 DEF Plus
<1> HIDE DEF d
<1>4. \A i \in Rows : RowOf(i, b, AtBasis(b, d)) = 0
  <2> SUFFICES ASSUME NEW i \in Rows
               PROVE  RowOf(i, b, AtBasis(b, d)) = 0
    OBVIOUS
  <2> DEFINE f == [v \in Vars |-> M(i, v) * d[v]]
             N == Vars \ Members(b)
  <2>1. \A v \in N : f[v] = 0
    <3>1. \A v \in N : d[v] = 0
      BY <1>2, <1>3
    <3>2. \A v \in N : M(i, v) \in Int
      BY MatrixType
    <3>3. QED
      BY <3>1, <3>2
  <2>2. IsFiniteSet(N)
    BY IndicesFinite, FS_Subset
  <2>3. Balance(i, d) = RowOf(i, b, AtBasis(b, d)) + Sum(f, N) /\ RowOf(i, b, AtBasis(b, d)) \in Int
    BY <1>2, BalanceSplit
  <2> HIDE DEF f, N
  <2>4. Sum(f, N) = 0
    BY <2>1, <2>2, SumOfZeros
  <2>5. QED
    BY <1>1, <2>3, <2>4 DEF Balanced
<1>5. AtBasis(b, d) \in [Rows -> Int]
  BY <1>2 DEF AtBasis
<1>6. Solves(problem.A, b, AtBasis(b, d), Zeros)
  BY <1>4, SolvesRows DEF Zeros
<1>7. \A k \in Rows : d[b[k]] = 0
  <2>1. \A k \in Rows : AtBasis(b, d)[k] = 0
    BY <1>5, <1>6, NonsingularKernel
  <2>2. QED
    BY <2>1 DEF AtBasis
<1>8. \A v \in Vars : z[v] = w[v]
  BY <1>2, <1>3, <1>7 DEF Members
<1>9. QED
  BY <1>2, <1>8

\* spx_recompute_xB() balances the values and leaves the nonbasic ones.
LEMMA RecomputedBalanced ==
  ASSUME problem \in Problems, Span = Int, NEW b, Nonsingular(b), NEW v \in [Vars -> Int]
  PROVE  /\ Balanced(Recomputed(b, v))
         /\ \A j \in Vars \ Members(b) : Recomputed(b, v)[j] = v[j]
<1> DEFINE nonbasic == Vars \ Members(b)
           rest(i) == Sum([j \in Vars |-> M(i, j) * v[j]], nonbasic)
           rhs == [i \in Rows |-> -rest(i)]
           z == Ftran(b, rhs)
           w == Recomputed(b, v)
<1>1. b \in [Rows -> Vars] /\ DualSolvable(b) /\ RowSolvable(b)
  BY DEF Nonsingular
<1>2. \A i \in Rows : rest(i) \in Int
  <2> SUFFICES ASSUME NEW i \in Rows
               PROVE  rest(i) \in Int
    OBVIOUS
  <2>1. Sum([j \in Vars |-> M(i, j) * v[j]], Vars \ Members(b)) \in Int
    BY <1>1, BalanceSplit
  <2>2. QED
    BY <2>1
<1>3. z \in [Rows -> Int] /\ \A i \in Rows : RowOf(i, b, z) = -rest(i)
  <2>1. rhs \in [Rows -> Int]
    <3> HIDE DEF rest
    <3>1. \A i \in Rows : -rest(i) \in Int
      BY <1>2
    <3>2. QED
      BY <3>1
  <2>2. z \in [Rows -> Int] /\ Solves(problem.A, b, z, rhs)
    <3> HIDE DEF rhs
    <3>1. QED
      BY <1>1, <2>1, FtranSolves
  <2>3. \A i \in Rows : RowOf(i, b, z) = rhs[i]
    <3> HIDE DEF z, rhs
    <3>1. QED
      BY <2>2, SolvesRows
  <2>4. QED
    BY <2>2, <2>3
<1>4. w = [j \in Vars |-> IF j \in nonbasic THEN v[j] ELSE z[CHOOSE k \in Rows : b[k] = j]]
  BY DEF Recomputed, Members
<1>5. \A k \in Rows : w[b[k]] = z[k]
  <2> SUFFICES ASSUME NEW k \in Rows
               PROVE  w[b[k]] = z[k]
    OBVIOUS
  <2>1. b[k] \in Vars /\ b[k] \notin nonbasic
    BY <1>1 DEF Members
  <2>2. (CHOOSE l \in Rows : b[l] = b[k]) = k
    BY <1>1, NonsingularInjective
  <2> HIDE DEF z, nonbasic, w
  <2>3. QED
    BY <1>4, <2>1, <2>2
<1>6. \A j \in nonbasic : w[j] = v[j]
  <2> HIDE DEF z, w
  <2>1. QED
    BY <1>4
<1>7. w \in [Vars -> Int]
  <2>1. \A j \in Vars : w[j] \in Int
    <3> SUFFICES ASSUME NEW j \in Vars
                 PROVE  w[j] \in Int
      OBVIOUS
    <3> HIDE DEF w, z
    <3>1. CASE j \in nonbasic
      BY <1>6, <3>1
    <3>2. CASE j \notin nonbasic
      BY <1>3, <1>5, <3>2 DEF Members
    <3>3. QED
      BY <3>1, <3>2
  <2>2. w = [j \in Vars |-> w[j]]
    <3> HIDE DEF z, nonbasic, w
    <3>1. QED
      BY <1>4
  <2> HIDE DEF w
  <2>3. QED
    BY <2>1, <2>2
<1>8. ASSUME NEW i \in Rows
      PROVE  Balance(i, w) = 0
  <2>1. Balance(i, w) = RowOf(i, b, AtBasis(b, w)) + Sum([j \in Vars |-> M(i, j) * w[j]], Vars \ Members(b))
    <3> HIDE DEF w
    <3>1. QED
      BY <1>1, <1>7, BalanceSplit
  <2>2. AtBasis(b, w) = z
    <3>1. z \in [Rows -> Int] /\ AtBasis(b, w) = [k \in Rows |-> w[b[k]]]
      BY <1>3 DEF AtBasis
    <3> HIDE DEF z, w
    <3>2. QED
      BY <1>5, <3>1
  <2>3. Sum([j \in Vars |-> M(i, j) * w[j]], nonbasic) = rest(i)
    <3> DEFINE f == [j \in Vars |-> M(i, j) * w[j]]
               g == [j \in Vars |-> M(i, j) * v[j]]
    <3>1. \A j \in nonbasic : f[j] \in Int /\ f[j] = g[j]
      <4>1. \A j \in nonbasic : M(i, j) \in Int /\ v[j] \in Int
        BY MatrixType
      <4> HIDE DEF w
      <4>2. QED
        BY <1>6, <4>1
    <3>2. IsFiniteSet(nonbasic)
      BY IndicesFinite, FS_Subset
    <3> HIDE DEF f, g, nonbasic
    <3>3. Sum(f, nonbasic) = Sum(g, nonbasic)
      BY <3>1, <3>2, SumEqual
    <3>4. QED
      BY <3>3 DEF f, g
  <2> HIDE DEF z, w, rest
  <2>4. QED
    BY <1>2, <1>3, <2>1, <2>2, <2>3
<1>9. QED
  BY <1>6, <1>7, <1>8 DEF Balanced

\* A balanced point is what its nonbasic values make of it.
LEMMA RecomputedSame ==
  ASSUME problem \in Problems, Span = Int, NEW b, Nonsingular(b), NEW w, Balanced(w)
  PROVE  Recomputed(b, w) = w
<1>1. w \in [Vars -> Int] /\ b \in [Rows -> Vars] /\ DualSolvable(b)
  BY DEF Balanced, Nonsingular
<1>2. QED
  BY <1>1, RecomputedBalanced, BalancedUnique

\* The direction in which the basic values answer to a nonbasic one.
Ray(b, v, dir) ==
    [u \in Vars |-> IF u = v THEN dir
                    ELSE IF u \in Members(b)
                    THEN -dir * Ftran(b, Column(v))[CHOOSE k \in Rows : b[k] = u]
                    ELSE 0]

\* The change of the values per unit of an entering variable is balanced.
LEMMA RayBalanced ==
  ASSUME problem \in Problems, Span = Int, NEW b, Nonsingular(b), NEW v \in Vars \ Members(b),
         NEW dir \in {-1, 1}
  PROVE  LET ray == Ray(b, v, dir) IN
         /\ Balanced(ray) /\ ray[v] = dir
         /\ \A k \in Rows : ray[b[k]] = -dir * Ftran(b, Column(v))[k] /\ ray[b[k]] \in {-1, 0, 1}
         /\ \A u \in Vars \ Members(b) : u # v => ray[u] = 0
<1> DEFINE ray == Ray(b, v, dir)
           a == Ftran(b, Column(v))
<1>1. b \in [Rows -> Vars] /\ DualSolvable(b)
  BY DEF Nonsingular
<1>2. a \in [Rows -> {-1, 0, 1}] /\ \A i \in Rows : RowOf(i, b, a) = M(i, v)
  BY ColumnSolved
<1>3. ray = [u \in Vars |-> IF u = v THEN dir
                            ELSE IF u \in Members(b) THEN -dir * a[CHOOSE k \in Rows : b[k] = u]
                            ELSE 0]
  BY DEF Ray
<1> HIDE DEF ray, a
<1>4. ray[v] = dir /\ \A u \in Vars \ Members(b) : u # v => ray[u] = 0
  BY <1>3
<1>5. \A k \in Rows : ray[b[k]] = -dir * a[k]
  <2> SUFFICES ASSUME NEW k \in Rows
               PROVE  ray[b[k]] = -dir * a[k]
    OBVIOUS
  <2>1. b[k] \in Vars /\ b[k] \in Members(b) /\ b[k] # v
    BY <1>1 DEF Members
  <2>2. (CHOOSE l \in Rows : b[l] = b[k]) = k
    BY <1>1, NonsingularInjective
  <2>3. QED
    BY <1>3, <2>1, <2>2
<1>6. \A k \in Rows : ray[b[k]] \in {-1, 0, 1}
  <2>1. \A k \in Rows : a[k] \in {-1, 0, 1}
    BY <1>2
  <2>2. QED
    BY <1>5, <2>1
<1>7. ray \in [Vars -> Int]
  <2>1. \A u \in Vars : ray[u] \in Int
    <3> SUFFICES ASSUME NEW u \in Vars
                 PROVE  ray[u] \in Int
      OBVIOUS
    <3>1. CASE u \in Members(b)
      BY <1>6, <3>1 DEF Members
    <3>2. CASE u \notin Members(b)
      BY <1>4, <3>2
    <3>3. QED
      BY <3>1, <3>2
  <2>2. ray = [u \in Vars |-> ray[u]]
    BY <1>3
  <2>3. QED
    BY <2>1, <2>2
<1>8. ASSUME NEW i \in Rows
      PROVE  Balance(i, ray) = 0
  <2> DEFINE N == Vars \ Members(b)
             f == [u \in Vars |-> M(i, u) * ray[u]]
  <2>1. Balance(i, ray) = RowOf(i, b, AtBasis(b, ray)) + Sum(f, N) /\ RowOf(i, b, AtBasis(b, ray)) \in Int
    BY <1>1, <1>7, BalanceSplit
  <2>2. Sum(f, N) = M(i, v) * dir
    <3>1. f[v] = M(i, v) * dir /\ f[v] \in Int /\ \A u \in N \ {v} : f[u] = 0
      <4>1. M(i, v) \in Int /\ \A u \in N : M(i, u) \in Int
        BY MatrixType
      <4>2. \A u \in Vars : f[u] = M(i, u) * ray[u]
        OBVIOUS
      <4> HIDE DEF f
      <4>3. QED
        BY <1>4, <4>1, <4>2
    <3>2. IsFiniteSet(N) /\ v \in N
      BY IndicesFinite, FS_Subset
    <3> HIDE DEF f, N
    <3>3. QED
      BY <3>1, <3>2, SumSingle
  <2>3. RowOf(i, b, AtBasis(b, ray)) = (-dir) * M(i, v)
    <3> DEFINE g == [k \in Rows |-> M(i, b[k]) * AtBasis(b, ray)[k]]
               h == [k \in Rows |-> M(i, b[k]) * a[k]]
    <3>1. \A k \in Rows : h[k] \in Int /\ g[k] = (-dir) * h[k]
      <4> SUFFICES ASSUME NEW k \in Rows
                   PROVE  h[k] \in Int /\ g[k] = (-dir) * h[k]
        OBVIOUS
      <4>1. M(i, b[k]) \in {-1, 0, 1} /\ a[k] \in {-1, 0, 1}
        BY <1>1, <1>2, MatrixType
      <4>2. g[k] = M(i, b[k]) * (-dir * a[k]) /\ h[k] = M(i, b[k]) * a[k]
        BY <1>5 DEF AtBasis
      <4> HIDE DEF g, h
      <4>3. QED
        BY <4>1, <4>2
    <3>2. RowOf(i, b, AtBasis(b, ray)) = Sum(g, Rows) /\ RowOf(i, b, a) = Sum(h, Rows)
      BY DEF RowOf
    <3>3. -dir \in Int
      OBVIOUS
    <3> HIDE DEF g, h
    <3>4. Sum(g, Rows) = (-dir) * Sum(h, Rows)
      BY <3>1, <3>3, SumScaled, IndicesFinite
    <3>5. QED
      BY <1>2, <3>2, <3>4
  <2>4. M(i, v) \in {-1, 0, 1}
    BY MatrixType
  <2> HIDE DEF f, N
  <2>5. QED
    BY <2>1, <2>2, <2>3, <2>4
<1>9. QED
  BY <1>4, <1>5, <1>6, <1>7, <1>8 DEF Balanced, ray, a

\* Multipliers of the rows are orthogonal to balanced values.
LEMMA Orthogonal ==
  ASSUME problem \in Problems, NEW p \in [Rows -> Int], NEW w, Balanced(w)
  PROVE  Sum([v \in Vars |-> Along(p, v) * w[v]], Vars) = 0
<1> DEFINE id == [v \in Vars |-> v]
           f == [v \in Vars |-> Along(p, id[v]) * w[v]]
           g == [i \in Rows |-> p[i] * Zeros[i]]
<1>1. w \in [Vars -> Int] /\ id \in [Vars -> Vars] /\ IsFiniteSet(Vars)
  BY IndicesFinite DEF Balanced
<1>2. Makes(Zeros, Vars, id, w)
  <2> SUFFICES ASSUME NEW i \in Rows
               PROVE  Zeros[i] = Sum([v \in Vars |-> M(i, id[v]) * w[v]], Vars)
    BY DEF Makes
  <2>1. Balance(i, w) = 0
    BY DEF Balanced
  <2>2. [v \in Vars |-> M(i, id[v]) * w[v]] = [v \in Vars |-> Line(i)[v] * w[v]]
    BY LineType
  <2>3. Zeros[i] = 0
    BY DEF Zeros
  <2> HIDE DEF id
  <2>4. QED
    BY <2>1, <2>2, <2>3 DEF Balance, Dot
<1>3. f = [v \in Vars |-> Along(p, v) * w[v]]
  OBVIOUS
<1>4. Sum(g, Rows) = 0
  <2>1. \A i \in Rows : g[i] = 0
    BY DEF Zeros
  <2> HIDE DEF g
  <2>2. QED
    BY <2>1, SumOfZeros, IndicesFinite
<1> HIDE DEF id
<1>5. Sum(f, Vars) = Sum(g, Rows)
  BY <1>1, <1>2, Pairing
<1>6. QED
  BY <1>3, <1>4, <1>5

(***************************************************************************)
(* Prices.                                                                 *)
(***************************************************************************)
\* What the loop minimizes, at the present values.
Gradient(v) ==
    IF ~ phase1 THEN Cost(v)
    ELSE IF v \notin Basic THEN 0
    ELSE IF Below(v, xval[v]) THEN -1 ELSE IF Above(v, xval[v]) THEN 1 ELSE 0

\* A cost is an integer, that of a logical zero.
LEMMA CostType ==
  ASSUME problem \in Problems, NEW v \in Vars
  PROVE  Cost(v) \in Int
<1>1. problem.c \in [Cols -> Int]
  BY ProblemType
<1>2. QED
  BY <1>1 DEF Cost

\* A gradient is an integer.
LEMMA GradientType ==
  ASSUME TypeOK, NEW v \in Vars
  PROVE  Gradient(v) \in Int
BY CostType DEF TypeOK, Gradient

\* The variables of the basis.
LEMMA BasicMembers ==
  ASSUME TypeOK
  PROVE  /\ Basic = Members(basis) /\ Basic \subseteq Vars
         /\ basis \in [Rows -> Vars]
         /\ \A k \in Rows : basis[k] \in Basic /\ basis[k] \in Vars
BY DEF TypeOK, Basic, Members

\* Along balanced values, the prices sum to the change of what is minimized.
LEMMA PricedIsGradient ==
  ASSUME TypeOK, Span = Int, Nonsingular(basis)
  PROVE  /\ Priced \in [Vars -> Int] /\ \A v \in Basic : Priced[v] = 0
         /\ \A w : Balanced(w) =>
               Sum([v \in Vars |-> Priced[v] * w[v]], Vars) = Sum([v \in Vars |-> Gradient(v) * w[v]], Vars)
<1> DEFINE cost == BasicCost(phase1)
           dual == Btran(basis, cost)
<1>1. problem \in Problems /\ phase1 \in BOOLEAN
  BY DEF TypeOK
<1>2. cost \in [Rows -> Int] /\ \A k \in Rows : cost[k] = Gradient(basis[k])
  <2>1. \A k \in Rows : cost[k] = Gradient(basis[k])
    BY <1>1, BasicMembers DEF BasicCost, Gradient
  <2>2. \A k \in Rows : cost[k] \in Int
    BY <2>1, GradientType, BasicMembers
  <2>3. cost = [k \in Rows |-> cost[k]]
    BY DEF BasicCost
  <2> HIDE DEF cost
  <2>4. QED
    BY <2>1, <2>2, <2>3
<1>3. dual \in [Rows -> Int] /\ \A k \in Rows : Along(dual, basis[k]) = cost[k]
  <2> HIDE DEF cost
  <2>1. QED
    BY <1>1, <1>2, BtranSolves DEF Nonsingular
<1>4. Priced = [v \in Vars |-> IF v \in Basic THEN 0
                               ELSE (IF phase1 THEN 0 ELSE Cost(v)) - Along(dual, v)]
  BY DEF Priced
<1> HIDE DEF cost, dual
<1>5. \A v \in Vars : /\ Along(dual, v) \in Int /\ Gradient(v) \in Int
                      /\ Priced[v] = Gradient(v) - Along(dual, v)
  <2> SUFFICES ASSUME NEW v \in Vars
               PROVE  /\ Along(dual, v) \in Int /\ Gradient(v) \in Int
                      /\ Priced[v] = Gradient(v) - Along(dual, v)
    OBVIOUS
  <2>1. Along(dual, v) \in Int /\ Gradient(v) \in Int
    BY <1>1, <1>3, AlongType, GradientType
  <2>2. CASE v \in Basic
    <3>1. PICK k \in Rows : v = basis[k]
      BY <2>2 DEF Basic
    <3>2. Along(dual, v) = Gradient(v)
      BY <1>2, <1>3, <3>1
    <3>3. QED
      BY <1>4, <2>1, <2>2, <3>2
  <2>3. CASE v \notin Basic
    <3>1. Gradient(v) = IF phase1 THEN 0 ELSE Cost(v)
      BY <1>1, <2>3 DEF Gradient
    <3>2. QED
      BY <1>4, <2>1, <2>3, <3>1
  <2>4. QED
    BY <2>2, <2>3
<1>6. Priced \in [Vars -> Int]
  <2>1. \A v \in Vars : Priced[v] \in Int
    BY <1>5
  <2>2. Priced = [v \in Vars |-> Priced[v]]
    BY <1>4
  <2>3. QED
    BY <2>1, <2>2
<1>7. \A v \in Basic : Priced[v] = 0
  BY <1>4, BasicMembers
<1>8. ASSUME NEW w, Balanced(w)
      PROVE  Sum([v \in Vars |-> Priced[v] * w[v]], Vars) = Sum([v \in Vars |-> Gradient(v) * w[v]], Vars)
  <2> DEFINE f == [v \in Vars |-> Priced[v] * w[v]]
             g == [v \in Vars |-> Along(dual, v) * w[v]]
             h == [v \in Vars |-> Gradient(v) * w[v]]
  <2>1. \A v \in Vars : f[v] \in Int /\ g[v] \in Int /\ h[v] = f[v] + g[v]
    <3> SUFFICES ASSUME NEW v \in Vars
                 PROVE  f[v] \in Int /\ g[v] \in Int /\ h[v] = f[v] + g[v]
      OBVIOUS
    <3>1. f[v] = Priced[v] * w[v] /\ g[v] = Along(dual, v) * w[v] /\ h[v] = Gradient(v) * w[v]
      OBVIOUS
    <3>2. w[v] \in Int
      BY <1>8 DEF Balanced
    <3>3. PICK a \in Int : a = Along(dual, v)
      BY <1>5
    <3>4. PICK d \in Int : d = Priced[v]
      BY <1>5
    <3>5. Gradient(v) = d + a
      BY <1>5, <3>3, <3>4
    <3> HIDE DEF f, g, h
    <3>6. QED
      BY <3>1, <3>2, <3>3, <3>4, <3>5
  <2>2. Sum(g, Vars) = 0
    BY <1>1, <1>3, <1>8, Orthogonal
  <2> HIDE DEF f, g, h
  <2>3. Sum(h, Vars) = Sum(f, Vars) + Sum(g, Vars) /\ Sum(f, Vars) \in Int
    BY <2>1, SumOfSum, SumType, IndicesFinite
  <2>4. Sum(h, Vars) = Sum(f, Vars)
    BY <2>2, <2>3
  <2>5. QED
    BY <2>4 DEF f, h
<1>9. QED
  BY <1>6, <1>7, <1>8

(***************************************************************************)
(* Working bounds.                                                         *)
(***************************************************************************)
\* A finite set of integers has its extremes among its members.
LEMMA LargestMember ==
  ASSUME NEW S, IsFiniteSet(S), S \subseteq Int, S # {}
  PROVE  /\ Max(S) \in S /\ \A n \in S : n <= Max(S)
         /\ Min(S) \in S /\ \A n \in S : Min(S) <= n
<1>1. \E m \in S : \A n \in S : m >= n
  BY FiniteExtremes
<1>2. \E m \in S : \A n \in S : m <= n
  BY FiniteExtremes
<1>3. Max(S) \in S /\ \A n \in S : Max(S) >= n
  BY <1>1 DEF Max
<1>4. Min(S) \in S /\ \A n \in S : Min(S) <= n
  BY <1>2 DEF Min
<1>5. QED
  BY <1>3, <1>4

\* The extremes of a pair.
LEMMA PairExtremes ==
  ASSUME NEW m \in Int, NEW n \in Int
  PROVE  /\ Max({m, n}) \in {m, n} /\ m <= Max({m, n}) /\ n <= Max({m, n})
         /\ Min({m, n}) \in {m, n} /\ Min({m, n}) <= m /\ Min({m, n}) <= n
<1>1. IsFiniteSet({m}) /\ {m, n} = {m} \cup {n}
  BY FS_Singleton
<1>2. IsFiniteSet({m} \cup {n})
  BY <1>1, FS_AddElement
<1>3. IsFiniteSet({m, n}) /\ {m, n} \subseteq Int /\ {m, n} # {} /\ m \in {m, n} /\ n \in {m, n}
  BY <1>1, <1>2
<1>4. QED
  BY <1>3, LargestMember

\* A bound is small against infinity, or beyond it on its own side.
LowerOK(n) == n \in Int /\ n < Infinite /\ (Finite(n) => 2 * Size(n) < Infinite)
UpperOK(n) == n \in Int /\ n > -Infinite /\ (Finite(n) => 2 * Size(n) < Infinite)

\* A bound scaled by the columns is small when it is only doubled.
LEMMA Doubled ==
  ASSUME NEW n \in Nat \ {0}, NEW s \in Nat, NEW t \in Nat, 2 * n * s < t
  PROVE  2 * s < t
<1>1. PICK m \in Nat : n = m + 1
  <2>1. n - 1 \in Nat /\ n = (n - 1) + 1
    OBVIOUS
  <2>2. QED
    BY <2>1
<1>2. m * s \in Nat
  OBVIOUS
<1>3. 2 * n * s = 2 * (m * s) + 2 * s
  BY <1>1
<1>4. QED
  BY <1>2, <1>3

\* The bounds the model admits, and those mirrored by a row with a negative entry.
LEMMA BoundSides ==
  ASSUME NEW b, BoundsOK(b)
  PROVE  /\ LowerOK(b.lo) /\ UpperOK(b.hi) /\ b.lo <= b.hi
         /\ LowerOK(-b.hi) /\ UpperOK(-b.lo)
         /\ (Finite(-b.lo) <=> Finite(b.lo)) /\ (Finite(-b.hi) <=> Finite(b.hi))
<1>1. NCols \in Nat \ {0} /\ Infinite \in Nat \ {0}
  BY SimplexAssumption
<1>2. b.lo \in Int /\ b.hi \in Int /\ b.lo <= b.hi /\ b.lo < Infinite /\ b.hi > -Infinite
  BY DEF BoundsOK
<1>3. ASSUME NEW n \in {b.lo, b.hi}, Finite(n)
      PROVE  2 * Size(n) < Infinite
  <2>1. 2 * NCols * Size(n) < Infinite
    BY <1>3 DEF BoundsOK
  <2>2. Size(n) \in Nat
    BY <1>2 DEF Size
  <2>3. QED
    BY <1>1, <2>1, <2>2, Doubled
<1>4. \A n \in Int : Size(-n) = Size(n)
  BY DEF Size
<1>5. QED
  BY <1>1, <1>2, <1>3, <1>4 DEF LowerOK, UpperOK, Finite

\* A singleton row bounds its column.
LEMMA ImpliedBound ==
  ASSUME problem \in Problems, NEW j \in Cols, NEW i \in SingletonRows(j)
  PROVE  /\ i \in Rows /\ problem.A[i][j] \in {-1, 1}
         /\ \A q \in Cols \ {j} : problem.A[i][q] = 0
         /\ LowerOK(Implied(i, j).lo) /\ UpperOK(Implied(i, j).hi)
         /\ \A p \in [Cols -> Int] : Product(problem.A[i], p) = problem.A[i][j] * p[j]
         /\ \A p \in [Cols -> Int] :
               Within(Product(problem.A[i], p), problem.row[i]) => Within(p[j], Implied(i, j))
<1>1. problem.A \in [Rows -> [Cols -> {-1, 0, 1}]] /\ BoundsOK(problem.row[i])
  BY ProblemType DEF SingletonRows
<1>2. i \in Rows /\ {q \in Cols : problem.A[i][q] # 0} = {j}
  BY DEF SingletonRows
<1>3. problem.A[i][j] \in {-1, 1} /\ \A q \in Cols \ {j} : problem.A[i][q] = 0
  BY <1>1, <1>2
<1>4. \A p \in [Cols -> Int] : Product(problem.A[i], p) = problem.A[i][j] * p[j]
  <2> SUFFICES ASSUME NEW p \in [Cols -> Int]
               PROVE  Product(problem.A[i], p) = problem.A[i][j] * p[j]
    OBVIOUS
  <2> DEFINE f == [q \in Cols |-> problem.A[i][q] * p[q]]
  <2>1. f[j] = problem.A[i][j] * p[j] /\ f[j] \in Int /\ \A q \in Cols \ {j} : f[q] = 0
    <3>1. \A q \in Cols : p[q] \in Int /\ f[q] = problem.A[i][q] * p[q]
      OBVIOUS
    <3> HIDE DEF f
    <3>2. QED
      BY <1>3, <3>1
  <2> HIDE DEF f
  <2>2. Sum(f, Cols) = f[j]
    BY <2>1, SumSingle, IndicesFinite
  <2>3. QED
    BY <2>1, <2>2 DEF Product, f
<1>5. LowerOK(Implied(i, j).lo) /\ UpperOK(Implied(i, j).hi)
  BY <1>1, BoundSides DEF Implied
<1>6. ASSUME NEW p \in [Cols -> Int], Within(Product(problem.A[i], p), problem.row[i])
      PROVE  Within(p[j], Implied(i, j))
  <2>1. p[j] \in Int /\ Within(problem.A[i][j] * p[j], problem.row[i])
    BY <1>4, <1>6
  <2>2. problem.row[i].lo \in Int /\ problem.row[i].hi \in Int
    BY <1>1 DEF BoundsOK
  <2>3. CASE problem.A[i][j] = 1
    BY <2>1, <2>2, <2>3 DEF Within, Implied
  <2>4. CASE problem.A[i][j] = -1
    <3>1. Implied(i, j) = [lo |-> -problem.row[i].hi, hi |-> -problem.row[i].lo]
      BY <2>4 DEF Implied
    <3>2. Within(-p[j], problem.row[i])
      <4>1. problem.A[i][j] * p[j] = -p[j]
        BY <2>1, <2>4
      <4>2. QED
        BY <2>1, <4>1
    <3>3. (Finite(-problem.row[i].lo) <=> Finite(problem.row[i].lo))
          /\ (Finite(-problem.row[i].hi) <=> Finite(problem.row[i].hi))
      BY <1>1, BoundSides
    <3>4. QED
      BY <2>1, <2>2, <3>1, <3>2, <3>3 DEF Within
  <2>5. QED
    BY <1>3, <2>3, <2>4
<1>7. QED
  BY <1>2, <1>3, <1>4, <1>5, <1>6

\* A logical has the bounds of its row.
LEMMA RowWorkBound ==
  ASSUME problem \in Problems, NEW v \in Vars, v \notin Cols
  PROVE  /\ WorkBound(v) = problem.row[v - NCols] /\ v - NCols \in Rows
         /\ LowerOK(WorkBound(v).lo) /\ UpperOK(WorkBound(v).hi)
         /\ WorkBound(v).lo <= WorkBound(v).hi
<1>1. v - NCols \in Rows
  BY VarsSplit
<1>2. BoundsOK(problem.row[v - NCols])
  BY <1>1, ProblemType
<1>3. QED
  BY <1>1, <1>2, BoundSides DEF WorkBound

\* The working bounds of a column are its own or those of a singleton row, the
\* tightest of them.
LEMMA ColumnWorkBound ==
  ASSUME problem \in Problems, NEW j \in Cols
  PROVE  /\ LowerOK(WorkBound(j).lo) /\ UpperOK(WorkBound(j).hi)
         /\ problem.col[j].lo <= WorkBound(j).lo /\ WorkBound(j).hi <= problem.col[j].hi
         /\ \/ WorkBound(j).lo = problem.col[j].lo
            \/ \E i \in SingletonRows(j) : WorkBound(j).lo = Implied(i, j).lo
         /\ \/ WorkBound(j).hi = problem.col[j].hi
            \/ \E i \in SingletonRows(j) : WorkBound(j).hi = Implied(i, j).hi
<1>1. BoundsOK(problem.col[j])
  BY ProblemType
<1>2. LowerOK(problem.col[j].lo) /\ UpperOK(problem.col[j].hi)
  BY <1>1, BoundSides
<1>3. CASE ~ problem.presolve
  <2>1. WorkBound(j) = problem.col[j]
    BY <1>3 DEF WorkBound
  <2>2. QED
    BY <1>2, <2>1 DEF LowerOK, UpperOK
<1>4. CASE problem.presolve
  <2> DEFINE L == {problem.col[j].lo} \cup {Implied(i, j).lo : i \in SingletonRows(j)}
             H == {problem.col[j].hi} \cup {Implied(i, j).hi : i \in SingletonRows(j)}
  <2>1. WorkBound(j).lo = Max(L) /\ WorkBound(j).hi = Min(H)
    BY <1>4 DEF WorkBound
  <2>2. IsFiniteSet(L) /\ IsFiniteSet(H)
    <3>1. IsFiniteSet(SingletonRows(j))
      BY IndicesFinite, FS_Subset DEF SingletonRows
    <3> DEFINE f == [i \in SingletonRows(j) |-> Implied(i, j).lo]
               g == [i \in SingletonRows(j) |-> Implied(i, j).hi]
               F == {Implied(i, j).lo : i \in SingletonRows(j)}
               G == {Implied(i, j).hi : i \in SingletonRows(j)}
    <3>2. f \in Surjection(SingletonRows(j), F) /\ g \in Surjection(SingletonRows(j), G)
      BY DEF Surjection
    <3>3. IsFiniteSet(F) /\ IsFiniteSet(G)
      <4> HIDE DEF f, g, F, G
      <4>1. QED
        BY <3>1, <3>2, FS_Surjection
    <3>4. L = F \cup {problem.col[j].lo} /\ H = G \cup {problem.col[j].hi}
      OBVIOUS
    <3> HIDE DEF F, G, L, H
    <3>5. QED
      BY <3>3, <3>4, FS_AddElement
  <2>3. (\A n \in L : LowerOK(n)) /\ (\A n \in H : UpperOK(n))
    BY <1>2, ImpliedBound
  <2>4. L \subseteq Int /\ H \subseteq Int /\ L # {} /\ H # {}
    <3>1. L # {} /\ H # {}
      OBVIOUS
    <3> HIDE DEF L, H
    <3>2. QED
      BY <2>3, <3>1 DEF LowerOK, UpperOK
  <2>5. /\ Max(L) \in L /\ \A n \in L : n <= Max(L)
        /\ Min(H) \in H /\ \A n \in H : Min(H) <= n
    <3> HIDE DEF L, H
    <3>1. QED
      BY <2>2, <2>4, LargestMember
  <2>6. problem.col[j].lo \in L /\ problem.col[j].hi \in H
    OBVIOUS
  <2>7. /\ Max(L) = problem.col[j].lo \/ \E i \in SingletonRows(j) : Max(L) = Implied(i, j).lo
        /\ Min(H) = problem.col[j].hi \/ \E i \in SingletonRows(j) : Min(H) = Implied(i, j).hi
    BY <2>5
  <2> HIDE DEF L, H
  <2>8. QED
    BY <2>1, <2>3, <2>5, <2>6, <2>7
<1>5. QED
  BY <1>3, <1>4, ProblemType

(***************************************************************************)
(* Points of the problem, with the activities of its rows.                 *)
(***************************************************************************)
Full(p) == [v \in Vars |-> IF v \in Cols THEN p[v] ELSE Product(problem.A[v - NCols], p)]

\* Activities and objectives of integer points are integers.
LEMMA ProductType ==
  ASSUME problem \in Problems, NEW p, Integers(p, Cols)
  PROVE  /\ \A i \in Rows : Product(problem.A[i], p) \in Int
         /\ Product(problem.c, p) \in Int
<1>1. /\ \A i \in Rows : Integers(problem.A[i], Cols)
      /\ Integers(problem.c, Cols)
  BY ProblemType DEF Integers
<1>2. \A a : Product(a, p) = Dot(a, p, Cols)
  BY DEF Product, Dot
<1>3. QED
  BY <1>1, <1>2, DotType, IndicesFinite

\* Only the structural values count in a product.
LEMMA ProductSame ==
  ASSUME NEW a, Integers(a, Cols), NEW p, Integers(p, Cols), NEW w, \A j \in Cols : w[j] = p[j]
  PROVE  Product(a, w) = Product(a, p)
<1> DEFINE f == [j \in Cols |-> a[j] * w[j]]
           g == [j \in Cols |-> a[j] * p[j]]
<1>1. f = g
  OBVIOUS
<1>2. QED
  BY <1>1 DEF Product

\* What a row leaves is its activity less the value of its logical.
LEMMA BalanceIsActivity ==
  ASSUME problem \in Problems, NEW w \in [Vars -> Int], NEW i \in Rows
  PROVE  Balance(i, w) = Product(problem.A[i], w) - w[NCols + i]
<1> DEFINE f == [v \in Vars |-> Line(i)[v] * w[v]]
           g == [j \in Cols |-> problem.A[i][j] * w[j]]
           v0 == NCols + i
<1>1. \A v \in Vars : f[v] = M(i, v) * w[v] /\ f[v] \in Int
  BY MatrixType, LineType
<1>2. Sum(f, Cols) = Sum(g, Cols)
  <2>1. \A j \in Cols : f[j] \in Int /\ f[j] = g[j]
    BY <1>1, MatrixType, IndicesFinite
  <2> HIDE DEF f, g
  <2>2. QED
    BY <2>1, SumEqual, IndicesFinite
<1>3. Sum(f, Vars \ Cols) = -w[v0]
  <2>1. v0 \in Vars \ Cols /\ w[v0] \in Int
    BY IndicesFinite
  <2>2. f[v0] = -w[v0] /\ \A v \in (Vars \ Cols) \ {v0} : f[v] = 0
    <3>1. M(i, v0) = -1
      BY MatrixType
    <3>2. \A v \in (Vars \ Cols) \ {v0} : M(i, v) = 0
      <4> SUFFICES ASSUME NEW v \in (Vars \ Cols) \ {v0}
                   PROVE  M(i, v) = 0
        OBVIOUS
      <4>1. v - NCols \in Rows /\ v = NCols + (v - NCols)
        BY VarsSplit
      <4>2. v - NCols # i
        BY <4>1
      <4>3. \A k \in Rows : M(i, NCols + k) = IF k = i THEN -1 ELSE 0
        BY MatrixType
      <4>4. QED
        BY <4>1, <4>2, <4>3
    <3>3. \A v \in Vars : w[v] \in Int
      OBVIOUS
    <3> HIDE DEF f
    <3>4. QED
      BY <1>1, <2>1, <3>1, <3>2, <3>3
  <2>3. IsFiniteSet(Vars \ Cols)
    BY IndicesFinite, FS_Subset
  <2>4. f[v0] \in Int
    BY <1>1, <2>1
  <2> HIDE DEF f, v0
  <2>5. QED
    BY <2>1, <2>2, <2>3, <2>4, SumSingle
<1>4. Sum(f, Vars) = Sum(f, Cols) + Sum(f, Vars \ Cols)
  <2>1. Cols \in SUBSET Vars /\ IsFiniteSet(Vars)
    BY IndicesFinite
  <2> HIDE DEF f
  <2>2. QED
    BY <1>1, <2>1, SumUnion
<1>5. Sum(f, Cols) \in Int /\ w[v0] \in Int
  <2>1. \A v \in Cols : f[v] \in Int
    BY <1>1, IndicesFinite
  <2> HIDE DEF f
  <2>2. QED
    BY <2>1, SumType, IndicesFinite
<1>6. Balance(i, w) = Sum(f, Vars) /\ Product(problem.A[i], w) = Sum(g, Cols)
  BY DEF Balance, Dot, Product
<1> HIDE DEF f, g
<1>7. QED
  BY <1>2, <1>3, <1>4, <1>5, <1>6

\* A point with the activities as its logicals is balanced.
LEMMA FullBalanced ==
  ASSUME problem \in Problems, NEW p \in [Cols -> Int]
  PROVE  /\ Balanced(Full(p))
         /\ \A j \in Cols : Full(p)[j] = p[j]
         /\ \A i \in Rows : Full(p)[NCols + i] = Product(problem.A[i], p)
<1>1. Integers(p, Cols)
  BY DEF Integers
<1>2. /\ \A j \in Cols : Full(p)[j] = p[j]
      /\ \A i \in Rows : Full(p)[NCols + i] = Product(problem.A[i], p)
  <2>1. \A i \in Rows : NCols + i \in Vars \ Cols /\ (NCols + i) - NCols = i
    BY IndicesFinite DEF Rows
  <2>2. QED
    BY <2>1, IndicesFinite DEF Full
<1>3. Full(p) \in [Vars -> Int]
  <2>1. ASSUME NEW v \in Vars
        PROVE  Full(p)[v] \in Int
    <3>1. CASE v \in Cols
      BY <1>2, <3>1
    <3>2. CASE v \notin Cols
      <4>1. v - NCols \in Rows
        BY <3>2, VarsSplit
      <4>2. Product(problem.A[v - NCols], p) \in Int
        BY <1>1, <4>1, ProductType
      <4>3. QED
        BY <3>2, <4>2 DEF Full
    <3>3. QED
      BY <3>1, <3>2
  <2>2. Full(p) = [v \in Vars |-> Full(p)[v]]
    BY DEF Full
  <2>3. QED
    BY <2>1, <2>2
<1>4. ASSUME NEW i \in Rows
      PROVE  Balance(i, Full(p)) = 0
  <2>1. Balance(i, Full(p)) = Product(problem.A[i], Full(p)) - Full(p)[NCols + i]
    BY <1>3, BalanceIsActivity
  <2>2. Integers(problem.A[i], Cols)
    BY ProblemType DEF Integers
  <2>3. Product(problem.A[i], Full(p)) = Product(problem.A[i], p)
    BY <1>1, <1>2, <2>2, ProductSame
  <2>4. Product(problem.A[i], p) \in Int
    BY <1>1, ProductType
  <2>5. QED
    BY <1>2, <2>1, <2>3, <2>4
<1>5. QED
  BY <1>2, <1>3, <1>4 DEF Balanced

WorkingBounds == /\ lb = [v \in Vars |-> WorkBound(v).lo]
                 /\ ub = [v \in Vars |-> WorkBound(v).hi]
WorkRange(v) == [lo |-> lb[v], hi |-> ub[v]]

\* The working bounds keep to their side of infinity.
LEMMA BoundsType ==
  ASSUME problem \in Problems, WorkingBounds, NEW v \in Vars
  PROVE  /\ LowerOK(lb[v]) /\ UpperOK(ub[v])
         /\ lb[v] = WorkBound(v).lo /\ ub[v] = WorkBound(v).hi
<1>1. lb[v] = WorkBound(v).lo /\ ub[v] = WorkBound(v).hi
  BY DEF WorkingBounds
<1>2. QED
  BY <1>1, RowWorkBound, ColumnWorkBound

\* The points of the problem lie within the working bounds.
LEMMA WithinWorking ==
  ASSUME problem \in Problems, WorkingBounds, NEW p \in [Cols -> Int], Satisfies(p), NEW v \in Vars
  PROVE  Within(Full(p)[v], WorkRange(v))
<1>1. lb[v] = WorkBound(v).lo /\ ub[v] = WorkBound(v).hi
  BY BoundsType
<1>2. /\ \A j \in Cols : Within(p[j], problem.col[j])
      /\ \A i \in Rows : Within(Product(problem.A[i], p), problem.row[i])
  BY DEF Satisfies
<1>3. CASE v \notin Cols
  <2>1. WorkBound(v) = problem.row[v - NCols] /\ v - NCols \in Rows
    BY <1>3, RowWorkBound
  <2>2. Full(p)[v] = Product(problem.A[v - NCols], p)
    BY <1>3 DEF Full
  <2>3. QED
    BY <1>1, <1>2, <2>1, <2>2 DEF Within, WorkRange
<1>4. CASE v \in Cols
  <2>1. Full(p)[v] = p[v]
    BY <1>4, FullBalanced
  <2>2. \A i \in SingletonRows(v) : Within(p[v], Implied(i, v))
    <3> SUFFICES ASSUME NEW i \in SingletonRows(v)
                 PROVE  Within(p[v], Implied(i, v))
      OBVIOUS
    <3>1. /\ i \in Rows
          /\ \A q \in [Cols -> Int] :
                Within(Product(problem.A[i], q), problem.row[i]) => Within(q[v], Implied(i, v))
      BY <1>4, ImpliedBound
    <3>2. QED
      BY <1>2, <3>1
  <2>3. Within(p[v], problem.col[v])
    BY <1>2, <1>4
  <2>4. /\ \/ WorkBound(v).lo = problem.col[v].lo
           \/ \E i \in SingletonRows(v) : WorkBound(v).lo = Implied(i, v).lo
        /\ \/ WorkBound(v).hi = problem.col[v].hi
           \/ \E i \in SingletonRows(v) : WorkBound(v).hi = Implied(i, v).hi
    BY <1>4, ColumnWorkBound
  <2>5. Finite(WorkBound(v).lo) => WorkBound(v).lo <= p[v]
    BY <2>2, <2>3, <2>4 DEF Within
  <2>6. Finite(WorkBound(v).hi) => p[v] <= WorkBound(v).hi
    BY <2>2, <2>3, <2>4 DEF Within
  <2>7. QED
    BY <1>1, <2>1, <2>5, <2>6 DEF Within, WorkRange
<1>5. QED
  BY <1>3, <1>4

(***************************************************************************)
(* Marks of the nonbasic variables, and the signs of their prices.         *)
(***************************************************************************)
Ordered == \A v \in Vars : lb[v] <= ub[v]
NonbasicMarked ==
    \A v \in Vars \ Basic :
        /\ stat[v] = "LOWER" => Finite(lb[v]) /\ xval[v] = lb[v]
        /\ stat[v] = "UPPER" => Finite(ub[v]) /\ xval[v] = ub[v]
        /\ stat[v] = "FREE" => ~ Finite(lb[v]) /\ ~ Finite(ub[v]) /\ xval[v] = 0
        /\ stat[v] # "BASIC"

\* Factors of one sign have a nonnegative product.
LEMMA SignedProduct ==
  ASSUME NEW d \in Int, NEW e \in Int, \/ d >= 0 /\ e >= 0
                                       \/ d <= 0 /\ e <= 0
  PROVE  d * e >= 0
<1>1. CASE d >= 0 /\ e >= 0
  BY <1>1
<1>2. CASE d <= 0 /\ e <= 0
  <2>1. (-d) * (-e) >= 0
    BY <1>2
  <2>2. (-d) * (-e) = d * e
    OBVIOUS
  <2>3. QED
    BY <2>1, <2>2
<1>3. QED
  BY <1>1, <1>2

\* What is not eligible costs to move.
LEMMA NonbasicTerm ==
  ASSUME TypeOK, WorkingBounds, Ordered, NonbasicMarked,
         NEW d \in [Vars -> Int], Eligible(d) = {},
         NEW v \in Vars \ Basic, NEW value \in Int, Within(value, WorkRange(v))
  PROVE  d[v] * (value - xval[v]) >= 0
<1>1. /\ lb[v] \in Int /\ ub[v] \in Int /\ xval[v] \in Int /\ d[v] \in Int
      /\ stat[v] \in {"BASIC", "LOWER", "UPPER", "FREE"}
      /\ Infinite \in Nat \ {0}
  BY SimplexAssumption DEF TypeOK
<1>2. LowerOK(lb[v]) /\ UpperOK(ub[v])
  BY BoundsType DEF TypeOK
<1>3. (Finite(lb[v]) => lb[v] <= value) /\ (Finite(ub[v]) => value <= ub[v])
  BY DEF Within, WorkRange
<1>4. CASE lb[v] = ub[v]
  <2>1. Finite(lb[v])
    BY <1>1, <1>2, <1>4 DEF LowerOK, UpperOK, Finite, Size
  <2>2. value = lb[v] /\ xval[v] = lb[v]
    BY <1>1, <1>3, <1>4, <2>1 DEF NonbasicMarked
  <2>3. QED
    BY <1>1, <2>2
<1>5. CASE lb[v] # ub[v]
  <2>1. ~ (stat[v] # "UPPER" /\ d[v] < 0) /\ ~ (stat[v] # "LOWER" /\ d[v] > 0)
    BY <1>5 DEF Eligible
  <2>2. CASE stat[v] = "LOWER"
    <3>1. d[v] >= 0 /\ value - xval[v] >= 0
      BY <1>1, <1>3, <2>1, <2>2 DEF NonbasicMarked
    <3>2. QED
      BY <1>1, <3>1, SignedProduct
  <2>3. CASE stat[v] = "UPPER"
    <3>1. d[v] <= 0 /\ value - xval[v] <= 0
      BY <1>1, <1>3, <2>1, <2>3 DEF NonbasicMarked
    <3>2. QED
      BY <1>1, <3>1, SignedProduct
  <2>4. CASE stat[v] = "FREE"
    <3>1. d[v] = 0
      BY <1>1, <2>1, <2>4
    <3>2. QED
      BY <1>1, <3>1
  <2>5. QED
    BY <1>1, <2>2, <2>3, <2>4 DEF NonbasicMarked
<1>6. QED
  BY <1>4, <1>5

(***************************************************************************)
(* The infeasibility.                                                      *)
(***************************************************************************)
\* How far a value is outside is a natural number.
LEMMA ViolationType ==
  ASSUME TypeOK, NEW v \in Vars, NEW value \in Int
  PROVE  Violation(v, value) \in Nat
BY DEF TypeOK, Violation, Below, Above

\* So is the sum over the basis.
LEMMA InfeasibilityType ==
  ASSUME TypeOK
  PROVE  Infeasibility \in Nat
<1> DEFINE f == [k \in Rows |-> Violation(basis[k], xval[basis[k]])]
<1>1. \A k \in Rows : f[k] \in Nat
  BY ViolationType, BasicMembers DEF TypeOK
<1> HIDE DEF f
<1>2. Sum(f, Rows) \in Nat
  BY <1>1, SumNonnegative, IndicesFinite
<1>3. QED
  BY <1>2 DEF Infeasibility, f

Violations == [v \in Vars |-> IF v \in Basic THEN Violation(v, xval[v]) ELSE 0]

\* The sum over the positions is a sum over the variables.
LEMMA InfeasibilityOfVars ==
  ASSUME TypeOK, Nonsingular(basis)
  PROVE  /\ Infeasibility = Sum(Violations, Vars)
         /\ \A v \in Vars : Violations[v] \in Nat
<1> DEFINE f == Violations
           g == [k \in Rows |-> Violation(basis[k], xval[basis[k]])]
<1>1. \A v \in Vars : f[v] \in Nat /\ f[v] \in Int
  BY ViolationType DEF Violations, TypeOK
<1>2. \A k \in Rows : g[k] = f[basis[k]] /\ f[basis[k]] \in Int
  BY <1>1, BasicMembers DEF Violations
<1>3. \A v \in Vars \ Basic : f[v] = 0
  BY DEF Violations
<1>4. Infeasibility = Sum(g, Rows)
  BY DEF Infeasibility
<1> HIDE DEF f, g
<1>5. \A x, z \in Rows : basis[x] = basis[z] => x = z
  BY NonsingularInjective DEF Nonsingular, TypeOK
<1>6. Sum(f, {basis[k] : k \in Rows}) = Sum(g, Rows)
  BY <1>2, <1>5, SumReindexed, IndicesFinite
<1>7. Sum(f, Vars) = Sum(f, Basic)
  <2>1. Basic \in SUBSET Vars
    BY BasicMembers
  <2>2. QED
    BY <1>1, <1>3, <2>1, SumSupport, IndicesFinite
<1>8. QED
  BY <1>1, <1>4, <1>6, <1>7 DEF f, Basic

\* No infeasibility: every basic variable is within its bounds.
LEMMA NoInfeasibility ==
  ASSUME TypeOK, Infeasibility = 0, NEW k \in Rows
  PROVE  ~ Below(basis[k], xval[basis[k]]) /\ ~ Above(basis[k], xval[basis[k]])
<1> DEFINE f == [l \in Rows |-> Violation(basis[l], xval[basis[l]])]
<1>1. \A l \in Rows : f[l] \in Nat /\ f[l] \in Int
  BY ViolationType, BasicMembers DEF TypeOK
<1>2. Sum(f, Rows) = 0
  BY DEF Infeasibility
<1>3. f[k] = Violation(basis[k], xval[basis[k]])
  OBVIOUS
<1> HIDE DEF f
<1>4. f[k] = 0
  <2>1. Sum(f, Rows) = f[k] + Sum(f, Rows \ {k})
    BY <1>1, SumSplit, IndicesFinite
  <2>2. Sum(f, Rows \ {k}) \in Nat
    <3>1. IsFiniteSet(Rows \ {k})
      BY IndicesFinite, FS_Subset
    <3>2. QED
      BY <1>1, <3>1, SumNonnegative
  <2>3. QED
    BY <1>1, <1>2, <2>1, <2>2
<1>5. /\ lb[basis[k]] \in Int /\ ub[basis[k]] \in Int /\ xval[basis[k]] \in Int
  BY BasicMembers DEF TypeOK
<1>6. QED
  BY <1>3, <1>4, <1>5 DEF Violation, Below, Above

\* The points properties range over are integer points.
LEMMA PointType ==
  ASSUME NEW p \in Points
  PROVE  p \in [Cols -> Int]
BY SimplexAssumption DEF Points

\* A basis of phase 1 with a violation and nothing eligible: no point satisfies
\* the problem (Farkas).
LEMMA InfeasibleBasis ==
  ASSUME TypeOK, Span = Int, Nonsingular(basis), WorkingBounds, Ordered, NonbasicMarked,
         Balanced(xval), phase1, Eligible(Priced) = {}, Infeasibility > 0
  PROVE  NoPoint
<1> SUFFICES ASSUME NEW p \in [Cols -> Int], Satisfies(p)
             PROVE  FALSE
  BY PointType DEF NoPoint
<1>1. problem \in Problems /\ xval \in [Vars -> Int]
  BY DEF TypeOK
<1>2. Balanced(Full(p)) /\ Full(p) \in [Vars -> Int]
  BY <1>1, FullBalanced DEF Balanced
<1> DEFINE w == Full(p)
           u == Plus(w, -1, xval)
           f == [v \in Vars |-> Priced[v] * u[v]]
           g == [v \in Vars |-> Gradient(v) * u[v]]
           h == [v \in Vars |-> g[v] + Violations[v]]
<1>3. Balanced(u) /\ \A v \in Vars : u[v] = w[v] - xval[v] /\ w[v] \in Int /\ xval[v] \in Int
  <2>1. Balanced(u)
    BY <1>1, <1>2, BalancedPlus
  <2>2. QED
    BY <1>1, <1>2, <2>1 DEF Plus
<1>4. /\ Priced \in [Vars -> Int] /\ \A v \in Basic : Priced[v] = 0
      /\ Sum(f, Vars) = Sum(g, Vars)
  BY <1>3, PricedIsGradient
<1>5. \A v \in Vars : Within(w[v], WorkRange(v))
  BY <1>1, WithinWorking
<1> HIDE DEF w, u
<1>6. \A v \in Vars : f[v] \in Nat
  <2> SUFFICES ASSUME NEW v \in Vars
               PROVE  f[v] \in Nat
    OBVIOUS
  <2>1. f[v] = Priced[v] * (w[v] - xval[v])
    BY <1>3
  <2>2. Priced[v] \in Int /\ w[v] - xval[v] \in Int /\ w[v] \in Int
    BY <1>3, <1>4
  <2>3. CASE v \in Basic
    BY <1>4, <2>1, <2>2, <2>3
  <2>4. CASE v \notin Basic
    <3>1. Priced[v] * (w[v] - xval[v]) >= 0
      BY <1>4, <1>5, <2>2, <2>4, NonbasicTerm
    <3>2. Priced[v] * (w[v] - xval[v]) \in Int
      BY <2>2
    <3>3. QED
      BY <2>1, <3>1, <3>2
  <2>5. QED
    BY <2>3, <2>4
<1>7. \A v \in Vars : Gradient(v) \in Int /\ g[v] \in Int /\ Violations[v] \in Nat
  <2>1. \A v \in Vars : u[v] \in Int
    BY <1>3
  <2>2. QED
    BY <2>1, GradientType, InfeasibilityOfVars
<1>8. \A v \in Vars : h[v] \in Int /\ h[v] <= 0 /\ h[v] = g[v] + Violations[v]
  <2> SUFFICES ASSUME NEW v \in Vars
               PROVE  h[v] \in Int /\ h[v] <= 0 /\ h[v] = g[v] + Violations[v]
    OBVIOUS
  <2>1. h[v] = g[v] + Violations[v] /\ h[v] \in Int
    BY <1>7
  <2>2. g[v] = Gradient(v) * (w[v] - xval[v])
    BY <1>3
  <2>3. lb[v] \in Int /\ ub[v] \in Int /\ xval[v] \in Int /\ w[v] \in Int
    BY <1>3 DEF TypeOK
  <2>4. (Finite(lb[v]) => lb[v] <= w[v]) /\ (Finite(ub[v]) => w[v] <= ub[v])
    BY <1>5 DEF Within, WorkRange
  <2> HIDE DEF f, g, h
  <2>5. CASE v \notin Basic
    <3>1. Gradient(v) = 0 /\ Violations[v] = 0
      BY <2>5 DEF Gradient, Violations
    <3>2. QED
      BY <2>1, <2>2, <2>3, <3>1
  <2>6. CASE v \in Basic /\ Below(v, xval[v])
    <3>1. Gradient(v) = -1 /\ Violations[v] = lb[v] - xval[v]
      BY <2>6 DEF Gradient, Violations, Violation
    <3>2. lb[v] <= w[v]
      BY <2>4, <2>6 DEF Below
    <3>3. QED
      BY <2>1, <2>2, <2>3, <3>1, <3>2
  <2>7. CASE v \in Basic /\ ~ Below(v, xval[v]) /\ Above(v, xval[v])
    <3>1. Gradient(v) = 1 /\ Violations[v] = xval[v] - ub[v]
      BY <2>7 DEF Gradient, Violations, Violation
    <3>2. w[v] <= ub[v]
      BY <2>4, <2>7 DEF Above
    <3>3. QED
      BY <2>1, <2>2, <2>3, <3>1, <3>2
  <2>8. CASE v \in Basic /\ ~ Below(v, xval[v]) /\ ~ Above(v, xval[v])
    <3>1. Gradient(v) = 0 /\ Violations[v] = 0
      BY <2>8 DEF Gradient, Violations, Violation
    <3>2. QED
      BY <2>1, <2>2, <2>3, <3>1
  <2>9. QED
    BY <2>5, <2>6, <2>7, <2>8
<1> HIDE DEF f, g, h
<1>9. Sum(f, Vars) \in Nat
  BY <1>6, SumNonnegative, IndicesFinite
<1>10. Sum(h, Vars) = Sum(g, Vars) + Sum(Violations, Vars) /\ Sum(Violations, Vars) = Infeasibility
  <2>1. \A v \in Vars : g[v] \in Int /\ Violations[v] \in Int /\ h[v] = g[v] + Violations[v]
    BY <1>7, <1>8
  <2>2. QED
    BY <2>1, SumOfSum, InfeasibilityOfVars, IndicesFinite
<1>11. Sum(h, Vars) <= 0
  <2> DEFINE zero == [v \in Vars |-> 0]
  <2>1. \A v \in Vars : h[v] \in Int /\ zero[v] \in Int /\ h[v] <= zero[v]
    BY <1>8
  <2>2. Sum(zero, Vars) = 0
    BY SumOfZeros, IndicesFinite
  <2> HIDE DEF zero
  <2>3. Sum(h, Vars) <= Sum(zero, Vars)
    BY <2>1, SumMonotone, IndicesFinite
  <2>4. QED
    BY <2>2, <2>3
<1>12. Infeasibility \in Nat
  BY InfeasibilityType
<1>13. QED
  BY <1>4, <1>9, <1>10, <1>11, <1>12

\* Working bounds that cross leave no point.
LEMMA CrossedBounds ==
  ASSUME problem \in Problems, WorkingBounds, NEW j \in Cols, lb[j] > ub[j]
  PROVE  NoPoint
<1> SUFFICES ASSUME NEW p \in [Cols -> Int], Satisfies(p)
             PROVE  FALSE
  BY PointType DEF NoPoint
<1>1. j \in Vars
  BY IndicesFinite
<1>2. Within(Full(p)[j], WorkRange(j)) /\ Full(p)[j] \in Int
  BY <1>1, WithinWorking, FullBalanced
<1>3. LowerOK(lb[j]) /\ UpperOK(ub[j]) /\ Infinite \in Nat \ {0}
  BY <1>1, BoundsType, SimplexAssumption
<1>4. Finite(lb[j]) /\ Finite(ub[j])
  BY <1>3 DEF LowerOK, UpperOK, Finite, Size
<1>5. lb[j] <= Full(p)[j] /\ Full(p)[j] <= ub[j]
  BY <1>2, <1>4 DEF Within, WorkRange
<1>6. lb[j] \in Int /\ ub[j] \in Int
  BY <1>3 DEF LowerOK, UpperOK
<1>7. QED
  BY <1>2, <1>5, <1>6

(***************************************************************************)
(* Moves.                                                                  *)
(***************************************************************************)
\* The size of an integer.
LEMMA SizeType ==
  ASSUME NEW n \in Int
  PROVE  Size(n) \in Nat /\ (Size(n) = 0 <=> n = 0) /\ -Size(n) <= n /\ n <= Size(n)
BY DEF Size

\* Every rule of pricing chooses an eligible variable.
LEMMA EnteringEligible ==
  ASSUME TypeOK, NEW d \in [Vars -> Int]
  PROVE  Entering(d) \subseteq Eligible(d)
<1> DEFINE E == Eligible(d)
<1>1. CASE E = {}
  BY <1>1 DEF Entering
<1>2. CASE E # {}
  <2>1. E \subseteq Vars /\ Vars \subseteq Int
    BY DEF Eligible, Vars
  <2> HIDE DEF E
  <2>2. IsFiniteSet(E) /\ E \subseteq Int
    BY <2>1, IndicesFinite, FS_Subset
  <2>3. Min(E) \in E
    BY <1>2, <2>2, LargestMember
  <2> DEFINE B == {v \in E : \A w \in E : Size(d[w]) <= Size(d[v])}
             S == {Size(d[v]) : v \in E}
             f == [v \in E |-> Size(d[v])]
  <2>4. Min(B) \in B /\ B \subseteq E
    <3>1. f \in Surjection(E, S)
      BY DEF Surjection
    <3>2. \A v \in E : d[v] \in Int /\ Size(d[v]) \in Nat
      BY <2>1, SizeType
    <3>3. S \subseteq Int /\ S # {}
      BY <1>2, <3>2
    <3>4. IsFiniteSet(S)
      <4> HIDE DEF f, S
      <4>1. QED
        BY <2>2, <3>1, FS_Surjection
    <3>5. PICK m \in S : \A n \in S : m >= n
      <4> HIDE DEF S
      <4>1. QED
        BY <3>3, <3>4, FiniteExtremes
    <3>6. PICK v \in E : m = Size(d[v])
      OBVIOUS
    <3>7. v \in B
      BY <3>2, <3>5, <3>6
    <3>8. IsFiniteSet(B) /\ B \subseteq Int /\ B # {} /\ B \subseteq E
      <4>1. B \subseteq E /\ B # {}
        BY <3>7
      <4> HIDE DEF B
      <4>2. QED
        BY <2>2, <4>1, FS_Subset
    <3> HIDE DEF B
    <3>9. QED
      BY <3>8, LargestMember
  <2>5. pricing \in {0, 1, 2}
    BY DEF TypeOK
  <2>6. Entering(d) = IF E = {} THEN {} ELSE CASE pricing = 1 -> {Min(E)}
                                               [] pricing = 2 -> {Min(B)}
                                               [] pricing = 0 -> E
    BY DEF Entering, E
  <2> HIDE DEF B
  <2>7. QED
    BY <1>2, <2>3, <2>4, <2>5, <2>6 DEF E
<1>3. QED
  BY <1>1, <1>2

\* A move is balanced, improves, and changes the basic variables by -1, 0 or 1.
LEMMA MoveIsRay ==
  ASSUME TypeOK, Span = Int, Nonsingular(basis), NEW mv \in Moves
  PROVE  LET ray == Ray(basis, mv.enter, mv.dir) IN
         /\ mv.enter \in Vars \ Basic /\ mv.enter \in Eligible(Priced)
         /\ mv.dir \in {-1, 1} /\ mv.dir = Direction(Priced, mv.enter)
         /\ Priced[mv.enter] * mv.dir < 0
         /\ Balanced(ray) /\ ray[mv.enter] = mv.dir
         /\ \A k \in Rows : mv.delta[k] = ray[basis[k]] /\ ray[basis[k]] \in {-1, 0, 1}
         /\ \A v \in Vars \ Basic : v # mv.enter => ray[v] = 0
         /\ \A v \in Vars : ray[v] \in {-1, 0, 1}
         /\ \A k \in Rows : mv.delta[k] # 0 => Ftran(basis, Column(mv.enter))[k] # 0
         /\ \A t \in Int : Moved(mv, t) = Plus(xval, t, ray)
<1>1. PICK v \in Entering(Priced) :
         mv = [enter |-> v, dir |-> Direction(Priced, v),
               delta |-> [k \in Rows |-> -Direction(Priced, v) * Alpha(v)[k]]]
  BY DEF Moves
<1> DEFINE dir == Direction(Priced, v)
           ray == Ray(basis, v, dir)
           a == Ftran(basis, Column(v))
<1>2. mv.enter = v /\ mv.dir = dir /\ mv.delta = [k \in Rows |-> -dir * Alpha(v)[k]]
  BY <1>1
<1>3. Priced \in [Vars -> Int] /\ problem \in Problems /\ xval \in [Vars -> Int]
  BY PricedIsGradient DEF TypeOK
<1>4. v \in Eligible(Priced)
  <2>1. Entering(Priced) \subseteq Eligible(Priced)
    BY <1>3, EnteringEligible
  <2>2. QED
    BY <2>1
<1>5. v \in Vars \ Basic /\ Priced[v] # 0 /\ Priced[v] \in Int
  BY <1>3, <1>4 DEF Eligible
<1>6. dir \in {-1, 1} /\ Priced[v] * dir < 0
  <2>1. CASE Priced[v] < 0
    BY <1>5, <2>1 DEF Direction
  <2>2. CASE ~ (Priced[v] < 0)
    <3>1. dir = -1 /\ Priced[v] > 0
      BY <1>5, <2>2 DEF Direction
    <3>2. QED
      BY <1>5, <3>1
  <2>3. QED
    BY <2>1, <2>2
<1>7. Alpha(v) = a
  BY DEF Alpha, Column
<1>8. basis \in [Rows -> Vars] /\ Basic = Members(basis) /\ DualSolvable(basis)
  BY BasicMembers DEF Nonsingular
<1> HIDE DEF dir
<1>9. /\ Balanced(ray) /\ ray[v] = dir
      /\ \A k \in Rows : ray[basis[k]] = -dir * a[k] /\ ray[basis[k]] \in {-1, 0, 1}
      /\ \A u \in Vars \ Members(basis) : u # v => ray[u] = 0
  BY <1>3, <1>5, <1>6, <1>8, RayBalanced
<1>10. a \in [Rows -> {-1, 0, 1}]
  BY <1>3, <1>5, ColumnSolved
<1> HIDE DEF ray, a
<1>11. \A k \in Rows : mv.delta[k] = -dir * a[k] /\ mv.delta[k] = ray[basis[k]]
  BY <1>2, <1>7, <1>9
<1>12. \A k \in Rows : mv.delta[k] # 0 => a[k] # 0
  <2>1. \A k \in Rows : a[k] = 0 => -dir * a[k] = 0
    BY <1>6
  <2>2. QED
    BY <1>11, <2>1
<1>13. \A u \in Vars : ray[u] \in {-1, 0, 1}
  <2> SUFFICES ASSUME NEW u \in Vars
               PROVE  ray[u] \in {-1, 0, 1}
    OBVIOUS
  <2>1. CASE u \in Basic
    BY <1>9, <2>1 DEF Basic
  <2>2. CASE u \notin Basic
    BY <1>6, <1>8, <1>9, <2>2
  <2>3. QED
    BY <2>1, <2>2
<1>14. ASSUME NEW t \in Int
       PROVE  Moved(mv, t) = Plus(xval, t, ray)
  <2>1. ASSUME NEW u \in Vars
        PROVE  Moved(mv, t)[u] = xval[u] + t * ray[u]
    <3>1. xval[u] \in Int /\ ray[u] \in Int
      BY <1>3, <1>13
    <3>2. CASE u = v
      <4>1. Moved(mv, t)[u] = xval[u] + dir * t /\ ray[u] = dir
        BY <1>2, <1>9, <3>2 DEF Moved
      <4>2. dir * t = t * dir
        BY <1>6
      <4>3. QED
        BY <4>1, <4>2
    <3>3. CASE u # v /\ u \in Basic
      <4>1. PICK k \in Rows : basis[k] = u
        BY <3>3 DEF Basic
      <4>2. (CHOOSE l \in Rows : basis[l] = u) = k
        BY <1>3, <1>8, <4>1, NonsingularInjective
      <4>3. Moved(mv, t)[u] = xval[u] + t * mv.delta[CHOOSE l \in Rows : basis[l] = u]
        BY <1>2, <3>3 DEF Moved
      <4>4. QED
        BY <1>11, <4>1, <4>2, <4>3
    <3>4. CASE u # v /\ u \notin Basic
      <4>1. Moved(mv, t)[u] = xval[u] /\ ray[u] = 0
        BY <1>2, <1>8, <1>9, <3>4 DEF Moved
      <4>2. QED
        BY <3>1, <4>1
    <3>5. QED
      BY <3>2, <3>3, <3>4
  <2>2. Moved(mv, t) = [u \in Vars |-> Moved(mv, t)[u]]
    BY DEF Moved
  <2>3. QED
    BY <2>1, <2>2 DEF Plus
<1>15. mv.enter = v /\ mv.dir = dir
  BY <1>2
<1> HIDE <1>2
<1>16. QED
  BY <1>4, <1>5, <1>6, <1>8, <1>9, <1>11, <1>12, <1>13, <1>14, <1>15 DEF ray, a, dir

\* What a move does to the objective of its phase, per unit of length.
LEMMA MoveGain ==
  ASSUME TypeOK, Span = Int, Nonsingular(basis), NEW mv \in Moves
  PROVE  Sum([v \in Vars |-> Gradient(v) * Ray(basis, mv.enter, mv.dir)[v]], Vars) < 0
<1> DEFINE ray == Ray(basis, mv.enter, mv.dir)
           f == [v \in Vars |-> Priced[v] * ray[v]]
           e == mv.enter
<1>1. /\ e \in Vars \ Basic /\ Balanced(ray) /\ ray[e] = mv.dir /\ mv.dir \in {-1, 1}
      /\ Priced[e] * mv.dir < 0
      /\ \A v \in Vars \ Basic : v # e => ray[v] = 0
      /\ \A v \in Vars : ray[v] \in {-1, 0, 1}
  BY MoveIsRay
<1>2. Priced \in [Vars -> Int] /\ \A v \in Basic : Priced[v] = 0
  BY PricedIsGradient
<1>3. Sum(f, Vars) = Sum([v \in Vars |-> Gradient(v) * ray[v]], Vars)
  BY <1>1, PricedIsGradient
<1> HIDE DEF ray, e
<1>4. f[e] = Priced[e] * mv.dir /\ f[e] \in Int /\ \A v \in Vars \ {e} : f[v] = 0
  <2>1. f[e] = Priced[e] * mv.dir
    BY <1>1
  <2>2. Priced[e] \in Int
    BY <1>1, <1>2
  <2>3. ASSUME NEW v \in Vars \ {e}
        PROVE  f[v] = 0
    <3>1. f[v] = Priced[v] * ray[v] /\ Priced[v] \in Int /\ ray[v] \in Int
      BY <1>1, <1>2
    <3>2. Priced[v] = 0 \/ ray[v] = 0
      BY <1>1, <1>2
    <3> HIDE DEF f
    <3>3. QED
      BY <3>1, <3>2
  <2> HIDE DEF f
  <2>4. QED
    BY <1>1, <2>1, <2>2, <2>3
<1> HIDE DEF f
<1>5. Sum(f, Vars) = f[e]
  BY <1>1, <1>4, SumSingle, IndicesFinite
<1>6. QED
  BY <1>1, <1>3, <1>4, <1>5 DEF ray

\* The distance between the bounds of a variable.
LEMMA WidthType ==
  ASSUME TypeOK, WorkingBounds, Ordered, NEW v \in Vars
  PROVE  /\ Width(v) \in Nat
         /\ Finite(Width(v)) <=> Finite(lb[v]) /\ Finite(ub[v])
         /\ Finite(Width(v)) => Width(v) = ub[v] - lb[v]
<1>1. LowerOK(lb[v]) /\ UpperOK(ub[v]) /\ lb[v] \in Int /\ ub[v] \in Int /\ lb[v] <= ub[v]
      /\ Infinite \in Nat \ {0}
  BY BoundsType, SimplexAssumption DEF TypeOK, Ordered
<1>2. CASE Finite(lb[v]) /\ Finite(ub[v])
  <2>1. 2 * Size(lb[v]) < Infinite /\ 2 * Size(ub[v]) < Infinite
    BY <1>1, <1>2 DEF LowerOK, UpperOK
  <2>2. Width(v) = ub[v] - lb[v]
    BY <1>2 DEF Width
  <2>3. Width(v) \in Nat /\ Width(v) < Infinite
    <3>1. -Size(lb[v]) <= lb[v] /\ ub[v] <= Size(ub[v]) /\ Size(lb[v]) \in Nat /\ Size(ub[v]) \in Nat
      BY <1>1, SizeType
    <3>2. ub[v] - lb[v] <= Size(ub[v]) + Size(lb[v])
      BY <1>1, <3>1
    <3>3. Size(ub[v]) + Size(lb[v]) < Infinite
      BY <1>1, <2>1, <3>1
    <3>4. QED
      BY <1>1, <2>2, <3>1, <3>2, <3>3
  <2>4. Finite(Width(v))
    BY <1>1, <2>3 DEF Finite, Size
  <2>5. QED
    BY <1>2, <2>2, <2>3, <2>4
<1>3. CASE ~ (Finite(lb[v]) /\ Finite(ub[v]))
  <2>1. Width(v) = Infinite
    BY <1>3 DEF Width
  <2>2. ~ Finite(Infinite)
    BY <1>1 DEF Finite, Size
  <2>3. QED
    BY <1>1, <1>3, <2>1, <2>2
<1>4. QED
  BY <1>2, <1>3

\* The entering variable of a move leaves its bound, or is free.
LEMMA EnteringOpen ==
  ASSUME TypeOK, Span = Int, Nonsingular(basis), NonbasicMarked, NEW mv \in Moves
  PROVE  LET e == mv.enter IN
         /\ lb[e] # ub[e]
         /\ mv.dir = 1 => \/ stat[e] = "LOWER" /\ Finite(lb[e]) /\ xval[e] = lb[e]
                          \/ stat[e] = "FREE" /\ ~ Finite(lb[e]) /\ ~ Finite(ub[e])
         /\ mv.dir = -1 => \/ stat[e] = "UPPER" /\ Finite(ub[e]) /\ xval[e] = ub[e]
                           \/ stat[e] = "FREE" /\ ~ Finite(lb[e]) /\ ~ Finite(ub[e])
<1> DEFINE e == mv.enter
<1>1. /\ e \in Vars \ Basic /\ e \in Eligible(Priced) /\ mv.dir = Direction(Priced, e)
  BY MoveIsRay
<1>2. Priced[e] \in Int
  BY <1>1, PricedIsGradient
<1> HIDE DEF e
<1>3. stat[e] \in {"LOWER", "UPPER", "FREE"}
  BY <1>1 DEF TypeOK, NonbasicMarked
<1>4. /\ lb[e] # ub[e]
      /\ \/ stat[e] # "UPPER" /\ Priced[e] < 0
         \/ stat[e] # "LOWER" /\ Priced[e] > 0
  BY <1>1 DEF Eligible
<1>5. mv.dir = 1 => stat[e] # "UPPER"
  BY <1>1, <1>2, <1>4 DEF Direction
<1>6. mv.dir = -1 => stat[e] # "LOWER"
  BY <1>1, <1>2, <1>4 DEF Direction
<1>7. QED
  BY <1>1, <1>3, <1>4, <1>5, <1>6 DEF NonbasicMarked, e

\* A move of phase 2 that nothing blocks refutes every choice of multipliers.
LEMMA UnboundedRay ==
  ASSUME TypeOK, Span = Int, Nonsingular(basis), WorkingBounds, Ordered, NonbasicMarked,
         ~ phase1, NEW mv \in Moves, Blocking(mv.delta) = {}, ~ Finite(Width(mv.enter))
  PROVE  NoMultipliers
<1> DEFINE ray == Ray(basis, mv.enter, mv.dir)
<1>1. /\ mv.enter \in Vars \ Basic /\ Balanced(ray) /\ ray[mv.enter] = mv.dir
      /\ mv.dir \in {-1, 1}
      /\ \A k \in Rows : mv.delta[k] = ray[basis[k]]
      /\ \A v \in Vars \ Basic : v # mv.enter => ray[v] = 0
      /\ \A v \in Vars : ray[v] \in {-1, 0, 1}
  BY MoveIsRay
<1>2. problem \in Problems
  BY DEF TypeOK
<1>3. ASSUME NEW v \in Vars
      PROVE  /\ ray[v] > 0 => ~ Finite(ub[v])
             /\ ray[v] < 0 => ~ Finite(lb[v])
  <2> HIDE DEF ray
  <2>1. CASE v = mv.enter
    <3>1. ~ (Finite(lb[v]) /\ Finite(ub[v]))
      BY <2>1, WidthType
    <3>2. QED
      BY <1>1, <2>1, <3>1, EnteringOpen
  <2>2. CASE v # mv.enter /\ v \notin Basic
    BY <1>1, <2>2
  <2>3. CASE v \in Basic
    <3>1. PICK k \in Rows : v = basis[k]
      BY <2>3 DEF Basic
    <3>2. mv.delta[k] # 0 => ~ Finite(Reach(k, mv.delta[k]))
      BY DEF Blocking
    <3>3. Reach(k, mv.delta[k]) = IF mv.delta[k] > 0 THEN ub[v] ELSE lb[v]
      BY <3>1 DEF Reach, Effective
    <3>4. mv.delta[k] = ray[v] /\ ray[v] \in {-1, 0, 1}
      BY <1>1, <3>1
    <3>5. QED
      BY <3>2, <3>3, <3>4
  <2>4. QED
    BY <2>1, <2>2, <2>3
<1>4. Sum([v \in Vars |-> Gradient(v) * ray[v]], Vars) < 0
  BY MoveGain
<1> HIDE DEF ray
<1>5. ASSUME NEW d \in [Rows -> Sample],
             ~ \E j \in Cols : \/ Rc(j, d) > 0 /\ ~ Finite(problem.col[j].lo)
                               \/ Rc(j, d) < 0 /\ ~ Finite(problem.col[j].hi),
             ~ \E i \in Rows : \/ d[i] < 0 /\ ~ Finite(problem.row[i].lo)
                               \/ d[i] > 0 /\ ~ Finite(problem.row[i].hi)
      PROVE  FALSE
  <2>1. d \in [Rows -> Int]
    BY SimplexAssumption
  <2> DEFINE f == [v \in Vars |-> Gradient(v) * ray[v]]
             g == [v \in Vars |-> Along(d, v) * ray[v]]
             h == [v \in Vars |-> (Cost(v) + Along(d, v)) * ray[v]]
  <2>2. \A v \in Vars : Cost(v) \in Int /\ Along(d, v) \in Int /\ ray[v] \in {-1, 0, 1}
                        /\ Gradient(v) = Cost(v)
    BY <1>1, <1>2, <2>1, CostType, AlongType DEF Gradient
  <2>3. \A v \in Vars : f[v] \in Int /\ g[v] \in Int /\ h[v] = f[v] + g[v] /\ h[v] \in Int
    <3> SUFFICES ASSUME NEW v \in Vars
                 PROVE  f[v] \in Int /\ g[v] \in Int /\ h[v] = f[v] + g[v] /\ h[v] \in Int
      OBVIOUS
    <3>1. f[v] = Cost(v) * ray[v] /\ g[v] = Along(d, v) * ray[v] /\ h[v] = (Cost(v) + Along(d, v)) * ray[v]
      BY <2>2
    <3>2. Cost(v) \in Int /\ Along(d, v) \in Int /\ ray[v] \in {-1, 0, 1}
      BY <2>2
    <3> HIDE DEF f, g, h
    <3>3. QED
      BY <3>1, <3>2
  <2>4. \A v \in Vars : h[v] \in Nat
    <3> SUFFICES ASSUME NEW v \in Vars
                 PROVE  h[v] \in Nat
      OBVIOUS
    <3> DEFINE r == Cost(v) + Along(d, v)
    <3>1. h[v] = r * ray[v] /\ r \in Int /\ ray[v] \in {-1, 0, 1}
      BY <2>2
    <3>2. (r > 0 => ray[v] >= 0) /\ (r < 0 => ray[v] <= 0)
      <4>1. CASE v \in Cols
        <5>1. r = Rc(v, d)
          BY <4>1 DEF Rc, Cost
        <5>2. (r > 0 => Finite(problem.col[v].lo)) /\ (r < 0 => Finite(problem.col[v].hi))
          BY <1>5, <4>1, <5>1
        <5>3. /\ lb[v] = WorkBound(v).lo /\ ub[v] = WorkBound(v).hi
              /\ LowerOK(lb[v]) /\ UpperOK(ub[v])
              /\ problem.col[v].lo <= lb[v] /\ ub[v] <= problem.col[v].hi
          BY <1>2, <4>1, BoundsType, ColumnWorkBound
        <5>4. problem.col[v].lo \in Int /\ problem.col[v].hi \in Int /\ Infinite \in Nat \ {0}
          BY <1>2, <4>1, ProblemType, SimplexAssumption DEF BoundsOK
        <5>5. Finite(problem.col[v].lo) => Finite(lb[v])
          BY <5>3, <5>4 DEF Finite, Size, LowerOK
        <5>6. Finite(problem.col[v].hi) => Finite(ub[v])
          BY <5>3, <5>4 DEF Finite, Size, UpperOK
        <5> HIDE DEF r
        <5>7. QED
          BY <1>3, <3>1, <5>2, <5>5, <5>6
      <4>2. CASE v \notin Cols
        <5>1. PICK i \in Rows : v = NCols + i /\ v - NCols = i
          BY <4>2, VarsSplit
        <5>2. r = -d[i] /\ d[i] \in Int
          <6>1. Along(d, v) = -d[i] /\ Cost(v) = 0
            BY <1>2, <2>1, <4>2, <5>1, AlongType DEF Cost
          <6>2. QED
            BY <2>1, <6>1
        <5>3. lb[v] = problem.row[i].lo /\ ub[v] = problem.row[i].hi
          BY <1>2, <4>2, <5>1, RowWorkBound, BoundsType
        <5>4. (d[i] < 0 => Finite(lb[v])) /\ (d[i] > 0 => Finite(ub[v]))
          BY <1>5, <5>3
        <5> HIDE DEF r
        <5>5. QED
          BY <1>3, <3>1, <5>2, <5>4
      <4>3. QED
        BY <4>1, <4>2
    <3> HIDE DEF h, r
    <3>3. QED
      BY <3>1, <3>2
  <2>5. Sum(g, Vars) = 0
    BY <1>1, <1>2, <2>1, Orthogonal
  <2>6. Sum(f, Vars) < 0
    BY <1>4
  <2> HIDE DEF f, g, h
  <2>7. Sum(h, Vars) = Sum(f, Vars) + Sum(g, Vars) /\ Sum(f, Vars) \in Int /\ Sum(h, Vars) \in Nat
    BY <2>3, <2>4, SumOfSum, SumType, SumNonnegative, IndicesFinite
  <2>8. QED
    BY <2>5, <2>6, <2>7
<1>6. QED
  BY <1>5 DEF NoMultipliers

(***************************************************************************)
(* Certified points.                                                       *)
(***************************************************************************)
\* The product of a difference of points.
LEMMA ProductDifference ==
  ASSUME NEW a, Integers(a, Cols), NEW p, Integers(p, Cols), NEW q, Integers(q, Cols)
  PROVE  /\ Product(a, [j \in Cols |-> p[j] - q[j]]) = Product(a, p) - Product(a, q)
         /\ Product(a, p) \in Int /\ Product(a, q) \in Int
<1> DEFINE d == [j \in Cols |-> p[j] - q[j]]
<1>1. \A j \in Cols : d[j] = p[j] + (-1) * q[j]
  BY DEF Integers
<1>2. Combines(d, p, -1, q, Cols)
  BY <1>1 DEF Combines
<1> HIDE DEF d
<1>3. Dot(a, d, Cols) = Dot(a, p, Cols) + (-1) * Dot(a, q, Cols)
  BY <1>2, DotCombined, IndicesFinite
<1>4. Dot(a, p, Cols) \in Int /\ Dot(a, q, Cols) \in Int
  BY DotType, IndicesFinite
<1>5. \A z : Product(a, z) = Dot(a, z, Cols)
  BY DEF Product, Dot
<1>6. QED
  BY <1>3, <1>4, <1>5 DEF d

\* A verified point is beaten by none (weak duality).
LEMMA CertifiedBest ==
  ASSUME TypeOK, NEW dual \in [Rows -> Int], Certified(dual)
  PROVE  /\ PrimalResidual <= Forgiven
         /\ \A p \in Points : Satisfies(p) => Objective <= Product(problem.c, p)
<1> SUFFICES ASSUME NEW p \in [Cols -> Int], Satisfies(p)
             PROVE  Objective <= Product(problem.c, p)
  BY PointType DEF Certified
<1>1. problem \in Problems /\ xval \in [Vars -> Int] /\ Integers(xval, Cols) /\ Integers(p, Cols)
      /\ Integers(problem.c, Cols)
  BY IndicesFinite, ProblemType DEF TypeOK, Integers
<1> DEFINE z == [j \in Cols |-> p[j] - xval[j]]
           r == [i \in Rows |-> Product(problem.A[i], p) - Activity(i)]
           id == [j \in Cols |-> j]
           f == [j \in Cols |-> problem.c[j] * z[j]]
           g == [j \in Cols |-> Along(dual, id[j]) * z[j]]
           h == [j \in Cols |-> Rc(j, dual) * z[j]]
           s == [i \in Rows |-> dual[i] * r[i]]
<1>2. z \in [Cols -> Int] /\ id \in [Cols -> Vars] /\ \A j \in Cols : z[j] = p[j] - xval[j]
  BY IndicesFinite DEF TypeOK
<1>3. \A i \in Rows : /\ r[i] = Product(problem.A[i], p) - Activity(i)
                      /\ Product(problem.A[i], p) \in Int /\ Activity(i) \in Int
                      /\ Product(problem.A[i], z) = r[i]
  <2> SUFFICES ASSUME NEW i \in Rows
               PROVE  /\ r[i] = Product(problem.A[i], p) - Activity(i)
                      /\ Product(problem.A[i], p) \in Int /\ Activity(i) \in Int
                      /\ Product(problem.A[i], z) = r[i]
    OBVIOUS
  <2>1. Integers(problem.A[i], Cols)
    BY <1>1, ProblemType DEF Integers
  <2>2. QED
    BY <1>1, <2>1, ProductDifference DEF Activity
<1>4. Sum(f, Cols) = Product(problem.c, p) - Objective
      /\ Product(problem.c, p) \in Int /\ Objective \in Int
  <2>1. Sum(f, Cols) = Product(problem.c, z)
    BY DEF Product
  <2>2. QED
    BY <1>1, <2>1, ProductDifference DEF Objective
<1>5. Makes(r, Cols, id, z)
  <2> SUFFICES ASSUME NEW i \in Rows
               PROVE  r[i] = Sum([j \in Cols |-> M(i, id[j]) * z[j]], Cols)
    BY DEF Makes
  <2>1. [j \in Cols |-> M(i, id[j]) * z[j]] = [j \in Cols |-> problem.A[i][j] * z[j]]
    BY <1>1, MatrixType
  <2>2. r[i] = Product(problem.A[i], z)
    BY <1>3
  <2> HIDE DEF r, id, z
  <2>3. QED
    BY <2>1, <2>2 DEF Product
<1>6. Sum(g, Cols) = Sum(s, Rows)
  <2> HIDE DEF r, id, z
  <2>1. QED
    BY <1>1, <1>2, <1>5, Pairing, IndicesFinite
<1>7. \A j \in Cols : /\ f[j] \in Int /\ g[j] \in Int /\ h[j] = f[j] + g[j]
                      /\ h[j] \in Nat
  <2> SUFFICES ASSUME NEW j \in Cols
               PROVE  /\ f[j] \in Int /\ g[j] \in Int /\ h[j] = f[j] + g[j]
                      /\ h[j] \in Nat
    OBVIOUS
  <2>1. /\ f[j] = problem.c[j] * z[j] /\ g[j] = Along(dual, j) * z[j]
        /\ h[j] = (problem.c[j] + Along(dual, j)) * z[j]
    BY DEF Rc
  <2>2. problem.c[j] \in Int /\ Along(dual, j) \in Int /\ z[j] \in Int
    BY <1>1, <1>2, AlongType, IndicesFinite DEF Integers
  <2>3. (Rc(j, dual) > 0 => z[j] >= 0) /\ (Rc(j, dual) < 0 => z[j] <= 0)
    <3>1. Signed(xval[j], problem.col[j], Rc(j, dual))
      BY DEF Certified
    <3>2. Within(p[j], problem.col[j])
      BY DEF Satisfies
    <3>3. problem.col[j].lo \in Int /\ problem.col[j].hi \in Int /\ p[j] \in Int /\ xval[j] \in Int
      BY <1>1, ProblemType, IndicesFinite DEF BoundsOK
    <3> HIDE DEF z
    <3>4. QED
      BY <1>2, <3>1, <3>2, <3>3 DEF Signed, At, Within
  <2>4. Rc(j, dual) = problem.c[j] + Along(dual, j) /\ Rc(j, dual) \in Int
    BY <2>2 DEF Rc
  <2> HIDE DEF f, g, h, z
  <2>5. Rc(j, dual) * z[j] >= 0
    <3>1. CASE Rc(j, dual) = 0
      BY <2>2, <3>1
    <3>2. CASE Rc(j, dual) # 0
      BY <2>2, <2>3, <2>4, <3>2, SignedProduct
    <3>3. QED
      BY <3>1, <3>2
  <2>6. h[j] = f[j] + g[j] /\ f[j] \in Int /\ g[j] \in Int
    BY <2>1, <2>2
  <2>7. h[j] = Rc(j, dual) * z[j]
    BY <2>1, <2>4
  <2>8. QED
    BY <2>5, <2>6, <2>7
<1>8. \A i \in Rows : s[i] \in Int /\ s[i] <= 0
  <2> SUFFICES ASSUME NEW i \in Rows
               PROVE  s[i] \in Int /\ s[i] <= 0
    OBVIOUS
  <2>1. s[i] = dual[i] * r[i] /\ dual[i] \in Int /\ r[i] \in Int
    <3>1. s[i] = dual[i] * r[i]
      OBVIOUS
    <3> HIDE DEF r, s, z, f, g, h
    <3>2. r[i] \in Int
      BY <1>3
    <3>3. QED
      BY <3>1, <3>2
  <2>2. (-dual[i] > 0 => r[i] >= 0) /\ (-dual[i] < 0 => r[i] <= 0)
    <3>1. Signed(Activity(i), problem.row[i], -dual[i])
      BY DEF Certified
    <3>2. Within(Product(problem.A[i], p), problem.row[i])
      BY DEF Satisfies
    <3>3. problem.row[i].lo \in Int /\ problem.row[i].hi \in Int
      BY <1>1, ProblemType DEF BoundsOK
    <3> HIDE DEF r, s, z, f, g, h
    <3>4. /\ r[i] = Product(problem.A[i], p) - Activity(i)
          /\ Product(problem.A[i], p) \in Int /\ Activity(i) \in Int /\ -dual[i] \in Int
      BY <1>3, <2>1
    <3>5. CASE -dual[i] > 0
      <4>1. Finite(problem.row[i].lo) /\ Activity(i) = problem.row[i].lo
        BY <3>1, <3>5 DEF Signed, At
      <4>2. problem.row[i].lo <= Product(problem.A[i], p)
        BY <3>2, <4>1 DEF Within
      <4>3. QED
        BY <3>3, <3>4, <3>5, <4>1, <4>2
    <3>6. CASE -dual[i] < 0
      <4>1. Finite(problem.row[i].hi) /\ Activity(i) = problem.row[i].hi
        BY <3>1, <3>6 DEF Signed, At
      <4>2. Product(problem.A[i], p) <= problem.row[i].hi
        BY <3>2, <4>1 DEF Within
      <4>3. QED
        BY <3>3, <3>4, <3>6, <4>1, <4>2
    <3>7. QED
      BY <3>5, <3>6
  <2> HIDE DEF s, r
  <2>3. (-dual[i]) * r[i] >= 0
    <3>1. CASE dual[i] = 0
      BY <2>1, <3>1
    <3>2. CASE dual[i] # 0
      <4>1. -dual[i] \in Int
        BY <2>1
      <4>2. \/ -dual[i] >= 0 /\ r[i] >= 0
            \/ -dual[i] <= 0 /\ r[i] <= 0
        BY <2>1, <2>2, <3>2
      <4>3. QED
        BY <2>1, <4>1, <4>2, SignedProduct
    <3>3. QED
      BY <3>1, <3>2
  <2>4. (-dual[i]) * r[i] = -(dual[i] * r[i]) /\ dual[i] * r[i] \in Int
    BY <2>1
  <2>5. QED
    BY <2>1, <2>3, <2>4
<1> HIDE DEF f, g, h, s, r, z, id
<1>9. Sum(h, Cols) = Sum(f, Cols) + Sum(g, Cols) /\ Sum(h, Cols) \in Nat /\ Sum(g, Cols) \in Int
  BY <1>7, SumOfSum, SumNonnegative, SumType, IndicesFinite
<1>10. Sum(s, Rows) <= 0
  <2> DEFINE zero == [i \in Rows |-> 0]
  <2>1. \A i \in Rows : s[i] \in Int /\ zero[i] \in Int /\ s[i] <= zero[i]
    BY <1>8
  <2>2. Sum(zero, Rows) = 0
    BY SumOfZeros, IndicesFinite
  <2> HIDE DEF zero
  <2>3. Sum(s, Rows) <= Sum(zero, Rows)
    BY <2>1, SumMonotone, IndicesFinite
  <2>4. QED
    BY <2>2, <2>3
<1>11. QED
  BY <1>4, <1>6, <1>9, <1>10

(***************************************************************************)
(* The inductive invariant of the simplex.                                 *)
(***************************************************************************)
BasicMarked == \A v \in Basic : stat[v] = "BASIC"

\* The basis, the marks and the values; what drift may disturb is the balance.
Seated ==
    /\ Ordered /\ BasicMarked /\ NonbasicMarked
    /\ ~ drifted => Balanced(xval)

ShapeInv ==
    /\ TypeOK /\ WorkingBounds /\ Nonsingular(basis)
    /\ pc = "begin" => basis = Logicals /\ ~ drifted
    /\ Running => Seated

ClaimInv ==
    /\ pc \in {"begin", "iterate"} => claim = "NONE" /\ result = "NOT_RUN"
    /\ pc = "publish" => claim # "NONE" /\ result = "NOT_RUN"
    /\ pc = "done" => claim # "NONE" /\ result # "NOT_RUN"
    /\ claim = "INFEASIBLE" /\ ~ drifted => NoPoint
    /\ claim = "UNBOUNDED" => NoMultipliers
    /\ claim = "OPTIMAL" /\ pc = "publish" => ~ phase1 /\ Eligible(Priced) = {}
    /\ result = "OPTIMAL" => Certified(y)
    /\ result \in {"INFEASIBLE", "UNBOUNDED"} => claim = result
    /\ OptimumAccepted

SimplexInv == ShapeInv /\ ClaimInv

\* The model and the working bounds are written once.
LEMMA ModelKept ==
  ASSUME [Solving]_vars
  PROVE  problem' = problem /\ lb' = lb /\ ub' = ub
<1>1. CASE UNCHANGED vars
  BY <1>1 DEF vars, spx
<1>2. CASE Solving
  BY <1>2 DEF Solving, SingletonInfeasible, Start, AtLimit, OutOfTime, Refactorize,
     RefactorizationFails, Drift, EnterPhase2, DeclareInfeasible, ForgiveResidual, DeclareOptimal,
     DeclareUnbounded, BoundFlip, Pivot, Publish, Conclude, BeginPhase2, spx
<1>3. QED
  BY <1>1, <1>2

\* The working bounds depend on the model only.
LEMMA WorkingBoundsKept ==
  ASSUME WorkingBounds, problem' = problem, lb' = lb, ub' = ub
  PROVE  WorkingBounds'
BY DEF WorkingBounds, WorkBound, Implied, SingletonRows

\* Ordered bounds stay ordered.
LEMMA OrderedKept ==
  ASSUME Ordered, lb' = lb, ub' = ub
  PROVE  Ordered'
BY DEF Ordered

\* A basis stays nonsingular.
LEMMA NonsingularKept ==
  ASSUME Nonsingular(basis), problem' = problem, basis' = basis
  PROVE  Nonsingular(basis)'
BY DEF Nonsingular, RowSolvable, DualSolvable, Solves, Along, M

\* A basis shown nonsingular before it is assigned.
LEMMA NonsingularMoved ==
  ASSUME NEW b, Nonsingular(b), problem' = problem, basis' = b
  PROVE  Nonsingular(basis)'
BY DEF Nonsingular, RowSolvable, DualSolvable, Solves, Along, M

\* Values shown balanced before they are assigned.
LEMMA BalancedKept ==
  ASSUME NEW w, Balanced(w), problem' = problem, xval' = w
  PROVE  Balanced(xval)'
BY DEF Balanced, Balance, Line, M

\* How long a move is, and what it makes of the values.
LEMMA MoveType ==
  ASSUME TypeOK, Span = Int, Nonsingular(basis), WorkingBounds, Ordered, NEW mv \in Moves
  PROVE  /\ Longest(mv) \in Nat /\ Longest(mv) <= Width(mv.enter)
         /\ \A k \in Blocking(mv.delta) :
               Room(k, mv.delta) \in Nat /\ Longest(mv) <= Room(k, mv.delta)
         /\ \A t \in Int : /\ Moved(mv, t) \in [Vars -> Int]
                           /\ \A v \in Vars \ Basic : v # mv.enter => Moved(mv, t)[v] = xval[v]
                           /\ Moved(mv, t)[mv.enter] = xval[mv.enter] + mv.dir * t
                           /\ \A k \in Rows : Moved(mv, t)[basis[k]] = xval[basis[k]] + t * mv.delta[k]
<1> DEFINE ray == Ray(basis, mv.enter, mv.dir)
<1>1. /\ mv.enter \in Vars \ Basic /\ mv.dir \in {-1, 1} /\ ray[mv.enter] = mv.dir
      /\ \A k \in Rows : mv.delta[k] = ray[basis[k]] /\ ray[basis[k]] \in {-1, 0, 1}
      /\ \A v \in Vars \ Basic : v # mv.enter => ray[v] = 0
      /\ \A v \in Vars : ray[v] \in {-1, 0, 1}
      /\ \A t \in Int : Moved(mv, t) = Plus(xval, t, ray)
  BY MoveIsRay
<1> HIDE DEF ray
<1>2. xval \in [Vars -> Int] /\ lb \in [Vars -> Int] /\ ub \in [Vars -> Int]
      /\ \A k \in Rows : basis[k] \in Basic /\ basis[k] \in Vars
  BY BasicMembers DEF TypeOK
<1>3. \A k \in Rows : Room(k, mv.delta) \in Nat
  <2> SUFFICES ASSUME NEW k \in Rows
               PROVE  Room(k, mv.delta) \in Nat
    OBVIOUS
  <2>1. mv.delta[k] \in {-1, 0, 1} /\ xval[basis[k]] \in Int
    BY <1>1, <1>2
  <2>2. Reach(k, mv.delta[k]) \in Int
    BY <1>2, SimplexAssumption DEF Reach, Effective
  <2> DEFINE n == mv.delta[k] * (Reach(k, mv.delta[k]) - xval[basis[k]])
  <2>3. n \in Int
    BY <2>1, <2>2
  <2> HIDE DEF n
  <2>4. Max({0, n}) \in {0, n} /\ 0 <= Max({0, n})
    BY <2>3, PairExtremes
  <2>5. QED
    BY <2>3, <2>4 DEF Room, n
<1>4. /\ Longest(mv) \in Nat /\ Longest(mv) <= Width(mv.enter)
      /\ \A k \in Blocking(mv.delta) : Longest(mv) <= Room(k, mv.delta)
  <2> DEFINE B == Blocking(mv.delta)
             R == {Room(k, mv.delta) : k \in B}
             S == {Width(mv.enter)} \cup R
  <2>1. B \subseteq Rows /\ IsFiniteSet(B)
    BY IndicesFinite, FS_Subset DEF Blocking
  <2>2. IsFiniteSet(R)
    <3> DEFINE f == [k \in B |-> Room(k, mv.delta)]
    <3> HIDE DEF B
    <3>1. f \in Surjection(B, R)
      BY DEF Surjection
    <3>2. QED
      BY <2>1, <3>1, FS_Surjection DEF ExistsSurjection
  <2>3. Width(mv.enter) \in Nat
    BY <1>1, WidthType
  <2>4. R \subseteq Nat
    BY <1>3, <2>1
  <2>5. IsFiniteSet(S) /\ S \subseteq Int /\ S # {} /\ S \subseteq Nat
    <3>1. S = R \cup {Width(mv.enter)}
      OBVIOUS
    <3> HIDE DEF S, R
    <3>2. IsFiniteSet(R \cup {Width(mv.enter)})
      BY <2>2, FS_AddElement
    <3>3. IsFiniteSet(S)
      BY <3>1, <3>2
    <3>4. S \subseteq Nat /\ Width(mv.enter) \in S
      BY <2>3, <2>4, <3>1
    <3>5. S \subseteq Int
      BY <3>4
    <3>6. QED
      BY <3>3, <3>4, <3>5
  <2>6. Longest(mv) = Min(S)
    BY DEF Longest
  <2>7. Width(mv.enter) \in S /\ \A k \in B : Room(k, mv.delta) \in S
    OBVIOUS
  <2> HIDE DEF S, B
  <2>8. Min(S) \in S /\ \A n \in S : Min(S) <= n
    BY <2>5, LargestMember
  <2>9. QED
    BY <2>5, <2>6, <2>7, <2>8 DEF B
<1>5. ASSUME NEW t \in Int
      PROVE  /\ Moved(mv, t) \in [Vars -> Int]
             /\ \A v \in Vars \ Basic : v # mv.enter => Moved(mv, t)[v] = xval[v]
             /\ Moved(mv, t)[mv.enter] = xval[mv.enter] + mv.dir * t
             /\ \A k \in Rows : Moved(mv, t)[basis[k]] = xval[basis[k]] + t * mv.delta[k]
  <2>1. \A v \in Vars : /\ ray[v] \in Int /\ xval[v] \in Int /\ t * ray[v] \in Int
                        /\ xval[v] + t * ray[v] \in Int
    BY <1>1, <1>2
  <2>2. Moved(mv, t) = [v \in Vars |-> xval[v] + t * ray[v]]
    BY <1>1 DEF Plus
  <2>3. Moved(mv, t) \in [Vars -> Int] /\ \A v \in Vars : Moved(mv, t)[v] = xval[v] + t * ray[v]
    BY <2>1, <2>2
  <2>4. \A v \in Vars \ Basic : v # mv.enter => Moved(mv, t)[v] = xval[v]
    BY <1>1, <2>1, <2>3
  <2>5. Moved(mv, t)[mv.enter] = xval[mv.enter] + mv.dir * t
    BY <1>1, <2>1, <2>3
  <2>6. \A k \in Rows : Moved(mv, t)[basis[k]] = xval[basis[k]] + t * mv.delta[k]
    BY <1>1, <1>2, <2>1, <2>3
  <2>7. QED
    BY <2>3, <2>4, <2>5, <2>6
<1>6. QED
  BY <1>3, <1>4, <1>5 DEF Blocking

\* The leaving variable is pinned to a bound of its own, also when the ratio test
\* gave it the side it comes from.
LEMMA PinnedAtBound ==
  ASSUME TypeOK, WorkingBounds, Ordered, NEW k \in Rows, NEW delta \in {-1, 1},
         Finite(Reach(k, delta))
  PROVE  LET v == basis[k] pin == Pinned(k, delta) IN
         /\ pin.xval \in Int /\ pin.stat \in {"LOWER", "UPPER"}
         /\ pin.stat = "LOWER" => Finite(lb[v]) /\ pin.xval = lb[v]
         /\ pin.stat = "UPPER" => Finite(ub[v]) /\ pin.xval = ub[v]
<1> DEFINE v == basis[k]
<1>1. v \in Vars /\ lb[v] \in Int /\ ub[v] \in Int
  BY BasicMembers DEF TypeOK
<1>2. ~ Finite(Infinite) /\ ~ Finite(-Infinite) /\ Infinite \in Nat /\ Infinite > 0
  BY SimplexAssumption DEF Finite, Size
<1>3. lb[v] < Infinite /\ ub[v] > -Infinite /\ lb[v] <= ub[v]
  <2>1. problem \in Problems
    BY DEF TypeOK
  <2>2. QED
    BY <1>1, <2>1, BoundsType DEF LowerOK, UpperOK, Ordered
<1> HIDE DEF v
<1>4. CASE lb[v] = ub[v]
  <2>1. Pinned(k, delta) = [stat |-> "LOWER", xval |-> lb[v]]
    BY <1>4 DEF Pinned, v
  <2>2. Finite(lb[v])
    BY <1>1, <1>2, <1>3, <1>4 DEF Finite, Size
  <2>3. QED
    BY <1>1, <2>1, <2>2 DEF v
<1>5. CASE lb[v] # ub[v] /\ delta = 1
  <2>1. Finite(Effective(k).hi)
    BY <1>5 DEF Reach
  <2>2. \/ Effective(k).hi = ub[v]
        \/ phase1 /\ Effective(k).hi = lb[v]
    <3>1. \/ Effective(k) = [lo |-> -Infinite, hi |-> lb[v]] /\ phase1
          \/ Effective(k) = [lo |-> ub[v], hi |-> Infinite]
          \/ Effective(k) = [lo |-> lb[v], hi |-> ub[v]]
      BY DEF Effective, v
    <3>2. QED
      BY <1>2, <2>1, <3>1
  <2>3. \/ Pinned(k, delta) = [stat |-> "LOWER", xval |-> lb[v]] /\ Finite(lb[v])
        \/ Pinned(k, delta) = [stat |-> "UPPER", xval |-> ub[v]] /\ Finite(ub[v])
    BY <1>5, <2>1, <2>2 DEF Pinned, v
  <2>4. QED
    BY <1>1, <2>3 DEF v
<1>6. CASE lb[v] # ub[v] /\ delta = -1
  <2>1. Finite(Effective(k).lo)
    BY <1>6 DEF Reach
  <2>2. \/ Effective(k).lo = lb[v]
        \/ phase1 /\ Effective(k).lo = ub[v]
    <3>1. \/ Effective(k) = [lo |-> -Infinite, hi |-> lb[v]]
          \/ Effective(k) = [lo |-> ub[v], hi |-> Infinite] /\ phase1
          \/ Effective(k) = [lo |-> lb[v], hi |-> ub[v]]
      BY DEF Effective, v
    <3>2. QED
      BY <1>2, <2>1, <3>1
  <2>3. \/ Pinned(k, delta) = [stat |-> "UPPER", xval |-> ub[v]] /\ Finite(ub[v])
        \/ Pinned(k, delta) = [stat |-> "LOWER", xval |-> lb[v]] /\ Finite(lb[v])
    BY <1>6, <2>1, <2>2 DEF Pinned, v
  <2>4. QED
    BY <1>1, <2>3 DEF v
<1>7. QED
  BY <1>4, <1>5, <1>6

ValuesTyped ==
    /\ lb \in [Vars -> Int] /\ ub \in [Vars -> Int] /\ xval \in [Vars -> Int]
    /\ basis \in [Rows -> Vars]

\* The infeasibility of typed values is a natural number.
LEMMA InfeasibilityNat == ValuesTyped => Infeasibility \in Nat
<1> SUFFICES ASSUME ValuesTyped
             PROVE  Infeasibility \in Nat
  OBVIOUS
<1> USE DEF ValuesTyped
<1> DEFINE f == [k \in Rows |-> Violation(basis[k], xval[basis[k]])]
<1>1. \A k \in Rows : f[k] \in Nat
  <2> SUFFICES ASSUME NEW k \in Rows
               PROVE  Violation(basis[k], xval[basis[k]]) \in Nat
    OBVIOUS
  <2> DEFINE v == basis[k]
  <2>1. lb[v] \in Int /\ ub[v] \in Int /\ xval[v] \in Int
    OBVIOUS
  <2> HIDE DEF v
  <2>2. Violation(v, xval[v]) \in Nat
    BY <2>1 DEF Violation, Below, Above
  <2>3. QED
    BY <2>2 DEF v
<1>2. Infeasibility = Sum(f, Rows)
  BY DEF Infeasibility
<1> HIDE DEF f
<1>3. QED
  BY <1>1, <1>2, SumNonnegative, IndicesFinite

\* What does not write the simplex keeps its seat.
LEMMA SeatedKept ==
  ASSUME Seated, problem' = problem, UNCHANGED spx
  PROVE  Seated'
<1>1. /\ lb' = lb /\ ub' = ub /\ basis' = basis /\ stat' = stat /\ xval' = xval /\ drifted' = drifted
  BY DEF spx
<1>2. ~ drifted' => Balanced(xval)'
  BY <1>1, BalancedKept DEF Seated
<1>3. Ordered' /\ BasicMarked' /\ NonbasicMarked'
  BY <1>1 DEF Seated, Ordered, BasicMarked, NonbasicMarked, Basic
<1>4. QED
  BY <1>2, <1>3 DEF Seated

\* The actions that end the loop.
LEMMA ConcludeShape ==
  ASSUME Span = Int, SimplexInv, pc = "iterate", NEW r \in Results, Conclude(r)
  PROVE  ShapeInv'
<1>1. /\ problem' = problem /\ lb' = lb /\ ub' = ub /\ basis' = basis /\ UNCHANGED spx
      /\ pc' = "publish" /\ claim' = r /\ y' = y /\ result' = result
  BY DEF Conclude, spx
<1>2. TypeOK'
  BY <1>1 DEF SimplexInv, ShapeInv, TypeOK, spx
<1>3. WorkingBounds' /\ Nonsingular(basis)'
  BY <1>1, WorkingBoundsKept, NonsingularKept DEF SimplexInv, ShapeInv
<1>4. Seated'
  BY <1>1, SeatedKept DEF SimplexInv, ShapeInv, Running
<1>5. QED
  BY <1>1, <1>2, <1>3, <1>4 DEF ShapeInv

\* The ways the loop ends.
LEMMA ConcludesShape ==
  ASSUME Span = Int, SimplexInv,
         \/ AtLimit \/ OutOfTime \/ RefactorizationFails \/ DeclareInfeasible
         \/ DeclareOptimal \/ DeclareUnbounded
  PROVE  ShapeInv'
<1>1. pc = "iterate" /\ \E r \in Results : Conclude(r)
  BY DEF AtLimit, OutOfTime, RefactorizationFails, DeclareInfeasible, DeclareOptimal,
     DeclareUnbounded, Price, Turn, Due, Results
<1>2. QED
  BY <1>1, ConcludeShape

\* A structural starts at the bound its mark names.
LEMMA NearestZeroMark ==
  ASSUME problem \in Problems, WorkingBounds, NEW v \in Vars
  PROVE  /\ Seat(v) \in Int /\ NearestZero(v) \in {"LOWER", "UPPER", "FREE"}
         /\ NearestZero(v) = "LOWER" => Finite(lb[v]) /\ Seat(v) = lb[v]
         /\ NearestZero(v) = "UPPER" => Finite(ub[v]) /\ Seat(v) = ub[v]
         /\ NearestZero(v) = "FREE" => ~ Finite(lb[v]) /\ ~ Finite(ub[v]) /\ Seat(v) = 0
<1>1. lb[v] \in Int /\ ub[v] \in Int
  BY BoundsType DEF LowerOK, UpperOK
<1>2. /\ NearestZero(v) \in {"LOWER", "UPPER", "FREE"}
      /\ NearestZero(v) = "LOWER" => Finite(lb[v])
      /\ NearestZero(v) = "UPPER" => Finite(ub[v])
      /\ NearestZero(v) = "FREE" => ~ Finite(lb[v]) /\ ~ Finite(ub[v])
  BY <1>1 DEF NearestZero, Finite, Size
<1>3. /\ NearestZero(v) = "LOWER" => Seat(v) = lb[v]
      /\ NearestZero(v) = "UPPER" => Seat(v) = ub[v]
      /\ NearestZero(v) = "FREE" => Seat(v) = 0
  BY DEF Seat
<1>4. QED
  BY <1>1, <1>2, <1>3

\* The first basis is seated.
LEMMA StartShape ==
  ASSUME Span = Int, SimplexInv, Start
  PROVE  ShapeInv'
<1>1. /\ TypeOK /\ WorkingBounds /\ Nonsingular(basis) /\ basis = Logicals /\ ~ drifted
      /\ problem \in Problems
  BY DEF SimplexInv, ShapeInv, Start, TypeOK
<1>2. /\ problem' = problem /\ lb' = lb /\ ub' = ub /\ basis' = basis /\ drifted' = drifted
      /\ pc' = "iterate" /\ UNCHANGED <<pricing, stall, last_infeas, iterations, age, y, claim, result>>
      /\ phase1' \in BOOLEAN
  BY DEF Start
<1> DEFINE w == [v \in Vars |-> IF v \in Cols THEN Seat(v) ELSE 0]
<1>3. w \in [Vars -> Int] /\ \A v \in Cols : w[v] = Seat(v)
  BY <1>1, NearestZeroMark, IndicesFinite
<1>4. xval' = Recomputed(basis, w)
  BY DEF Start
<1> HIDE DEF w
<1>5. Balanced(Recomputed(basis, w)) /\ \A j \in Vars \ Members(basis) : Recomputed(basis, w)[j] = w[j]
  BY <1>1, <1>3, RecomputedBalanced
<1>6. xval' \in [Vars -> Int] /\ Balanced(xval)'
  BY <1>2, <1>4, <1>5, BalancedKept DEF Balanced
<1>7. Vars \ Members(basis) = Cols /\ \A v \in Members(basis) : v \in Vars \ Cols
  <2>1. \A v \in Vars : v \in Members(basis) <=> v \notin Cols
    <3> SUFFICES ASSUME NEW v \in Vars
                 PROVE  v \in Members(basis) <=> v \notin Cols
      OBVIOUS
    <3>1. ASSUME v \notin Cols
          PROVE  v \in Members(basis)
      BY <1>1, <3>1, VarsSplit DEF Members, Logicals
    <3>2. \A k \in Rows : basis[k] \notin Cols
      BY <1>1, IndicesFinite DEF Logicals
    <3>3. QED
      BY <3>1, <3>2 DEF Members
  <2>2. Members(basis) \subseteq Vars
    BY <1>1, BasicMembers
  <2>3. QED
    BY <2>1, <2>2, IndicesFinite
<1>8. Basic' = Members(basis)
  BY <1>2 DEF Basic, Members
<1>9. stat' = [v \in Vars |-> IF v \in Cols THEN NearestZero(v) ELSE "BASIC"]
  BY DEF Start
<1>10. stat' \in [Vars -> {"BASIC", "LOWER", "UPPER", "FREE"}]
  BY <1>1, <1>9, NearestZeroMark
<1>11. TypeOK'
  BY <1>1, <1>2, <1>6, <1>10 DEF TypeOK
<1>12. WorkingBounds' /\ Nonsingular(basis)'
  BY <1>1, <1>2, WorkingBoundsKept, NonsingularKept
<1>13. Ordered'
  <2>1. \A v \in Vars : lb[v] <= ub[v]
    <3> SUFFICES ASSUME NEW v \in Vars
                 PROVE  lb[v] <= ub[v]
      OBVIOUS
    <3>1. CASE v \in Cols
      BY <3>1 DEF Start
    <3>2. CASE v \notin Cols
      BY <1>1, <3>2, RowWorkBound, BoundsType
    <3>3. QED
      BY <3>1, <3>2
  <2>2. QED
    BY <1>2, <2>1 DEF Ordered
<1>14. BasicMarked'
  BY <1>7, <1>8, <1>9 DEF BasicMarked
<1>15. NonbasicMarked'
  <2>1. \A v \in Cols : xval'[v] = Seat(v) /\ stat'[v] = NearestZero(v)
    BY <1>3, <1>4, <1>5, <1>7, <1>9, IndicesFinite
  <2>2. \A v \in Cols : /\ stat'[v] = "LOWER" => Finite(lb[v]) /\ xval'[v] = lb[v]
                        /\ stat'[v] = "UPPER" => Finite(ub[v]) /\ xval'[v] = ub[v]
                        /\ stat'[v] = "FREE" => ~ Finite(lb[v]) /\ ~ Finite(ub[v]) /\ xval'[v] = 0
                        /\ stat'[v] # "BASIC"
    BY <1>1, <2>1, NearestZeroMark, IndicesFinite
  <2>3. QED
    BY <1>2, <1>7, <1>8, <2>2 DEF NonbasicMarked
<1>16. QED
  BY <1>2, <1>6, <1>11, <1>12, <1>13, <1>14, <1>15 DEF ShapeInv, Seated

\* The actions that recompute the basic values.
LEMMA RecomputeShape ==
  ASSUME Span = Int, SimplexInv, Refactorize \/ EnterPhase2 \/ ForgiveResidual
  PROVE  ShapeInv'
<1>1. pc = "iterate" /\ TypeOK /\ WorkingBounds /\ Nonsingular(basis) /\ Seated /\ problem \in Problems
  BY DEF SimplexInv, ShapeInv, Running, Refactorize, EnterPhase2, ForgiveResidual, Due, Price, Turn,
     TypeOK
<1>2. /\ problem' = problem /\ lb' = lb /\ ub' = ub /\ basis' = basis /\ stat' = stat
      /\ xval' = Recomputed(basis, xval) /\ drifted' = FALSE /\ age' = 0
      /\ UNCHANGED <<iterations, pc, y, claim, result>>
  BY DEF Refactorize, EnterPhase2, ForgiveResidual, BeginPhase2
<1>3. phase1' \in BOOLEAN /\ pricing' \in 0 .. 2 /\ stall' \in 0 .. StallBland + 1 /\ last_infeas' \in Nat
  <2>1. CASE Refactorize
    BY <1>1, <2>1 DEF Refactorize, TypeOK
  <2>2. CASE EnterPhase2 \/ ForgiveResidual
    <3>1. phase1' = FALSE /\ pricing' = 0 /\ stall' = 0 /\ last_infeas' = Infinite
      BY <2>2 DEF EnterPhase2, ForgiveResidual, BeginPhase2
    <3>2. 0 \in 0 .. 2 /\ 0 \in 0 .. StallBland + 1 /\ Infinite \in Nat
      BY SimplexAssumption
    <3>3. QED
      BY <3>1, <3>2
  <2>3. QED
    BY <2>1, <2>2
<1>4. /\ Balanced(Recomputed(basis, xval))
      /\ \A j \in Vars \ Members(basis) : Recomputed(basis, xval)[j] = xval[j]
  BY <1>1, RecomputedBalanced DEF TypeOK
<1>5. xval' \in [Vars -> Int] /\ Balanced(xval)'
  BY <1>2, <1>4, BalancedKept DEF Balanced
<1>6. TypeOK'
  <2>1. 0 \in 0 .. RefactorInterval
    BY SimplexAssumption
  <2>2. age' \in 0 .. RefactorInterval /\ drifted' \in BOOLEAN
    BY <1>2, <2>1
  <2>3. QED
    BY <1>1, <1>2, <1>3, <1>5, <2>2 DEF TypeOK
<1>7. WorkingBounds' /\ Nonsingular(basis)' /\ Ordered'
  BY <1>1, <1>2, WorkingBoundsKept, NonsingularKept, OrderedKept DEF Seated
<1>8. BasicMarked'
  BY <1>1, <1>2 DEF Seated, BasicMarked, Basic
<1>9. NonbasicMarked'
  <2>1. \A v \in Vars \ Basic : xval'[v] = xval[v]
    BY <1>2, <1>4 DEF Basic, Members
  <2>2. Basic' = Basic
    BY <1>2 DEF Basic
  <2>3. QED
    BY <1>1, <1>2, <2>1, <2>2 DEF Seated, NonbasicMarked
<1>10. QED
  BY <1>1, <1>2, <1>5, <1>6, <1>7, <1>8, <1>9 DEF ShapeInv, Seated

\* Lost precision disturbs basic values only.
LEMMA DriftShape ==
  ASSUME Span = Int, SimplexInv, Drift
  PROVE  ShapeInv'
<1>1. pc = "iterate" /\ TypeOK /\ WorkingBounds /\ Nonsingular(basis) /\ Seated
  BY DEF SimplexInv, ShapeInv, Running, Drift
<1>2. /\ problem' = problem /\ lb' = lb /\ ub' = ub /\ basis' = basis /\ stat' = stat
      /\ drifted' = TRUE
      /\ UNCHANGED <<phase1, pricing, stall, last_infeas, age, iterations, pc, y, claim, result>>
  BY DEF Drift
<1>3. PICK k \in Rows, e \in {-1, 1} : xval' = [xval EXCEPT ![basis[k]] = @ + e]
  BY DEF Drift
<1>4. xval' \in [Vars -> Int] /\ \A v \in Vars \ Basic : xval'[v] = xval[v]
  <2>1. basis[k] \in Vars /\ basis[k] \in Basic /\ xval \in [Vars -> Int]
    BY <1>1, BasicMembers DEF TypeOK
  <2>2. QED
    BY <1>3, <2>1
<1>5. TypeOK'
  BY <1>1, <1>2, <1>4 DEF TypeOK
<1>6. WorkingBounds' /\ Nonsingular(basis)' /\ Ordered'
  BY <1>1, <1>2, WorkingBoundsKept, NonsingularKept, OrderedKept DEF Seated
<1>7. BasicMarked' /\ NonbasicMarked'
  BY <1>1, <1>2, <1>4 DEF Seated, BasicMarked, NonbasicMarked, Basic
<1>8. QED
  BY <1>1, <1>2, <1>5, <1>6, <1>7 DEF ShapeInv, Seated

\* What holds when a variable is priced.
LEMMA PriceFacts ==
  ASSUME Span = Int, SimplexInv, Price
  PROVE  /\ pc = "iterate" /\ TypeOK /\ WorkingBounds /\ Nonsingular(basis) /\ Seated
         /\ problem \in Problems
         /\ iterations + 1 \in 0 .. problem.limit
         /\ age + 1 \in 0 .. RefactorInterval /\ age < RefactorInterval
<1>1. /\ pc = "iterate" /\ TypeOK /\ WorkingBounds /\ Nonsingular(basis) /\ Seated
      /\ problem \in Problems /\ iterations < problem.limit /\ ~ (age >= RefactorInterval)
  BY DEF SimplexInv, ShapeInv, Running, Price, Turn, Due, TypeOK
<1>2. problem.limit \in Nat /\ iterations \in 0 .. problem.limit /\ age \in 0 .. RefactorInterval
      /\ RefactorInterval \in Nat
  BY <1>1, ProblemType, SimplexAssumption DEF TypeOK
<1>3. iterations + 1 \in 0 .. problem.limit
  BY <1>1, <1>2
<1>4. age + 1 \in 0 .. RefactorInterval /\ age < RefactorInterval
  BY <1>1, <1>2
<1>5. QED
  BY <1>1, <1>3, <1>4

\* A move keeps the balance.
LEMMA MovedBalanced ==
  ASSUME TypeOK, Span = Int, Nonsingular(basis), NEW mv \in Moves, NEW t \in Int, Balanced(xval)
  PROVE  Balanced(Moved(mv, t))
<1>1. Moved(mv, t) = Plus(xval, t, Ray(basis, mv.enter, mv.dir))
      /\ Balanced(Ray(basis, mv.enter, mv.dir))
  BY MoveIsRay
<1>2. QED
  BY <1>1, BalancedPlus DEF TypeOK

\* A bound flip moves the entering variable to its other bound.
LEMMA BoundFlipShape ==
  ASSUME Span = Int, SimplexInv, BoundFlip
  PROVE  ShapeInv'
<1>1. /\ pc = "iterate" /\ TypeOK /\ WorkingBounds /\ Nonsingular(basis) /\ Seated
      /\ problem \in Problems
      /\ iterations + 1 \in 0 .. problem.limit
  BY PriceFacts DEF BoundFlip
<1>2. PICK mv \in Moves :
        /\ Finite(Width(mv.enter)) /\ Longest(mv) = Width(mv.enter)
        /\ xval' = Moved(mv, Width(mv.enter))
        /\ stat' = [stat EXCEPT ![mv.enter] = IF @ = "LOWER" THEN "UPPER" ELSE "LOWER"]
        /\ iterations' = iterations + 1
        /\ UNCHANGED <<problem, lb, ub, basis, phase1, pricing, stall, last_infeas, age,
                       drifted, pc, y, claim, result>>
  BY DEF BoundFlip
<1> DEFINE e == mv.enter
           W == Width(e)
<1>3. /\ e \in Vars \ Basic /\ mv.dir \in {-1, 1}
  BY <1>1, MoveIsRay
<1>4. W \in Nat /\ W = ub[e] - lb[e] /\ Finite(lb[e]) /\ Finite(ub[e])
      /\ lb[e] \in Int /\ ub[e] \in Int
  BY <1>1, <1>2, <1>3, WidthType DEF Seated, TypeOK
<1>5. /\ Moved(mv, W) \in [Vars -> Int]
      /\ \A v \in Vars \ Basic : v # e => Moved(mv, W)[v] = xval[v]
      /\ Moved(mv, W)[e] = xval[e] + mv.dir * W
  <2>1. W \in Int
    BY <1>4
  <2> HIDE DEF W
  <2>2. QED
    BY <1>1, <2>1, MoveType DEF Seated
<1>6. /\ mv.dir = 1 => stat[e] = "LOWER" /\ xval[e] = lb[e]
      /\ mv.dir = -1 => stat[e] = "UPPER" /\ xval[e] = ub[e]
  BY <1>1, <1>4, EnteringOpen DEF Seated
<1>7. ~ drifted' => Balanced(xval)'
  <2>1. SUFFICES ASSUME ~ drifted
                 PROVE  Balanced(xval)'
    BY <1>2
  <2>2. Balanced(Moved(mv, W))
    <3>1. W \in Int
      BY <1>4
    <3> HIDE DEF W
    <3>2. QED
      BY <1>1, <2>1, <3>1, MovedBalanced DEF Seated
  <2>3. QED
    BY <1>2, <2>2, BalancedKept
<1> HIDE DEF W
<1>8. xval' = Moved(mv, W) /\ Basic' = Basic
  BY <1>2 DEF W, Basic
<1>9. stat' \in [Vars -> {"BASIC", "LOWER", "UPPER", "FREE"}]
      /\ (\A v \in Vars : v # e => stat'[v] = stat[v])
      /\ stat'[e] = IF stat[e] = "LOWER" THEN "UPPER" ELSE "LOWER"
  BY <1>1, <1>2, <1>3 DEF TypeOK
<1>10. TypeOK'
  <2>1. /\ problem' \in Problems /\ lb' \in [Vars -> Int] /\ ub' \in [Vars -> Int]
        /\ basis' \in [Rows -> Vars] /\ phase1' \in BOOLEAN /\ pricing' \in 0 .. 2
        /\ stall' \in 0 .. StallBland + 1 /\ last_infeas' \in Nat
        /\ age' \in 0 .. RefactorInterval /\ drifted' \in BOOLEAN
        /\ pc' \in {"begin", "iterate", "publish", "done"} /\ y' \in [Rows -> Int]
        /\ claim' \in Results \cup {"NONE"} /\ result' \in Results \cup {"NOT_RUN"}
    BY <1>1, <1>2 DEF TypeOK
  <2>2. iterations' \in 0 .. problem'.limit /\ xval' \in [Vars -> Int]
    BY <1>1, <1>2, <1>5, <1>8
  <2>3. QED
    BY <1>9, <2>1, <2>2 DEF TypeOK
<1>11. WorkingBounds' /\ Nonsingular(basis)' /\ Ordered'
  BY <1>1, <1>2, WorkingBoundsKept, NonsingularKept, OrderedKept DEF Seated
<1>12. BasicMarked'
  BY <1>1, <1>3, <1>8, <1>9, BasicMembers DEF Seated, BasicMarked
<1>13. NonbasicMarked'
  <2>1. lb' = lb /\ ub' = ub
    BY <1>2
  <2> SUFFICES ASSUME NEW v \in Vars \ Basic
               PROVE  /\ stat'[v] = "LOWER" => Finite(lb[v]) /\ xval'[v] = lb[v]
                      /\ stat'[v] = "UPPER" => Finite(ub[v]) /\ xval'[v] = ub[v]
                      /\ stat'[v] = "FREE" => ~ Finite(lb[v]) /\ ~ Finite(ub[v]) /\ xval'[v] = 0
                      /\ stat'[v] # "BASIC"
    BY <1>8, <2>1 DEF NonbasicMarked
  <2>2. CASE v # e
    BY <1>1, <1>5, <1>8, <1>9, <2>2 DEF Seated, NonbasicMarked
  <2>3. CASE v = e /\ mv.dir = 1
    BY <1>4, <1>5, <1>6, <1>8, <1>9, <2>3
  <2>4. CASE v = e /\ mv.dir = -1
    BY <1>4, <1>5, <1>6, <1>8, <1>9, <2>4
  <2>5. QED
    BY <1>3, <2>2, <2>3, <2>4
<1>14. QED
  BY <1>1, <1>2, <1>7, <1>10, <1>11, <1>12, <1>13 DEF ShapeInv, Seated

\* A pivot swaps one variable, and pins the one that leaves at a bound.
LEMMA PivotShape ==
  ASSUME Span = Int, SimplexInv, Pivot
  PROVE  ShapeInv'
<1>1. /\ pc = "iterate" /\ TypeOK /\ WorkingBounds /\ Nonsingular(basis) /\ Seated
      /\ problem \in Problems
      /\ iterations + 1 \in 0 .. problem.limit
      /\ age + 1 \in 0 .. RefactorInterval
  BY PriceFacts DEF Pivot
<1>2. PICK mv \in Moves : \E k \in Blocking(mv.delta) :
        LET t == Longest(mv) leaving == basis[k] pin == Pinned(k, mv.delta[k]) IN
        /\ xval' = [Moved(mv, t) EXCEPT ![leaving] = pin.xval]
        /\ stat' = [stat EXCEPT ![leaving] = pin.stat, ![mv.enter] = "BASIC"]
        /\ basis' = [basis EXCEPT ![k] = mv.enter]
        /\ age' \in {age + 1, RefactorInterval}
        /\ drifted' = (drifted \/ pin.xval # Moved(mv, t)[leaving])
        /\ iterations' = iterations + 1
        /\ UNCHANGED <<problem, lb, ub, phase1, pc, y, claim, result>>
        /\ last_infeas' = IF phase1 THEN Infeasibility' ELSE last_infeas
        /\ stall' = IF IF phase1 THEN Infeasibility' >= last_infeas ELSE t = 0
                    THEN Min({stall + 1, StallBland + 1}) ELSE 0
        /\ pricing' = Repriced(stall')
  BY DEF Pivot
<1>3. PICK k \in Blocking(mv.delta) :
        /\ xval' = [Moved(mv, Longest(mv)) EXCEPT ![basis[k]] = Pinned(k, mv.delta[k]).xval]
        /\ stat' = [stat EXCEPT ![basis[k]] = Pinned(k, mv.delta[k]).stat, ![mv.enter] = "BASIC"]
        /\ basis' = [basis EXCEPT ![k] = mv.enter]
        /\ age' \in {age + 1, RefactorInterval}
        /\ drifted' = (drifted \/ Pinned(k, mv.delta[k]).xval # Moved(mv, Longest(mv))[basis[k]])
        /\ iterations' = iterations + 1
        /\ UNCHANGED <<problem, lb, ub, phase1, pc, y, claim, result>>
        /\ last_infeas' = IF phase1 THEN Infeasibility' ELSE last_infeas
        /\ stall' = IF IF phase1 THEN Infeasibility' >= last_infeas ELSE Longest(mv) = 0
                    THEN Min({stall + 1, StallBland + 1}) ELSE 0
        /\ pricing' = Repriced(stall')
  BY <1>2
<1> DEFINE e == mv.enter
           t == Longest(mv)
           pin == Pinned(k, mv.delta[k])
           out == basis[k]
           w == Moved(mv, t)
<1>4. /\ e \in Vars \ Basic /\ k \in Rows /\ mv.delta[k] \in {-1, 1} /\ Finite(Reach(k, mv.delta[k]))
      /\ Ftran(basis, Column(e))[k] # 0
  BY <1>1, MoveIsRay DEF Blocking
<1>5. /\ t \in Int /\ w \in [Vars -> Int]
      /\ \A v \in Vars \ Basic : v # e => w[v] = xval[v]
  BY <1>1, MoveType DEF Seated
<1>6. /\ pin.xval \in Int /\ pin.stat \in {"LOWER", "UPPER"}
      /\ pin.stat = "LOWER" => Finite(lb[out]) /\ pin.xval = lb[out]
      /\ pin.stat = "UPPER" => Finite(ub[out]) /\ pin.xval = ub[out]
  BY <1>1, <1>4, PinnedAtBound DEF Seated
<1> HIDE DEF pin, w, t, e
<1>7. /\ xval' = [w EXCEPT ![out] = pin.xval]
      /\ stat' = [stat EXCEPT ![out] = pin.stat, ![e] = "BASIC"]
      /\ basis' = [basis EXCEPT ![k] = e]
      /\ drifted' = (drifted \/ pin.xval # w[out])
      /\ problem' = problem /\ lb' = lb /\ ub' = ub
  BY <1>3 DEF pin, w, t, e
<1>8. /\ out \in Basic /\ out \in Vars /\ out # e /\ e \in Vars /\ basis \in [Rows -> Vars]
      /\ Basic = Members(basis)
  BY <1>1, <1>4, BasicMembers
<1>9. Basic' = (Basic \ {out}) \cup {e} /\ Basic' \subseteq Vars
  <2>1. \A l \in Rows : l # k => basis[l] # out
    BY <1>1, <1>4, NonsingularInjective DEF Nonsingular
  <2>2. basis'[k] = e /\ \A l \in Rows : l # k => basis'[l] = basis[l]
    BY <1>4, <1>7, <1>8
  <2>3. Basic' = {basis'[l] : l \in Rows}
    BY DEF Basic
  <2>4. Basic \subseteq Vars
    BY <1>1, BasicMembers
  <2>5. \A v \in Basic' : v \in (Basic \ {out}) \cup {e}
    BY <2>1, <2>2, <2>3 DEF Basic
  <2>6. \A v \in (Basic \ {out}) \cup {e} : v \in Basic'
    <3>1. e \in Basic'
      BY <1>4, <2>2, <2>3
    <3>2. ASSUME NEW v \in Basic, v # out
          PROVE  v \in Basic'
      <4>1. PICK l \in Rows : v = basis[l]
        BY DEF Basic
      <4>2. l # k /\ basis'[l] = v
        BY <2>2, <3>2, <4>1
      <4>3. QED
        BY <2>3, <4>2
    <3>3. QED
      BY <3>1, <3>2
  <2>7. QED
    BY <1>8, <2>4, <2>5, <2>6
<1>10. /\ xval' \in [Vars -> Int] /\ xval'[out] = pin.xval
       /\ \A v \in Vars : v # out => xval'[v] = w[v]
  BY <1>5, <1>6, <1>7, <1>8
<1>11. /\ stat' \in [Vars -> {"BASIC", "LOWER", "UPPER", "FREE"}]
       /\ stat'[out] = pin.stat /\ stat'[e] = "BASIC"
       /\ \A v \in Vars : v # out /\ v # e => stat'[v] = stat[v]
  BY <1>1, <1>6, <1>7, <1>8 DEF TypeOK
<1>12. Nonsingular(basis)'
  <2>1. Nonsingular([basis EXCEPT ![k] = e])
    BY <1>1, <1>4, <1>8, PivotNonsingular DEF e
  <2>2. problem' = problem /\ basis' = [basis EXCEPT ![k] = e]
    BY <1>7
  <2>3. QED
    BY <2>1, <2>2, NonsingularMoved
<1>13. basis' \in [Rows -> Vars]
  BY <1>7, <1>8
<1>14. stall' \in 0 .. StallBland + 1 /\ pricing' \in 0 .. 2
  <2>1. StallBland \in Nat /\ stall \in 0 .. StallBland + 1 /\ pricing \in 0 .. 2
    BY <1>1, SimplexAssumption DEF TypeOK
  <2> DEFINE S == {stall + 1, StallBland + 1}
  <2>2. Min(S) \in S /\ Min(S) <= StallBland + 1
    <3>1. stall + 1 \in Int /\ StallBland + 1 \in Int
      BY <2>1
    <3>2. QED
      BY <3>1, PairExtremes
  <2>3. Min(S) \in 0 .. StallBland + 1
    BY <2>1, <2>2
  <2>4. stall' = Min(S) \/ stall' = 0
    BY <1>3
  <2>5. stall' \in 0 .. StallBland + 1
    BY <2>1, <2>3, <2>4
  <2>6. pricing' \in 0 .. 2
    <3>1. pricing' = Repriced(stall')
      BY <1>3
    <3>2. Repriced(stall') \in {0, 1, 2, pricing}
      BY <2>5, <2>1, SimplexAssumption DEF Repriced
    <3>3. QED
      BY <2>1, <3>1, <3>2
  <2>7. QED
    BY <2>5, <2>6
<1>15. last_infeas' \in Nat
  <2>1. Infeasibility' \in Nat
    <3>1. ValuesTyped'
      BY <1>1, <1>7, <1>10, <1>13 DEF TypeOK, ValuesTyped
    <3>2. (Infeasibility \in Nat)'
      BY <3>1, InfeasibilityNat, PTL
    <3>3. QED
      BY <3>2
  <2>2. last_infeas \in Nat
    BY <1>1 DEF TypeOK
  <2>3. QED
    BY <1>3, <2>1, <2>2
<1>16. TypeOK'
  <2>1. /\ problem' \in Problems /\ lb' \in [Vars -> Int] /\ ub' \in [Vars -> Int]
        /\ phase1' \in BOOLEAN
        /\ pc' \in {"begin", "iterate", "publish", "done"} /\ y' \in [Rows -> Int]
        /\ claim' \in Results \cup {"NONE"} /\ result' \in Results \cup {"NOT_RUN"}
    BY <1>1, <1>3 DEF TypeOK
  <2>2. iterations' \in 0 .. problem'.limit
    BY <1>1, <1>3
  <2>3. age' \in 0 .. RefactorInterval
    <3>1. RefactorInterval \in 0 .. RefactorInterval
      BY SimplexAssumption
    <3>2. QED
      BY <1>1, <1>3, <3>1
  <2>4. drifted' \in BOOLEAN
    BY <1>1, <1>7 DEF TypeOK
  <2>5. QED
    BY <1>10, <1>11, <1>13, <1>14, <1>15, <2>1, <2>2, <2>3, <2>4 DEF TypeOK
<1>17. WorkingBounds' /\ Ordered'
  BY <1>1, <1>7, WorkingBoundsKept, OrderedKept DEF Seated
<1>18. BasicMarked'
  BY <1>1, <1>8, <1>9, <1>11, BasicMembers DEF Seated, BasicMarked
<1>19. NonbasicMarked'
  <2> SUFFICES ASSUME NEW v \in Vars \ Basic'
               PROVE  /\ stat'[v] = "LOWER" => Finite(lb[v]) /\ xval'[v] = lb[v]
                      /\ stat'[v] = "UPPER" => Finite(ub[v]) /\ xval'[v] = ub[v]
                      /\ stat'[v] = "FREE" => ~ Finite(lb[v]) /\ ~ Finite(ub[v]) /\ xval'[v] = 0
                      /\ stat'[v] # "BASIC"
    BY <1>7 DEF NonbasicMarked
  <2>1. CASE v = out
    BY <1>6, <1>10, <1>11, <2>1
  <2>2. CASE v # out
    <3>1. v # e /\ v \in Vars \ Basic
      BY <1>9, <2>2
    <3>2. stat'[v] = stat[v] /\ xval'[v] = xval[v]
      BY <1>5, <1>10, <1>11, <2>2, <3>1
    <3>3. QED
      BY <1>1, <3>1, <3>2 DEF Seated, NonbasicMarked
  <2>3. QED
    BY <2>1, <2>2
<1>20. ~ drifted' => Balanced(xval)'
  <2>1. SUFFICES ASSUME ~ drifted, pin.xval = w[out]
                 PROVE  Balanced(xval)'
    BY <1>7
  <2>2. Balanced(w)
    BY <1>1, <1>5, <2>1, MovedBalanced DEF Seated, w
  <2>3. xval' = w
    BY <1>5, <1>7, <2>1
  <2>4. QED
    BY <1>7, <2>2, <2>3, BalancedKept
<1>21. QED
  BY <1>1, <1>3, <1>12, <1>16, <1>17, <1>18, <1>19, <1>20 DEF ShapeInv, Seated

(***************************************************************************)
(* The optimum that is published.                                          *)
(***************************************************************************)
Public(b, c) == [i \in Rows |-> -Btran(b, c)[i]]

\* The costs of the basis, of either phase.
LEMMA BasicCostType ==
  ASSUME TypeOK, NEW one \in BOOLEAN
  PROVE  BasicCost(one) \in [Rows -> Int]
<1>1. \A k \in Rows : basis[k] \in Vars /\ Cost(basis[k]) \in Int
  BY BasicMembers, CostType DEF TypeOK
<1>2. QED
  BY <1>1 DEF BasicCost

\* The published multipliers have the opposite sign.
LEMMA AlongNegated ==
  ASSUME problem \in Problems, NEW d \in [Rows -> Int], NEW v \in Vars
  PROVE  Along([i \in Rows |-> -d[i]], v) = -Along(d, v) /\ Along(d, v) \in Int
<1> DEFINE n == [i \in Rows |-> -d[i]]
           f == [i \in Rows |-> M(i, v) * d[i]]
           g == [i \in Rows |-> M(i, v) * n[i]]
<1>1. \A i \in Rows : f[i] \in Int /\ g[i] = (-1) * f[i]
  <2> SUFFICES ASSUME NEW i \in Rows
               PROVE  M(i, v) * d[i] \in Int /\ M(i, v) * (-d[i]) = (-1) * (M(i, v) * d[i])
    OBVIOUS
  <2>1. M(i, v) \in {-1, 0, 1} /\ d[i] \in Int
    BY MatrixType
  <2>2. QED
    BY <2>1
<1>2. Along(d, v) = Sum(f, Rows) /\ Along(n, v) = Sum(g, Rows)
  BY DEF Along
<1> HIDE DEF f, g, n
<1>3. Sum(g, Rows) = (-1) * Sum(f, Rows) /\ Sum(f, Rows) \in Int
  BY <1>1, SumScaled, SumType, IndicesFinite
<1>4. QED
  BY <1>2, <1>3 DEF n

\* The multipliers published price the columns as the loop did, and the rows as
\* it priced their logicals.
LEMMA PublicPrices ==
  ASSUME TypeOK, Span = Int, Nonsingular(basis), ~ phase1
  PROVE  LET public == Public(basis, BasicCost(FALSE)) IN
         /\ public \in [Rows -> Int]
         /\ \A j \in Cols : Rc(j, public) = Priced[j]
         /\ \A i \in Rows : -public[i] = Priced[NCols + i]
<1> DEFINE dual == Btran(basis, BasicCost(FALSE))
           public == Public(basis, BasicCost(FALSE))
<1>1. problem \in Problems /\ basis \in [Rows -> Vars] /\ phase1 = FALSE
  BY DEF TypeOK
<1>2. dual \in [Rows -> Int] /\ \A k \in Rows : Along(dual, basis[k]) = BasicCost(FALSE)[k]
  BY <1>1, BasicCostType, BtranSolves DEF Nonsingular
<1>3. \A k \in Rows : BasicCost(FALSE)[k] = Cost(basis[k])
  BY DEF BasicCost
<1>4. Priced = [v \in Vars |-> IF v \in Basic THEN 0 ELSE Cost(v) - Along(dual, v)]
  BY <1>1 DEF Priced
<1>5. public = [i \in Rows |-> -dual[i]]
  BY DEF Public
<1> HIDE DEF dual, public
<1>6. \A v \in Vars : Priced[v] = Cost(v) - Along(dual, v) /\ Cost(v) \in Int /\ Along(dual, v) \in Int
  <2> SUFFICES ASSUME NEW v \in Vars
               PROVE  Priced[v] = Cost(v) - Along(dual, v) /\ Cost(v) \in Int /\ Along(dual, v) \in Int
    OBVIOUS
  <2>1. Cost(v) \in Int /\ Along(dual, v) \in Int
    BY <1>1, <1>2, CostType, AlongNegated
  <2>2. ASSUME v \in Basic
        PROVE  Along(dual, v) = Cost(v)
    BY <1>2, <1>3, <2>2 DEF Basic
  <2>3. QED
    BY <1>4, <2>1, <2>2
<1>7. public \in [Rows -> Int]
  BY <1>2, <1>5
<1>8. \A j \in Cols : Rc(j, public) = Priced[j]
  <2> SUFFICES ASSUME NEW j \in Cols
               PROVE  Rc(j, public) = Priced[j]
    OBVIOUS
  <2>1. j \in Vars /\ Cost(j) = problem.c[j]
    BY IndicesFinite DEF Cost
  <2>2. Along(public, j) = -Along(dual, j)
    BY <1>1, <1>2, <1>5, <2>1, AlongNegated
  <2>3. QED
    BY <1>6, <2>1, <2>2 DEF Rc
<1>9. \A i \in Rows : -public[i] = Priced[NCols + i]
  <2> SUFFICES ASSUME NEW i \in Rows
               PROVE  -public[i] = Priced[NCols + i]
    OBVIOUS
  <2>1. NCols + i \in Vars \ Cols
    BY IndicesFinite
  <2>2. Cost(NCols + i) = 0
    BY <2>1 DEF Cost
  <2>3. Along(dual, NCols + i) = -dual[i] /\ dual[i] \in Int
    BY <1>1, <1>2, <2>1, AlongType
  <2>4. public[i] = -dual[i]
    BY <1>5
  <2>5. QED
    BY <1>6, <2>1, <2>2, <2>3, <2>4
<1>10. QED
  BY <1>7, <1>8, <1>9 DEF public

\* With nothing eligible every price has the sign its bound asks for.
LEMMA PricedSigns ==
  ASSUME TypeOK, Span = Int, Nonsingular(basis), WorkingBounds, Seated, Eligible(Priced) = {},
         NEW v \in Vars
  PROVE  /\ Priced[v] > 0 => At(xval[v], lb[v])
         /\ Priced[v] < 0 => At(xval[v], ub[v])
<1>1. Priced \in [Vars -> Int] /\ \A u \in Basic : Priced[u] = 0
  BY PricedIsGradient
<1>2. CASE v \in Basic
  BY <1>1, <1>2
<1>3. CASE v \in Vars \ Basic
  <2>1. /\ stat[v] = "LOWER" => Finite(lb[v]) /\ xval[v] = lb[v]
        /\ stat[v] = "UPPER" => Finite(ub[v]) /\ xval[v] = ub[v]
        /\ stat[v] = "FREE" => ~ Finite(lb[v]) /\ ~ Finite(ub[v]) /\ xval[v] = 0
        /\ stat[v] # "BASIC"
    BY <1>3 DEF Seated, NonbasicMarked
  <2>2. stat[v] \in {"BASIC", "LOWER", "UPPER", "FREE"}
    BY DEF TypeOK
  <2>3. CASE lb[v] = ub[v]
    <3>1. Finite(lb[v])
      <4>1. lb[v] \in Int /\ lb[v] < Infinite /\ ub[v] > -Infinite
        BY BoundsType DEF TypeOK, LowerOK, UpperOK
      <4>2. QED
        BY <2>3, <4>1, SimplexAssumption DEF Finite, Size
    <3>2. QED
      BY <2>1, <2>2, <2>3, <3>1 DEF At
  <2>4. CASE lb[v] # ub[v]
    <3>1. ~ (stat[v] # "UPPER" /\ Priced[v] < 0) /\ ~ (stat[v] # "LOWER" /\ Priced[v] > 0)
      BY <1>3, <2>4 DEF Eligible
    <3>2. QED
      BY <2>1, <3>1 DEF At
  <2>5. QED
    BY <2>3, <2>4
<1>4. QED
  BY <1>2, <1>3

\* With no infeasibility every value is within its working bounds.
LEMMA InsideWorking ==
  ASSUME TypeOK, WorkingBounds, Seated, Infeasibility = 0, NEW v \in Vars
  PROVE  Within(xval[v], WorkRange(v))
<1>0. lb[v] \in Int /\ ub[v] \in Int /\ xval[v] \in Int /\ lb[v] <= ub[v]
  BY DEF TypeOK, Seated, Ordered
<1>1. CASE v \in Basic
  <2>1. PICK k \in Rows : v = basis[k]
    BY <1>1 DEF Basic
  <2>2. ~ Below(v, xval[v]) /\ ~ Above(v, xval[v])
    BY <2>1, NoInfeasibility
  <2>3. QED
    BY <1>0, <2>2 DEF Below, Above, Within, WorkRange
<1>2. CASE v \in Vars \ Basic
  <2>1. /\ stat[v] = "LOWER" => Finite(lb[v]) /\ xval[v] = lb[v]
        /\ stat[v] = "UPPER" => Finite(ub[v]) /\ xval[v] = ub[v]
        /\ stat[v] = "FREE" => ~ Finite(lb[v]) /\ ~ Finite(ub[v]) /\ xval[v] = 0
        /\ stat[v] # "BASIC"
    BY <1>2 DEF Seated, NonbasicMarked
  <2>2. stat[v] \in {"BASIC", "LOWER", "UPPER", "FREE"}
    BY DEF TypeOK
  <2>3. \/ xval[v] = lb[v]
        \/ xval[v] = ub[v]
        \/ ~ Finite(lb[v]) /\ ~ Finite(ub[v])
    BY <2>1, <2>2
  <2>4. QED
    BY <1>0, <2>3 DEF Within, WorkRange
<1>3. QED
  BY <1>1, <1>2

\* Balanced values: a row's activity is its logical's value.
LEMMA ActivityIsLogical ==
  ASSUME TypeOK, Balanced(xval), NEW i \in Rows
  PROVE  Activity(i) = xval[NCols + i] /\ Activity(i) \in Int
<1>1. problem \in Problems /\ xval \in [Vars -> Int] /\ Balance(i, xval) = 0 /\ xval[NCols + i] \in Int
  BY IndicesFinite DEF TypeOK, Balanced
<1>2. Activity(i) \in Int
  BY <1>1, ProductType, IndicesFinite DEF Activity, Integers
<1>3. Balance(i, xval) = Activity(i) - xval[NCols + i]
  BY <1>1, BalanceIsActivity DEF Activity
<1>4. QED
  BY <1>1, <1>2, <1>3

\* Without infeasibility the point satisfies the caller's model.
LEMMA InsideModel ==
  ASSUME TypeOK, WorkingBounds, Seated, Infeasibility = 0, Balanced(xval)
  PROVE  /\ \A j \in Cols : Within(xval[j], problem.col[j])
         /\ \A i \in Rows : Within(Activity(i), problem.row[i])
<1>1. problem \in Problems
  BY DEF TypeOK
<1>2. ASSUME NEW j \in Cols
      PROVE  Within(xval[j], problem.col[j])
  <2>1. j \in Vars /\ Within(xval[j], WorkRange(j)) /\ lb[j] <= ub[j]
    BY IndicesFinite, InsideWorking DEF Seated, Ordered
  <2>2. /\ lb[j] \in Int /\ ub[j] \in Int /\ xval[j] \in Int
        /\ lb[j] < Infinite /\ ub[j] > -Infinite
    BY <1>1, <2>1, BoundsType DEF TypeOK, LowerOK, UpperOK
  <2>3. problem.col[j].lo <= lb[j] /\ ub[j] <= problem.col[j].hi
    BY <1>1, <2>1, BoundsType, ColumnWorkBound
  <2>4. problem.col[j].lo \in Int /\ problem.col[j].hi \in Int
    BY <1>1, ProblemType DEF BoundsOK
  <2>5. (Finite(lb[j]) => lb[j] <= xval[j]) /\ (Finite(ub[j]) => xval[j] <= ub[j])
    BY <2>1 DEF Within, WorkRange
  <2>6. Infinite \in Nat
    BY SimplexAssumption
  <2>7. Finite(problem.col[j].lo) => problem.col[j].lo <= xval[j]
    BY <2>2, <2>3, <2>4, <2>5, <2>6 DEF Finite, Size
  <2>8. Finite(problem.col[j].hi) => xval[j] <= problem.col[j].hi
    BY <2>2, <2>3, <2>4, <2>5, <2>6 DEF Finite, Size
  <2>9. QED
    BY <2>7, <2>8 DEF Within
<1>3. ASSUME NEW i \in Rows
      PROVE  Within(Activity(i), problem.row[i])
  <2>1. NCols + i \in Vars \ Cols /\ (NCols + i) - NCols = i
    BY IndicesFinite, SimplexAssumption DEF Rows
  <2>2. Within(xval[NCols + i], WorkRange(NCols + i))
    BY <2>1, InsideWorking
  <2>3. WorkBound(NCols + i) = problem.row[i]
    BY <1>1, <2>1, RowWorkBound
  <2>4. lb[NCols + i] = problem.row[i].lo /\ ub[NCols + i] = problem.row[i].hi
    BY <1>1, <2>1, <2>3, BoundsType
  <2>5. QED
    BY <2>2, <2>4, ActivityIsLogical DEF Within, WorkRange
<1>4. QED
  BY <1>2, <1>3

\* A point within the bounds has no residual.
LEMMA NoResidual ==
  ASSUME TypeOK, WorkingBounds, Seated, Infeasibility = 0, Balanced(xval)
  PROVE  PrimalResidual <= Forgiven
<1> DEFINE R == UNION {Excess(Activity(i), problem.row[i]) : i \in Rows}
           C == UNION {Excess(xval[j], problem.col[j]) : j \in Cols}
           S == {0} \cup R \cup C
<1>0. problem \in Problems
  BY DEF TypeOK
<1>1. ASSUME NEW v \in Int, NEW b, b.lo \in Int, b.hi \in Int, Within(v, b), NEW n \in Excess(v, b)
      PROVE  n \in Int /\ n <= 0
  BY <1>1 DEF Within, Excess
<1>2. \A n \in R : n \in Int /\ n <= 0
  <2> SUFFICES ASSUME NEW i \in Rows, NEW n \in Excess(Activity(i), problem.row[i])
               PROVE  n \in Int /\ n <= 0
    OBVIOUS
  <2>1. problem.row[i].lo \in Int /\ problem.row[i].hi \in Int
    BY <1>0, ProblemType DEF BoundsOK
  <2>2. Activity(i) \in Int /\ Within(Activity(i), problem.row[i])
    BY ActivityIsLogical, InsideModel
  <2>3. QED
    BY <1>1, <2>1, <2>2
<1>3. \A n \in C : n \in Int /\ n <= 0
  <2> SUFFICES ASSUME NEW j \in Cols, NEW n \in Excess(xval[j], problem.col[j])
               PROVE  n \in Int /\ n <= 0
    OBVIOUS
  <2>1. problem.col[j].lo \in Int /\ problem.col[j].hi \in Int
    BY <1>0, ProblemType DEF BoundsOK
  <2>2. xval[j] \in Int /\ Within(xval[j], problem.col[j])
    BY IndicesFinite, InsideModel DEF TypeOK
  <2>3. QED
    BY <1>1, <2>1, <2>2
<1>4. PrimalResidual = Max(S)
  <2> HIDE DEF R, C
  <2>1. PrimalResidual = Max({0} \cup R \cup C)
    BY DEF PrimalResidual, R, C
  <2>2. QED
    BY <2>1
<1> HIDE DEF R, C
<1>5. 0 \in S /\ \A n \in S : n \in Int /\ n <= 0
  BY <1>2, <1>3
<1> HIDE DEF S
<1>6. Max(S) \in S
  BY <1>5 DEF Max
<1>7. QED
  BY <1>4, <1>5, <1>6, SimplexAssumption

\* One singleton row at most to a column, none to a fixed one.
Repairable ==
    \A j \in Cols : /\ Cardinality(SingletonRows(j)) <= 1
                    /\ SingletonRows(j) # {} => problem.col[j].lo # problem.col[j].hi

\* Then the singleton row of a column is unique.
LEMMA OneSingleton ==
  ASSUME Repairable, NEW j \in Cols, NEW i \in SingletonRows(j), NEW k \in SingletonRows(j)
  PROVE  i = k
<1> DEFINE S == SingletonRows(j)
<1>1. S \subseteq Rows /\ IsFiniteSet(S)
  BY IndicesFinite, FS_Subset DEF SingletonRows
<1>2. Cardinality(S) <= 1 /\ Cardinality(S) \in Nat
  BY <1>1, FS_CardinalityType DEF Repairable
<1> HIDE DEF S
<1>3. Cardinality(S) # 0
  BY <1>1, FS_EmptySet DEF S
<1>4. Cardinality(S) = 1
  BY <1>2, <1>3
<1>5. \E x : S = {x}
  BY <1>1, <1>4, FS_Singleton
<1>6. QED
  BY <1>5 DEF S

\* A singleton row has one column, with an entry of 1 or -1.
LEMMA SingletonColumn ==
  ASSUME problem \in Problems, NEW j \in Cols, NEW i \in SingletonRows(j)
  PROVE  /\ \A q \in Cols : i \in SingletonRows(q) => q = j
         /\ i \in Rows /\ problem.A[i][j] \in {-1, 1}
         /\ \A q \in Cols \ {j} : problem.A[i][q] = 0
<1>1. {q \in Cols : problem.A[i][q] # 0} = {j}
  BY DEF SingletonRows
<1>2. \A q \in Cols : i \in SingletonRows(q) => q = j
  <2> SUFFICES ASSUME NEW q \in Cols, i \in SingletonRows(q)
               PROVE  q = j
    OBVIOUS
  <2>1. {u \in Cols : problem.A[i][u] # 0} = {q}
    BY DEF SingletonRows
  <2>2. QED
    BY <1>1, <2>1
<1>3. QED
  BY <1>2, ImpliedBound

\* The singleton rows of a nonbasic column have basic logicals.
LEMMA SingletonLogicalBasic ==
  ASSUME TypeOK, Nonsingular(basis), NEW j \in Cols, j \notin Basic, NEW i \in SingletonRows(j)
  PROVE  NCols + i \in Basic
<1>1. SUFFICES ASSUME NCols + i \notin Basic
               PROVE  FALSE
  OBVIOUS
<1>2. problem \in Problems /\ basis \in [Rows -> Vars]
  BY DEF TypeOK
<1>3. i \in Rows /\ \A q \in Cols \ {j} : problem.A[i][q] = 0
  BY <1>2, SingletonColumn
<1>4. \A k \in Rows : M(i, basis[k]) = 0
  <2> SUFFICES ASSUME NEW k \in Rows
               PROVE  M(i, basis[k]) = 0
    OBVIOUS
  <2>1. basis[k] \in Basic /\ basis[k] # j /\ basis[k] # NCols + i
    BY <1>1 DEF Basic
  <2>2. QED
    BY <1>3, <2>1 DEF M, Entry
<1>5. Unit(i) \in [Rows -> Int] /\ Unit(i)[i] = 1
  BY <1>3 DEF Unit
<1>6. PICK z \in [Rows -> Int] : Solves(problem.A, basis, z, Unit(i))
  BY <1>5 DEF Nonsingular, RowSolvable
<1>7. RowOf(i, basis, z) = 1
  BY <1>3, <1>5, <1>6, SolvesRows
<1> DEFINE f == [k \in Rows |-> M(i, basis[k]) * z[k]]
<1>8. \A k \in Rows : f[k] = 0
  BY <1>4
<1>9. RowOf(i, basis, z) = Sum(f, Rows)
  BY DEF RowOf
<1> HIDE DEF f
<1>10. QED
  BY <1>7, <1>8, <1>9, SumOfZeros, IndicesFinite

\* A working bound that is not the column's own is that of its singleton row, and
\* a column at it has the row at its bound.
LEMMA SingletonSide ==
  ASSUME TypeOK, WorkingBounds, NEW j \in Cols
  PROVE  /\ At(xval[j], lb[j]) /\ lb[j] # problem.col[j].lo =>
               \E i \in SingletonRows(j) :
                   \/ problem.A[i][j] = 1 /\ At(Activity(i), problem.row[i].lo)
                   \/ problem.A[i][j] = -1 /\ At(Activity(i), problem.row[i].hi)
         /\ At(xval[j], ub[j]) /\ ub[j] # problem.col[j].hi =>
               \E i \in SingletonRows(j) :
                   \/ problem.A[i][j] = 1 /\ At(Activity(i), problem.row[i].hi)
                   \/ problem.A[i][j] = -1 /\ At(Activity(i), problem.row[i].lo)
<1>1. problem \in Problems /\ j \in Vars /\ xval \in [Vars -> Int]
  BY IndicesFinite DEF TypeOK
<1>2. ASSUME NEW i \in SingletonRows(j)
      PROVE  /\ i \in Rows /\ problem.A[i][j] \in {-1, 1}
             /\ Activity(i) = problem.A[i][j] * xval[j]
             /\ problem.row[i].lo \in Int /\ problem.row[i].hi \in Int
             /\ problem.A[i][j] = 1 => Implied(i, j) = problem.row[i]
             /\ problem.A[i][j] = -1 =>
                   Implied(i, j).lo = -problem.row[i].hi /\ Implied(i, j).hi = -problem.row[i].lo
  <2>1. i \in Rows /\ problem.A[i][j] \in {-1, 1}
    BY <1>1, SingletonColumn
  <2>2. problem.row[i].lo \in Int /\ problem.row[i].hi \in Int
    BY <1>1, <2>1, ProblemType DEF BoundsOK
  <2>3. /\ problem.A[i][j] = 1 => Implied(i, j) = problem.row[i]
        /\ problem.A[i][j] = -1 =>
              Implied(i, j).lo = -problem.row[i].hi /\ Implied(i, j).hi = -problem.row[i].lo
    BY DEF Implied
  <2> DEFINE p == [q \in Cols |-> xval[q]]
  <2>4. p \in [Cols -> Int] /\ \A q \in Cols : xval[q] = p[q]
    BY <1>1, IndicesFinite
  <2>5. p[j] = xval[j]
    OBVIOUS
  <2> HIDE DEF p
  <2>6. Product(problem.A[i], p) = problem.A[i][j] * p[j]
    BY <1>1, <2>4, ImpliedBound
  <2>7. Product(problem.A[i], xval) = Product(problem.A[i], p)
    <3>1. Integers(problem.A[i], Cols) /\ Integers(p, Cols)
      BY <1>1, <2>1, <2>4, ProblemType DEF Integers
    <3>2. QED
      BY <2>4, <3>1, ProductSame
  <2>8. QED
    BY <2>1, <2>2, <2>3, <2>5, <2>6, <2>7 DEF Activity
<1>3. /\ lb[j] = WorkBound(j).lo /\ ub[j] = WorkBound(j).hi
      /\ WorkBound(j).lo = problem.col[j].lo \/ \E i \in SingletonRows(j) : WorkBound(j).lo = Implied(i, j).lo
      /\ WorkBound(j).hi = problem.col[j].hi \/ \E i \in SingletonRows(j) : WorkBound(j).hi = Implied(i, j).hi
      /\ xval[j] \in Int
  BY <1>1, BoundsType, ColumnWorkBound
<1>4. ASSUME At(xval[j], lb[j]), lb[j] # problem.col[j].lo
      PROVE  \E i \in SingletonRows(j) :
                   \/ problem.A[i][j] = 1 /\ At(Activity(i), problem.row[i].lo)
                   \/ problem.A[i][j] = -1 /\ At(Activity(i), problem.row[i].hi)
  <2>1. PICK i \in SingletonRows(j) : lb[j] = Implied(i, j).lo
    BY <1>3, <1>4
  <2>2. Finite(lb[j]) /\ xval[j] = lb[j]
    BY <1>4 DEF At
  <2>3. CASE problem.A[i][j] = 1
    <3>1. lb[j] = problem.row[i].lo
      BY <1>2, <2>1, <2>3
    <3>2. Activity(i) = problem.row[i].lo
      BY <1>2, <1>3, <2>2, <2>3, <3>1
    <3>3. QED
      BY <2>2, <2>3, <3>1, <3>2 DEF At
  <2>4. CASE problem.A[i][j] = -1
    <3>1. lb[j] = -problem.row[i].hi
      BY <1>2, <2>1, <2>4
    <3>2. Activity(i) = problem.row[i].hi
      BY <1>2, <1>3, <2>2, <2>4, <3>1
    <3>3. Finite(problem.row[i].hi)
      BY <1>2, <2>2, <3>1, SimplexAssumption DEF Finite, Size
    <3>4. QED
      BY <2>4, <3>2, <3>3 DEF At
  <2>5. QED
    BY <1>2, <2>3, <2>4
<1>5. ASSUME At(xval[j], ub[j]), ub[j] # problem.col[j].hi
      PROVE  \E i \in SingletonRows(j) :
                   \/ problem.A[i][j] = 1 /\ At(Activity(i), problem.row[i].hi)
                   \/ problem.A[i][j] = -1 /\ At(Activity(i), problem.row[i].lo)
  <2>1. PICK i \in SingletonRows(j) : ub[j] = Implied(i, j).hi
    BY <1>3, <1>5
  <2>2. Finite(ub[j]) /\ xval[j] = ub[j]
    BY <1>5 DEF At
  <2>3. CASE problem.A[i][j] = 1
    <3>1. ub[j] = problem.row[i].hi
      BY <1>2, <2>1, <2>3
    <3>2. Activity(i) = problem.row[i].hi
      BY <1>2, <1>3, <2>2, <2>3, <3>1
    <3>3. QED
      BY <2>2, <2>3, <3>1, <3>2 DEF At
  <2>4. CASE problem.A[i][j] = -1
    <3>1. ub[j] = -problem.row[i].lo
      BY <1>2, <2>1, <2>4
    <3>2. Activity(i) = problem.row[i].lo
      BY <1>2, <1>3, <2>2, <2>4, <3>1
    <3>3. Finite(problem.row[i].lo)
      BY <1>2, <2>2, <3>1, SimplexAssumption DEF Finite, Size
    <3>4. QED
      BY <2>4, <3>2, <3>3 DEF At
  <2>5. QED
    BY <1>2, <2>3, <2>4
<1>6. QED
  BY <1>4, <1>5

\* The row that carries a column's reduced cost, and what it leaves of it.
LEMMA RepairedRow ==
  ASSUME TypeOK, Repairable, NEW dual \in [Rows -> Int], NEW i \in Rows
  PROVE  /\ Repaired(dual) \in [Rows -> Int]
         /\ \A j \in Cols : Carries(i, j, dual) =>
               Repaired(dual)[i] = dual[i] - problem.A[i][j] * Rc(j, dual)
         /\ (\A j \in Cols : ~ Carries(i, j, dual)) => Repaired(dual)[i] = dual[i]
<1>1. problem \in Problems
  BY DEF TypeOK
<1>2. ASSUME NEW k \in Rows, NEW j \in Cols, Carries(k, j, dual)
      PROVE  /\ \A q \in Cols : Carries(k, q, dual) => q = j
             /\ \A r \in 1 .. k - 1 : ~ Carries(r, j, dual)
             /\ problem.A[k][j] \in Int /\ Rc(j, dual) \in Int
  <2>1. k \in SingletonRows(j)
    BY <1>2 DEF Carries
  <2>2. \A q \in Cols : Carries(k, q, dual) => q = j
    BY <1>1, <2>1, SingletonColumn DEF Carries
  <2>3. \A r \in 1 .. k - 1 : ~ Carries(r, j, dual)
    <3> SUFFICES ASSUME NEW r \in 1 .. k - 1, Carries(r, j, dual)
                 PROVE  FALSE
      OBVIOUS
    <3>1. r \in SingletonRows(j)
      BY DEF Carries
    <3>2. r = k
      BY <2>1, <3>1, OneSingleton
    <3>3. k \in Int
      BY DEF Rows
    <3>4. QED
      BY <3>2, <3>3
  <2>4. problem.A[k][j] \in Int
    BY <1>1, <2>1, SingletonColumn
  <2>5. Rc(j, dual) \in Int
    BY <1>1, ProblemType, AlongType, IndicesFinite DEF Rc
  <2>6. QED
    BY <2>2, <2>3, <2>4, <2>5
<1>3. ASSUME NEW k \in Rows
      PROVE  /\ Repaired(dual)[k] \in Int
             /\ \A j \in Cols : Carries(k, j, dual) =>
                   Repaired(dual)[k] = dual[k] - problem.A[k][j] * Rc(j, dual)
             /\ (\A j \in Cols : ~ Carries(k, j, dual)) => Repaired(dual)[k] = dual[k]
  <2>1. CASE \A j \in Cols : ~ Carries(k, j, dual)
    BY <2>1 DEF Repaired
  <2>2. ASSUME NEW j \in Cols, Carries(k, j, dual)
        PROVE  Repaired(dual)[k] = dual[k] - problem.A[k][j] * Rc(j, dual)
               /\ Repaired(dual)[k] \in Int
    <3>1. (CHOOSE q \in Cols : Carries(k, q, dual)) = j
      BY <1>2, <2>2
    <3>2. \A r \in 1 .. k - 1 : ~ Carries(r, j, dual)
      BY <1>2, <2>2
    <3>3. Repaired(dual)[k] = dual[k] - problem.A[k][j] * Rc(j, dual)
      BY <2>2, <3>1, <3>2 DEF Repaired
    <3>4. dual[k] \in Int /\ problem.A[k][j] \in Int /\ Rc(j, dual) \in Int
      BY <1>2, <2>2
    <3>5. dual[k] - problem.A[k][j] * Rc(j, dual) \in Int
      BY <3>4
    <3>6. QED
      BY <3>3, <3>5
  <2>3. QED
    BY <2>1, <2>2
<1>4. Repaired(dual) \in [Rows -> Int]
  <2>1. \E f : Repaired(dual) = [k \in Rows |-> f[k]]
    <3>1. Repaired(dual) = [k \in Rows |-> Repaired(dual)[k]]
      BY DEF Repaired
    <3>2. QED
      BY <3>1
  <2>2. QED
    BY <1>3, <2>1
<1>5. QED
  BY <1>3, <1>4

\* The repair takes the reduced cost of the columns it carries, and of no other.
LEMMA RepairedPrice ==
  ASSUME TypeOK, Repairable, NEW dual \in [Rows -> Int], NEW j \in Cols
  PROVE  /\ (\E i \in Rows : Carries(i, j, dual)) => Rc(j, Repaired(dual)) = 0
         /\ (\A i \in Rows : ~ Carries(i, j, dual)) => Rc(j, Repaired(dual)) = Rc(j, dual)
<1> DEFINE new == Repaired(dual)
           f == [i \in Rows |-> M(i, j) * dual[i]]
           g == [i \in Rows |-> M(i, j) * (new[i] - dual[i])]
           h == [i \in Rows |-> M(i, j) * new[i]]
<1>1. problem \in Problems /\ j \in Vars
  BY IndicesFinite DEF TypeOK
<1>2. new \in [Rows -> Int]
  <2>1. PICK i \in Rows : TRUE
    BY IndicesFinite DEF Rows
  <2>2. QED
    BY <2>1, RepairedRow
<1>3. \A i \in Rows : f[i] \in Int /\ g[i] \in Int /\ h[i] = f[i] + g[i]
  <2> HIDE DEF new
  <2> SUFFICES ASSUME NEW i \in Rows
               PROVE  /\ M(i, j) * dual[i] \in Int /\ M(i, j) * (new[i] - dual[i]) \in Int
                      /\ M(i, j) * new[i] = M(i, j) * dual[i] + M(i, j) * (new[i] - dual[i])
    OBVIOUS
  <2>1. M(i, j) \in {-1, 0, 1} /\ dual[i] \in Int /\ new[i] \in Int
    BY <1>1, <1>2, MatrixType
  <2>2. QED
    BY <2>1
<1>4. Along(dual, j) = Sum(f, Rows) /\ Along(new, j) = Sum(h, Rows)
  BY DEF Along
<1>5. problem.c[j] \in Int /\ Along(dual, j) \in Int /\ Along(new, j) \in Int
  BY <1>1, <1>2, ProblemType, AlongType
<1>6. ASSUME NEW i \in Rows, ~ Carries(i, j, dual)
      PROVE  g[i] = 0
  <2>1. CASE \A q \in Cols : ~ Carries(i, q, dual)
    <3>1. new[i] = dual[i]
      BY <2>1, RepairedRow
    <3>2. M(i, j) \in Int /\ dual[i] \in Int
      BY <1>1, MatrixType
    <3> HIDE DEF new
    <3>3. QED
      BY <3>1, <3>2
  <2>2. CASE \E q \in Cols : Carries(i, q, dual)
    <3>1. PICK q \in Cols : Carries(i, q, dual)
      BY <2>2
    <3>2. i \in SingletonRows(q) /\ q # j
      BY <1>6, <3>1 DEF Carries
    <3>3. M(i, j) = 0
      BY <1>1, <3>2, SingletonColumn, MatrixType
    <3>4. new[i] \in Int /\ dual[i] \in Int
      BY <1>2
    <3> HIDE DEF new
    <3>5. QED
      BY <3>3, <3>4
  <2>3. QED
    BY <2>1, <2>2
<1>7. ASSUME NEW i \in Rows, Carries(i, j, dual)
      PROVE  g[i] = -Rc(j, dual) /\ \A k \in Rows \ {i} : g[k] = 0
  <2>1. i \in SingletonRows(j)
    BY <1>7 DEF Carries
  <2>2. new[i] = dual[i] - problem.A[i][j] * Rc(j, dual)
    BY <1>7, RepairedRow
  <2>3. M(i, j) = problem.A[i][j] /\ problem.A[i][j] \in {-1, 1} /\ dual[i] \in Int
    BY <1>1, <2>1, SingletonColumn, MatrixType
  <2>4. Rc(j, dual) \in Int
    BY <1>5 DEF Rc
  <2>5. g[i] = -Rc(j, dual)
    <3>1. g[i] = M(i, j) * (new[i] - dual[i])
      OBVIOUS
    <3> HIDE DEF new, g
    <3>2. QED
      BY <2>2, <2>3, <2>4, <3>1
  <2>6. \A k \in Rows \ {i} : ~ Carries(k, j, dual)
    BY <2>1, OneSingleton DEF Carries
  <2> HIDE DEF g
  <2>7. QED
    BY <1>6, <2>5, <2>6
<1> HIDE DEF f, g, h, new
<1>8. Sum(h, Rows) = Sum(f, Rows) + Sum(g, Rows)
  BY <1>3, SumOfSum, IndicesFinite
<1>9. ASSUME NEW i \in Rows, Carries(i, j, dual)
      PROVE  Rc(j, new) = 0
  <2>1. Sum(g, Rows) = g[i]
    BY <1>3, <1>7, <1>9, SumSingle, IndicesFinite
  <2>2. g[i] = -Rc(j, dual)
    BY <1>7, <1>9
  <2>3. Rc(j, dual) = problem.c[j] + Along(dual, j) /\ Rc(j, new) = problem.c[j] + Along(new, j)
    BY DEF Rc
  <2>4. QED
    BY <1>4, <1>5, <1>8, <2>1, <2>2, <2>3
<1>10. ASSUME \A i \in Rows : ~ Carries(i, j, dual)
       PROVE  Rc(j, new) = Rc(j, dual)
  <2>1. Sum(g, Rows) = 0
    BY <1>6, <1>10, SumOfZeros, IndicesFinite
  <2>2. Rc(j, dual) = problem.c[j] + Along(dual, j) /\ Rc(j, new) = problem.c[j] + Along(new, j)
    BY DEF Rc
  <2>3. QED
    BY <1>4, <1>5, <1>8, <2>1, <2>2
<1>11. QED
  BY <1>9, <1>10 DEF new

\* The gate accepts what the loop found optimal.
LEMMA RepairCertifies ==
  ASSUME TypeOK, Span = Int, Nonsingular(basis), WorkingBounds, Seated, ~ drifted, ~ phase1,
         Eligible(Priced) = {}, Infeasibility = 0, Repairable
  PROVE  Certified(Repaired(Public(basis, BasicCost(FALSE))))
<1> DEFINE public == Public(basis, BasicCost(FALSE))
           new == Repaired(public)
<1>1. /\ public \in [Rows -> Int]
      /\ \A j \in Cols : Rc(j, public) = Priced[j]
      /\ \A i \in Rows : -public[i] = Priced[NCols + i]
  BY PublicPrices
<1> HIDE DEF public
<1>2. Balanced(xval) /\ problem \in Problems /\ Priced \in [Vars -> Int]
  BY PricedIsGradient DEF Seated, TypeOK
<1>3. PrimalResidual <= Forgiven
  BY <1>2, NoResidual
<1>4. \A j \in Cols : /\ j \in Vars /\ Rc(j, public) \in Int
                      /\ Rc(j, public) > 0 => At(xval[j], lb[j])
                      /\ Rc(j, public) < 0 => At(xval[j], ub[j])
  BY <1>1, <1>2, PricedSigns, IndicesFinite
<1>5. ASSUME NEW j \in Cols, \A i \in Rows : ~ Carries(i, j, public)
      PROVE  Signed(xval[j], problem.col[j], Rc(j, public))
  <2>1. ASSUME Rc(j, public) > 0
        PROVE  At(xval[j], problem.col[j].lo)
    <3>1. SUFFICES ASSUME ~ At(xval[j], problem.col[j].lo)
                   PROVE  FALSE
      OBVIOUS
    <3>2. At(xval[j], lb[j]) /\ lb[j] # problem.col[j].lo
      BY <1>4, <2>1, <3>1
    <3>3. PICK i \in SingletonRows(j) : At(Activity(i), problem.row[i].lo) \/ At(Activity(i), problem.row[i].hi)
      BY <3>2, SingletonSide
    <3>4. Carries(i, j, public)
      BY <2>1, <3>1, <3>3 DEF Carries
    <3>5. QED
      BY <1>5, <3>4 DEF SingletonRows
  <2>2. ASSUME Rc(j, public) < 0
        PROVE  At(xval[j], problem.col[j].hi)
    <3>1. SUFFICES ASSUME ~ At(xval[j], problem.col[j].hi)
                   PROVE  FALSE
      OBVIOUS
    <3>2. At(xval[j], ub[j]) /\ ub[j] # problem.col[j].hi
      BY <1>4, <2>2, <3>1
    <3>3. PICK i \in SingletonRows(j) : At(Activity(i), problem.row[i].lo) \/ At(Activity(i), problem.row[i].hi)
      BY <3>2, SingletonSide
    <3>4. Carries(i, j, public)
      BY <2>2, <3>1, <3>3 DEF Carries
    <3>5. QED
      BY <1>5, <3>4 DEF SingletonRows
  <2>3. QED
    BY <2>1, <2>2 DEF Signed
<1>6. \A j \in Cols : Signed(xval[j], problem.col[j], Rc(j, new))
  <2> SUFFICES ASSUME NEW j \in Cols
               PROVE  Signed(xval[j], problem.col[j], Rc(j, new))
    OBVIOUS
  <2>1. CASE \E i \in Rows : Carries(i, j, public)
    <3>1. Rc(j, new) = 0
      BY <1>1, <2>1, RepairedPrice
    <3> HIDE DEF new
    <3>2. QED
      BY <3>1 DEF Signed
  <2>2. CASE \A i \in Rows : ~ Carries(i, j, public)
    <3>1. Rc(j, new) = Rc(j, public)
      BY <1>1, <2>2, RepairedPrice
    <3> HIDE DEF new
    <3>2. QED
      BY <1>5, <2>2, <3>1
  <2>3. QED
    BY <2>1, <2>2
<1>7. ASSUME NEW i \in Rows
      PROVE  Signed(Activity(i), problem.row[i], -public[i])
  <2>1. NCols + i \in Vars \ Cols /\ (NCols + i) - NCols = i
    BY IndicesFinite, SimplexAssumption DEF Rows
  <2>2. WorkBound(NCols + i) = problem.row[i]
    BY <1>2, <2>1, RowWorkBound
  <2>3. lb[NCols + i] = problem.row[i].lo /\ ub[NCols + i] = problem.row[i].hi
    BY <1>2, <2>1, <2>2, BoundsType
  <2>4. Activity(i) = xval[NCols + i]
    BY <1>2, ActivityIsLogical
  <2>5. /\ Priced[NCols + i] > 0 => At(xval[NCols + i], lb[NCols + i])
        /\ Priced[NCols + i] < 0 => At(xval[NCols + i], ub[NCols + i])
    BY <2>1, PricedSigns
  <2>6. QED
    BY <1>1, <2>3, <2>4, <2>5 DEF Signed
<1>8. ASSUME NEW i \in Rows, NEW j \in Cols, Carries(i, j, public), Rc(j, public) # 0
      PROVE  /\ -public[i] = 0 /\ public[i] \in Int
             /\ Rc(j, public) > 0 => \/ problem.A[i][j] = 1 /\ At(Activity(i), problem.row[i].lo)
                                     \/ problem.A[i][j] = -1 /\ At(Activity(i), problem.row[i].hi)
             /\ Rc(j, public) < 0 => \/ problem.A[i][j] = 1 /\ At(Activity(i), problem.row[i].hi)
                                     \/ problem.A[i][j] = -1 /\ At(Activity(i), problem.row[i].lo)
  <2>1. i \in SingletonRows(j) /\ \A k \in SingletonRows(j) : k = i
    BY <1>8, OneSingleton DEF Carries
  <2>2. problem.col[j].lo # problem.col[j].hi
    BY <2>1 DEF Repairable
  <2>3. j \notin Basic
    BY <1>1, <1>8, PricedIsGradient
  <2>4. NCols + i \in Basic
    BY <2>1, <2>3, SingletonLogicalBasic
  <2>5. -public[i] = 0 /\ public[i] \in Int
    BY <1>1, <2>4, PricedIsGradient
  <2>6. ASSUME Rc(j, public) > 0
        PROVE  \/ problem.A[i][j] = 1 /\ At(Activity(i), problem.row[i].lo)
               \/ problem.A[i][j] = -1 /\ At(Activity(i), problem.row[i].hi)
    <3>1. At(xval[j], lb[j])
      BY <1>4, <2>6
    <3>2. ~ At(xval[j], problem.col[j].lo)
      <4>1. ~ (Rc(j, public) < 0)
        BY <1>4, <2>6
      <4>2. QED
        BY <1>8, <2>2, <2>6, <4>1 DEF Carries, At
    <3>3. lb[j] # problem.col[j].lo
      BY <3>1, <3>2
    <3>4. QED
      BY <2>1, <3>1, <3>3, SingletonSide
  <2>7. ASSUME Rc(j, public) < 0
        PROVE  \/ problem.A[i][j] = 1 /\ At(Activity(i), problem.row[i].hi)
               \/ problem.A[i][j] = -1 /\ At(Activity(i), problem.row[i].lo)
    <3>1. At(xval[j], ub[j])
      BY <1>4, <2>7
    <3>2. ~ At(xval[j], problem.col[j].hi)
      <4>1. ~ (Rc(j, public) > 0)
        BY <1>4, <2>7
      <4>2. QED
        BY <1>8, <2>2, <2>7, <4>1 DEF Carries, At
    <3>3. ub[j] # problem.col[j].hi
      BY <3>1, <3>2
    <3>4. QED
      BY <2>1, <3>1, <3>3, SingletonSide
  <2>8. QED
    BY <2>5, <2>6, <2>7
<1>9. \A i \in Rows : Signed(Activity(i), problem.row[i], -new[i])
  <2> SUFFICES ASSUME NEW i \in Rows
               PROVE  Signed(Activity(i), problem.row[i], -new[i])
    OBVIOUS
  <2>1. CASE \A j \in Cols : ~ Carries(i, j, public)
    <3>1. new[i] = public[i]
      BY <1>1, <2>1, RepairedRow
    <3> HIDE DEF new
    <3>2. QED
      BY <1>7, <3>1
  <2>2. CASE \E j \in Cols : Carries(i, j, public)
    <3>1. PICK j \in Cols : Carries(i, j, public)
      BY <2>2
    <3>2. new[i] = public[i] - problem.A[i][j] * Rc(j, public)
      BY <1>1, <3>1, RepairedRow
    <3>3. problem.A[i][j] \in {-1, 1} /\ Rc(j, public) \in Int /\ public[i] \in Int
      BY <1>1, <1>2, <1>4, <3>1, SingletonColumn DEF Carries
    <3> HIDE DEF new
    <3>4. CASE Rc(j, public) = 0
      <4>1. new[i] = public[i]
        BY <3>2, <3>3, <3>4
      <4>2. QED
        BY <1>7, <4>1
    <3>5. CASE Rc(j, public) > 0
      <4>1. /\ -public[i] = 0
            /\ \/ problem.A[i][j] = 1 /\ At(Activity(i), problem.row[i].lo)
               \/ problem.A[i][j] = -1 /\ At(Activity(i), problem.row[i].hi)
        BY <1>8, <3>1, <3>5
      <4>2. public[i] = 0
        BY <3>3, <4>1
      <4>3. CASE problem.A[i][j] = 1
        <5>1. -new[i] > 0 /\ ~ (-new[i] < 0)
          BY <3>2, <3>3, <3>5, <4>2, <4>3
        <5>2. QED
          BY <4>1, <4>3, <5>1 DEF Signed
      <4>4. CASE problem.A[i][j] = -1
        <5>1. -new[i] < 0 /\ ~ (-new[i] > 0)
          BY <3>2, <3>3, <3>5, <4>2, <4>4
        <5>2. QED
          BY <4>1, <4>4, <5>1 DEF Signed
      <4>5. QED
        BY <3>3, <4>3, <4>4
    <3>6. CASE Rc(j, public) < 0
      <4>1. /\ -public[i] = 0
            /\ \/ problem.A[i][j] = 1 /\ At(Activity(i), problem.row[i].hi)
               \/ problem.A[i][j] = -1 /\ At(Activity(i), problem.row[i].lo)
        BY <1>8, <3>1, <3>6
      <4>2. public[i] = 0
        BY <3>3, <4>1
      <4>3. CASE problem.A[i][j] = 1
        <5>1. -new[i] < 0 /\ ~ (-new[i] > 0)
          BY <3>2, <3>3, <3>6, <4>2, <4>3
        <5>2. QED
          BY <4>1, <4>3, <5>1 DEF Signed
      <4>4. CASE problem.A[i][j] = -1
        <5>1. -new[i] > 0 /\ ~ (-new[i] < 0)
          BY <3>2, <3>3, <3>6, <4>2, <4>4
        <5>2. QED
          BY <4>1, <4>4, <5>1 DEF Signed
      <4>5. QED
        BY <3>3, <4>3, <4>4
    <3>7. QED
      BY <3>3, <3>4, <3>5, <3>6
  <2>3. QED
    BY <2>1, <2>2
<1>10. QED
  BY <1>3, <1>6, <1>9 DEF Certified, public

\* The singleton presolve may end the solve at once.
LEMMA SingletonInfeasibleShape ==
  ASSUME Span = Int, SimplexInv, SingletonInfeasible
  PROVE  ShapeInv'
<1>1. /\ problem' = problem /\ UNCHANGED spx /\ y' = y /\ pc' = "done"
      /\ claim' = "INFEASIBLE" /\ result' = "INFEASIBLE"
  BY DEF SingletonInfeasible
<1>2. lb' = lb /\ ub' = ub /\ basis' = basis
  BY <1>1 DEF spx
<1>3. TypeOK'
  BY <1>1 DEF SimplexInv, ShapeInv, TypeOK, spx, Results
<1>4. WorkingBounds' /\ Nonsingular(basis)'
  BY <1>1, <1>2, WorkingBoundsKept, NonsingularKept DEF SimplexInv, ShapeInv
<1>5. QED
  BY <1>1, <1>3, <1>4 DEF ShapeInv, Running

\* The published multipliers are integers, repaired or not.
LEMMA PublicType ==
  ASSUME TypeOK, Span = Int, Nonsingular(basis)
  PROVE  /\ Public(basis, BasicCost(FALSE)) \in [Rows -> Int]
         /\ Repaired(Public(basis, BasicCost(FALSE))) \in [Rows -> Int]
<1> DEFINE dual == Btran(basis, BasicCost(FALSE))
           public == Public(basis, BasicCost(FALSE))
<1>1. problem \in Problems
  BY DEF TypeOK
<1>2. dual \in [Rows -> Int]
  BY <1>1, BasicCostType, BtranSolves DEF Nonsingular
<1>3. public = [i \in Rows |-> -dual[i]]
  BY DEF Public
<1> HIDE DEF dual, public
<1>4. public \in [Rows -> Int]
  BY <1>2, <1>3
<1>5. \A i \in Rows, j \in Cols : public[i] - problem.A[i][j] * Rc(j, public) \in Int
  <2> SUFFICES ASSUME NEW i \in Rows, NEW j \in Cols
               PROVE  public[i] - problem.A[i][j] * Rc(j, public) \in Int
    OBVIOUS
  <2>1. public[i] \in Int /\ problem.A[i][j] \in {-1, 0, 1}
    BY <1>1, <1>4, ProblemType
  <2>2. Rc(j, public) \in Int
    BY <1>1, <1>4, ProblemType, AlongType, IndicesFinite DEF Rc
  <2>3. QED
    BY <2>1, <2>2
<1>6. ASSUME NEW i \in Rows
      PROVE  Repaired(public)[i] \in Int
  <2>1. CASE \E j \in Cols : Carries(i, j, public) /\ \A r \in 1 .. i - 1 : ~ Carries(r, j, public)
    <3> DEFINE q == CHOOSE j \in Cols : Carries(i, j, public)
    <3>1. q \in Cols
      BY <2>1
    <3>2. Repaired(public)[i] = public[i] - problem.A[i][q] * Rc(q, public)
      BY <2>1 DEF Repaired
    <3> HIDE DEF q
    <3>3. QED
      BY <1>5, <3>1, <3>2
  <2>2. CASE ~ \E j \in Cols : Carries(i, j, public) /\ \A r \in 1 .. i - 1 : ~ Carries(r, j, public)
    BY <1>4, <2>2 DEF Repaired
  <2>3. QED
    BY <2>1, <2>2
<1>7. Repaired(public) = [i \in Rows |-> Repaired(public)[i]]
  BY DEF Repaired
<1>8. QED
  BY <1>4, <1>6, <1>7 DEF public

\* Publishing leaves the simplex alone.
LEMMA PublishShape ==
  ASSUME Span = Int, SimplexInv, Publish
  PROVE  ShapeInv'
<1>1. /\ problem' = problem /\ UNCHANGED spx /\ pc' = "done" /\ claim' = claim
      /\ result' = GatedResult(y') /\ pc = "publish"
  BY DEF Publish
<1>2. lb' = lb /\ ub' = ub /\ basis' = basis
  BY <1>1 DEF spx
<1>3. y' \in {Public(basis, BasicCost(FALSE)), Repaired(Public(basis, BasicCost(FALSE)))}
  BY DEF Publish, Public
<1>4. TypeOK /\ Nonsingular(basis) /\ claim # "NONE"
  BY <1>1 DEF SimplexInv, ShapeInv, ClaimInv
<1>5. y' \in [Rows -> Int]
  BY <1>3, <1>4, PublicType
<1>6. result' \in Results
  BY <1>1, <1>4 DEF GatedResult, TypeOK, Results
<1>7. TypeOK'
  BY <1>1, <1>4, <1>5, <1>6 DEF TypeOK, spx
<1>8. WorkingBounds' /\ Nonsingular(basis)'
  BY <1>1, <1>2, WorkingBoundsKept, NonsingularKept DEF SimplexInv, ShapeInv
<1>9. QED
  BY <1>1, <1>7, <1>8 DEF ShapeInv, Running

\* So does a stuttering step.
LEMMA StutterShape ==
  ASSUME SimplexInv, UNCHANGED vars
  PROVE  ShapeInv'
<1>1. problem' = problem /\ UNCHANGED spx /\ lb' = lb /\ ub' = ub /\ basis' = basis /\ drifted' = drifted
      /\ pc' = pc /\ y' = y /\ claim' = claim /\ result' = result
  BY DEF vars, spx
<1>2. TypeOK'
  BY <1>1 DEF SimplexInv, ShapeInv, TypeOK, spx
<1>3. WorkingBounds' /\ Nonsingular(basis)'
  BY <1>1, WorkingBoundsKept, NonsingularKept DEF SimplexInv, ShapeInv
<1>4. Running' => Seated'
  BY <1>1, SeatedKept DEF SimplexInv, ShapeInv, Running
<1>5. QED
  BY <1>1, <1>2, <1>3, <1>4 DEF SimplexInv, ShapeInv

\* Every step keeps the shape.
LEMMA ShapeStep ==
  ASSUME Span = Int, SimplexInv, [Solving]_vars
  PROVE  ShapeInv'
<1>1. CASE UNCHANGED vars
  BY <1>1, StutterShape
<1>2. CASE SingletonInfeasible \/ Start \/ Publish
  BY <1>2, SingletonInfeasibleShape, StartShape, PublishShape
<1>3. CASE \/ AtLimit \/ OutOfTime \/ RefactorizationFails \/ DeclareInfeasible
           \/ DeclareOptimal \/ DeclareUnbounded
  BY <1>3, ConcludesShape
<1>4. CASE Refactorize \/ EnterPhase2 \/ ForgiveResidual
  BY <1>4, RecomputeShape
<1>5. CASE Drift \/ BoundFlip \/ Pivot
  BY <1>5, DriftShape, BoundFlipShape, PivotShape
<1>6. QED
  BY <1>1, <1>2, <1>3, <1>4, <1>5 DEF Solving

(***************************************************************************)
(* What is claimed and published.                                          *)
(***************************************************************************)
\* That no point exists is a fact about the model.
LEMMA NoPointKept ==
  ASSUME NoPoint, problem' = problem
  PROVE  NoPoint'
BY DEF NoPoint, Satisfies

\* So is that no multipliers exist.
LEMMA NoMultipliersKept ==
  ASSUME NoMultipliers, problem' = problem
  PROVE  NoMultipliers'
<1>1. \A j, d : (Rc(j, d))' = Rc(j, d)
  BY DEF Rc, Along, M
<1>2. QED
  BY <1>1 DEF NoMultipliers, Rc, Along, M

\* The actions between the start and the end leave claim and result.
LEMMA LoopClaim ==
  ASSUME Span = Int, SimplexInv,
         Start \/ Refactorize \/ EnterPhase2 \/ ForgiveResidual \/ Drift \/ BoundFlip \/ Pivot
  PROVE  ClaimInv'
<1>1. pc \in {"begin", "iterate"} /\ pc' = "iterate" /\ claim' = claim /\ result' = result
  BY DEF Start, Refactorize, EnterPhase2, ForgiveResidual, Drift, BoundFlip, Pivot, BeginPhase2,
     Due, Price, Turn
<1>2. QED
  BY <1>1 DEF SimplexInv, ClaimInv, OptimumAccepted

\* What the loop claims when it ends is proved by the basis it ends with.
LEMMA ConcludesClaim ==
  ASSUME Span = Int, SimplexInv,
         \/ AtLimit \/ OutOfTime \/ RefactorizationFails \/ DeclareInfeasible
         \/ DeclareOptimal \/ DeclareUnbounded
  PROVE  ClaimInv'
<1>1. /\ pc = "iterate" /\ pc' = "publish" /\ problem' = problem /\ UNCHANGED spx
      /\ claim' \in Results /\ claim' # "NONE" /\ result' = result
  BY DEF AtLimit, OutOfTime, RefactorizationFails, DeclareInfeasible, DeclareOptimal,
     DeclareUnbounded, Price, Turn, Due, Results, Conclude
<1>2. /\ TypeOK /\ WorkingBounds /\ Nonsingular(basis) /\ Seated /\ claim = "NONE" /\ result = "NOT_RUN"
  BY <1>1 DEF SimplexInv, ShapeInv, ClaimInv, Running
<1>3. drifted' = drifted /\ phase1' = phase1
  BY <1>1 DEF spx
<1>4. ASSUME claim' = "INFEASIBLE", ~ drifted
      PROVE  NoPoint'
  <2>1. DeclareInfeasible
    BY <1>4 DEF AtLimit, OutOfTime, RefactorizationFails, DeclareOptimal, DeclareUnbounded, Conclude
  <2>2. phase1 /\ Eligible(Priced) = {} /\ Infeasibility > 0
    BY <1>2, <2>1, InfeasibilityType, SimplexAssumption DEF DeclareInfeasible
  <2>3. NoPoint
    BY <1>2, <1>4, <2>2, InfeasibleBasis DEF Seated
  <2>4. QED
    BY <1>1, <2>3, NoPointKept
<1>5. ASSUME claim' = "UNBOUNDED"
      PROVE  NoMultipliers'
  <2>1. DeclareUnbounded /\ ~ phase1
    BY <1>5 DEF AtLimit, OutOfTime, RefactorizationFails, DeclareOptimal, DeclareUnbounded, Conclude,
       DeclareInfeasible
  <2>2. PICK mv \in Moves : Blocking(mv.delta) = {} /\ ~ Finite(Width(mv.enter))
    BY <2>1 DEF DeclareUnbounded
  <2>3. NoMultipliers
    BY <1>2, <2>1, <2>2, UnboundedRay DEF Seated
  <2>4. QED
    BY <1>1, <2>3, NoMultipliersKept
<1>6. ASSUME claim' = "OPTIMAL"
      PROVE  ~ phase1' /\ (Eligible(Priced) = {})'
  <2>1. DeclareOptimal
    BY <1>6 DEF AtLimit, OutOfTime, RefactorizationFails, DeclareInfeasible, DeclareUnbounded, Conclude
  <2>2. ~ phase1 /\ Eligible(Priced) = {}
    BY <2>1 DEF DeclareOptimal
  <2>3. (Eligible(Priced))' = Eligible(Priced)
    BY <1>1 DEF Eligible, Priced, Btran, BasicCost, Along, M, Cost, Basic, Below, Above, spx
  <2>4. QED
    BY <1>3, <2>2, <2>3
<1>7. OptimumAccepted'
  BY <1>1 DEF OptimumAccepted
<1>8. QED
  BY <1>1, <1>2, <1>3, <1>4, <1>5, <1>6, <1>7 DEF ClaimInv

\* Crossed working bounds leave no point.
LEMMA SingletonInfeasibleClaim ==
  ASSUME Span = Int, SimplexInv, SingletonInfeasible
  PROVE  ClaimInv'
<1>1. /\ problem' = problem /\ pc' = "done" /\ claim' = "INFEASIBLE" /\ result' = "INFEASIBLE"
  BY DEF SingletonInfeasible
<1>2. PICK j \in Cols : lb[j] > ub[j]
  BY DEF SingletonInfeasible
<1>3. NoPoint
  BY <1>2, CrossedBounds DEF SimplexInv, ShapeInv, TypeOK
<1>4. NoPoint'
  BY <1>1, <1>3, NoPointKept
<1>5. QED
  BY <1>1, <1>4 DEF ClaimInv, OptimumAccepted

\* The gate passes what sk_verify() certifies, and every undisturbed optimum.
LEMMA PublishClaim ==
  ASSUME Span = Int, SimplexInv, Publish
  PROVE  ClaimInv'
<1>1. /\ problem' = problem /\ UNCHANGED spx /\ pc' = "done" /\ claim' = claim
      /\ result' = GatedResult(y') /\ pc = "publish"
      /\ drifted' = drifted
  BY DEF Publish, spx
<1>2. /\ TypeOK /\ WorkingBounds /\ Nonsingular(basis) /\ Seated /\ claim # "NONE"
  BY <1>1 DEF SimplexInv, ShapeInv, ClaimInv, Running
<1>3. result' # "NOT_RUN"
  BY <1>1, <1>2 DEF GatedResult, TypeOK, Results
<1>4. /\ claim' = "INFEASIBLE" /\ ~ drifted' => NoPoint'
      /\ claim' = "UNBOUNDED" => NoMultipliers'
  BY <1>1, NoPointKept, NoMultipliersKept DEF SimplexInv, ClaimInv
<1>5. Certified(y)' <=> Certified(y')
  BY <1>1 DEF Certified, PrimalResidual, Activity, Rc, Along, M, spx
<1>6. result' = "OPTIMAL" => Certified(y)'
  BY <1>1, <1>5 DEF GatedResult
<1>7. result' \in {"INFEASIBLE", "UNBOUNDED"} => claim' = result'
  BY <1>1 DEF GatedResult
<1>8. OptimumAccepted'
  <2>1. SUFFICES ASSUME claim = "OPTIMAL", ~ drifted, Infeasibility = 0, Repairable
                 PROVE  result' = "OPTIMAL"
    <3>1. Infeasibility' = Infeasibility
      BY <1>1 DEF Infeasibility, Violation, Below, Above, spx
    <3>2. Repairable <=> Repairable'
      BY <1>1 DEF Repairable, SingletonRows
    <3>3. QED
      BY <1>1, <3>1, <3>2 DEF OptimumAccepted, Repairable
  <2>2. y' = Repaired(Public(basis, BasicCost(FALSE)))
    BY <2>1 DEF Publish, Public
  <2>3. ~ phase1 /\ Eligible(Priced) = {}
    BY <1>1, <2>1 DEF SimplexInv, ClaimInv
  <2>4. Certified(y')
    BY <1>2, <2>1, <2>2, <2>3, RepairCertifies
  <2>5. QED
    BY <1>1, <2>1, <2>4 DEF GatedResult
<1>9. QED
  BY <1>1, <1>2, <1>3, <1>4, <1>6, <1>7, <1>8 DEF ClaimInv

\* A stuttering step claims nothing.
LEMMA StutterClaim ==
  ASSUME SimplexInv, UNCHANGED vars
  PROVE  ClaimInv'
<1>1. problem' = problem /\ UNCHANGED spx /\ lb' = lb /\ ub' = ub /\ basis' = basis /\ drifted' = drifted
      /\ pc' = pc /\ y' = y /\ claim' = claim /\ result' = result /\ phase1' = phase1
  BY DEF vars, spx
<1>2. (Eligible(Priced))' = Eligible(Priced)
  BY <1>1 DEF Eligible, Priced, Btran, BasicCost, Along, M, Cost, Basic, Below, Above, spx
<1>3. Certified(y)' <=> Certified(y)
  BY <1>1 DEF Certified, PrimalResidual, Activity, Rc, Along, M, spx
<1>4. OptimumAccepted'
  <2>1. Infeasibility' = Infeasibility
    BY <1>1 DEF Infeasibility, Violation, Below, Above, spx
  <2>2. QED
    BY <1>1, <2>1 DEF SimplexInv, ClaimInv, OptimumAccepted, SingletonRows
<1>5. QED
  BY <1>1, <1>2, <1>3, <1>4, NoPointKept, NoMultipliersKept DEF SimplexInv, ClaimInv

\* Every step of the simplex keeps its invariant.
LEMMA SimplexStep ==
  ASSUME Span = Int, SimplexInv, [Solving]_vars
  PROVE  SimplexInv'
<1>1. CASE UNCHANGED vars
  BY <1>1, ShapeStep, StutterClaim DEF SimplexInv
<1>2. CASE SingletonInfeasible \/ Publish
  BY <1>2, ShapeStep, SingletonInfeasibleClaim, PublishClaim DEF SimplexInv
<1>3. CASE \/ AtLimit \/ OutOfTime \/ RefactorizationFails \/ DeclareInfeasible
           \/ DeclareOptimal \/ DeclareUnbounded
  BY <1>3, ShapeStep, ConcludesClaim DEF SimplexInv
<1>4. CASE Start \/ Refactorize \/ EnterPhase2 \/ ForgiveResidual \/ Drift \/ BoundFlip \/ Pivot
  BY <1>4, ShapeStep, LoopClaim DEF SimplexInv
<1>5. QED
  BY <1>1, <1>2, <1>3, <1>4 DEF Solving

\* The invariant holds at the start.
LEMMA SimplexInit ==
  ASSUME Init
  PROVE  SimplexInv
<1>1. /\ problem \in Problems /\ WorkingBounds /\ basis = Logicals /\ ~ drifted /\ pc = "begin"
      /\ claim = "NONE" /\ result = "NOT_RUN"
  BY DEF Init, WorkingBounds, Logicals
<1>2. Nonsingular(basis)
  BY <1>1, LogicalsNonsingular
<1>3. lb \in [Vars -> Int] /\ ub \in [Vars -> Int]
  <2>1. \A v \in Vars : lb[v] \in Int /\ ub[v] \in Int
    BY <1>1, BoundsType DEF LowerOK, UpperOK
  <2>2. QED
    BY <1>1, <2>1 DEF WorkingBounds
<1>4. problem.limit \in Nat
  BY <1>1, ProblemType
<1>5. TypeOK
  <2>1. /\ 0 \in 0 .. 2 /\ 0 \in 0 .. StallBland + 1 /\ Infinite \in Nat
        /\ 0 \in 0 .. RefactorInterval /\ 0 \in 0 .. problem.limit
    BY <1>4, SimplexAssumption
  <2>2. /\ xval \in [Vars -> Int] /\ stat \in [Vars -> {"BASIC", "LOWER", "UPPER", "FREE"}]
        /\ y \in [Rows -> Int]
    BY DEF Init
  <2>3. basis \in [Rows -> Vars]
    BY <1>2 DEF Nonsingular
  <2>4. /\ phase1 = TRUE /\ pricing = 0 /\ stall = 0 /\ last_infeas = Infinite
        /\ iterations = 0 /\ age = 0 /\ drifted = FALSE
    BY DEF Init
  <2>5. QED
    BY <1>1, <1>3, <2>1, <2>2, <2>3, <2>4 DEF TypeOK
<1>6. QED
  BY <1>1, <1>2, <1>5 DEF SimplexInv, ShapeInv, ClaimInv, Running, OptimumAccepted

(***************************************************************************)
(* Steps improve.                                                          *)
(***************************************************************************)
\* The infeasibility as a sum over the variables, in a form that can be primed.
LEMMA InfeasibilitySpread ==
  TypeOK /\ Nonsingular(basis) => Infeasibility = Sum(Violations, Vars)
BY InfeasibilityOfVars

\* A basic variable that moves no farther than its room.
LEMMA ViolationMoved ==
  ASSUME TypeOK, WorkingBounds, Ordered, NEW k \in Rows, NEW d \in {-1, 0, 1}, NEW t \in Nat,
         d # 0 /\ Finite(Reach(k, d)) => t <= d * (Reach(k, d) - xval[basis[k]]) \/ t = 0,
         phase1 \/ (~ Below(basis[k], xval[basis[k]]) /\ ~ Above(basis[k], xval[basis[k]]))
  PROVE  LET v == basis[k]
             g == IF phase1 THEN Gradient(v) ELSE 0
         IN Violation(v, xval[v] + t * d) <= Violation(v, xval[v]) + t * (g * d)
<1> DEFINE v == basis[k]
           x == xval[v]
           g == IF phase1 THEN Gradient(v) ELSE 0
<1>1. /\ v \in Vars /\ v \in Basic /\ lb[v] \in Int /\ ub[v] \in Int /\ x \in Int /\ lb[v] <= ub[v]
  BY BasicMembers DEF TypeOK, Ordered
<1>2. ~ Finite(Infinite) /\ ~ Finite(-Infinite)
  BY SimplexAssumption DEF Finite, Size
<1>3. Violation(v, x) \in Nat
  BY <1>1, ViolationType
<1>4. g = IF phase1 THEN IF Below(v, x) THEN -1 ELSE IF Above(v, x) THEN 1 ELSE 0 ELSE 0
  BY <1>1 DEF Gradient
<1>5. /\ d = 1 => (Finite(Effective(k).hi) => t <= Effective(k).hi - x \/ t = 0)
      /\ d = -1 => (Finite(Effective(k).lo) => t <= x - Effective(k).lo \/ t = 0)
  <2>1. Effective(k).hi \in Int /\ Effective(k).lo \in Int
    BY <1>1, SimplexAssumption DEF Effective
  <2>2. ASSUME d = 1, Finite(Effective(k).hi)
        PROVE  t <= Effective(k).hi - x \/ t = 0
    <3>1. Reach(k, d) = Effective(k).hi
      BY <2>2 DEF Reach
    <3>2. t <= d * (Effective(k).hi - x) \/ t = 0
      BY <2>2, <3>1
    <3> HIDE DEF x
    <3>3. QED
      BY <1>1, <2>1, <2>2, <3>2
  <2>3. ASSUME d = -1, Finite(Effective(k).lo)
        PROVE  t <= x - Effective(k).lo \/ t = 0
    <3>1. Reach(k, d) = Effective(k).lo
      BY <2>3 DEF Reach
    <3>2. t <= d * (Effective(k).lo - x) \/ t = 0
      BY <2>3, <3>1
    <3> HIDE DEF x
    <3>3. QED
      BY <1>1, <2>1, <2>3, <3>2
  <2>4. QED
    BY <2>2, <2>3
<1>6. phase1 \/ (~ Below(v, x) /\ ~ Above(v, x))
  OBVIOUS
<1>7. Effective(k) = IF phase1 /\ Below(v, x) THEN [lo |-> -Infinite, hi |-> lb[v]]
                     ELSE IF phase1 /\ Above(v, x) THEN [lo |-> ub[v], hi |-> Infinite]
                     ELSE [lo |-> lb[v], hi |-> ub[v]]
  BY DEF Effective
<1> HIDE DEF v, x, g
<1>8. Violation(v, x + t * d) <= Violation(v, x) + t * (g * d)
  <2>1. CASE d = 0
    <3>1. x + t * d = x /\ t * (g * d) = 0
      BY <1>1, <1>4, <2>1
    <3>2. QED
      BY <1>3, <3>1
  <2>2. CASE Below(v, x)
    <3>1. g = -1 /\ Effective(k).hi = lb[v] /\ Finite(lb[v]) /\ x < lb[v] /\ Violation(v, x) = lb[v] - x
      BY <1>4, <1>6, <1>7, <2>2 DEF Below, Violation
    <3>2. CASE d = 1
      <4>1. x + t * d = x + t /\ t * (g * d) = -t /\ x + t <= lb[v]
        BY <1>1, <1>5, <3>1, <3>2
      <4>2. Violation(v, x + t) = lb[v] - (x + t)
        BY <1>1, <3>1, <4>1 DEF Violation, Below, Above
      <4>3. QED
        BY <1>1, <3>1, <4>1, <4>2
    <3>3. CASE d = -1
      <4>1. x + t * d = x - t /\ t * (g * d) = t
        BY <1>1, <3>1, <3>3
      <4>2. Violation(v, x - t) = lb[v] - (x - t)
        BY <1>1, <3>1 DEF Violation, Below, Above
      <4>3. QED
        BY <1>1, <3>1, <4>1, <4>2
    <3>4. QED
      BY <2>1, <3>2, <3>3
  <2>3. CASE ~ Below(v, x) /\ Above(v, x)
    <3>1. g = 1 /\ Effective(k).lo = ub[v] /\ Finite(ub[v]) /\ x > ub[v] /\ Violation(v, x) = x - ub[v]
      BY <1>4, <1>6, <1>7, <2>3 DEF Above, Violation
    <3>2. CASE d = 1
      <4>1. x + t * d = x + t /\ t * (g * d) = t
        BY <1>1, <3>1, <3>2
      <4>2. Violation(v, x + t) = (x + t) - ub[v]
        BY <1>1, <3>1 DEF Violation, Below, Above
      <4>3. QED
        BY <1>1, <3>1, <4>1, <4>2
    <3>3. CASE d = -1
      <4>1. x + t * d = x - t /\ t * (g * d) = -t /\ x - t >= ub[v]
        BY <1>1, <1>5, <3>1, <3>3
      <4>2. Violation(v, x - t) = (x - t) - ub[v]
        BY <1>1, <3>1, <4>1 DEF Violation, Below, Above
      <4>3. QED
        BY <1>1, <3>1, <4>1, <4>2
    <3>4. QED
      BY <2>1, <3>2, <3>3
  <2>4. CASE ~ Below(v, x) /\ ~ Above(v, x)
    <3>1. g = 0 /\ Effective(k).lo = lb[v] /\ Effective(k).hi = ub[v] /\ Violation(v, x) = 0
          /\ (Finite(lb[v]) => x >= lb[v]) /\ (Finite(ub[v]) => x <= ub[v])
      BY <1>1, <1>4, <1>7, <2>4 DEF Violation, Below, Above
    <3>2. CASE d = 1
      <4>1. x + t * d = x + t /\ t * (g * d) = 0 /\ (Finite(ub[v]) => x + t <= ub[v])
        BY <1>1, <1>5, <3>1, <3>2
      <4>2. Violation(v, x + t) = 0
        BY <1>1, <3>1, <4>1 DEF Violation, Below, Above
      <4>3. QED
        BY <1>1, <3>1, <4>1, <4>2
    <3>3. CASE d = -1
      <4>1. x + t * d = x - t /\ t * (g * d) = 0 /\ (Finite(lb[v]) => x - t >= lb[v])
        BY <1>1, <1>5, <3>1, <3>3
      <4>2. Violation(v, x - t) = 0
        BY <1>1, <3>1, <4>1 DEF Violation, Below, Above
      <4>3. QED
        BY <1>1, <3>1, <4>1, <4>2
    <3>4. QED
      BY <2>1, <3>2, <3>3
  <2>5. QED
    BY <2>2, <2>3, <2>4
<1>9. QED
  BY <1>8 DEF v, x, g

\* What the basic variables violate after a move, to first order.
LEMMA MoveViolations ==
  ASSUME TypeOK, Span = Int, Nonsingular(basis), WorkingBounds, Seated,
         phase1 \/ Infeasibility = 0, NEW mv \in Moves
  PROVE  LET w == Moved(mv, Longest(mv))
             after == [v \in Vars |-> IF v \in Basic THEN Violation(v, w[v]) ELSE 0]
         IN /\ \A v \in Vars : after[v] \in Nat
            /\ Sum(after, Vars) <= Infeasibility
<1> DEFINE t == Longest(mv)
           w == Moved(mv, t)
           ray == Ray(basis, mv.enter, mv.dir)
           after == [v \in Vars |-> IF v \in Basic THEN Violation(v, w[v]) ELSE 0]
           g == [v \in Vars |-> Gradient(v) * ray[v]]
           s == [v \in Vars |-> (IF phase1 THEN t ELSE 0) * g[v]]
           f == Violations
           h == [v \in Vars |-> f[v] + s[v]]
<1>1. /\ t \in Nat /\ t \in Int
      /\ \A k \in Blocking(mv.delta) : t <= Room(k, mv.delta)
  <2>1. Ordered
    BY DEF Seated
  <2>2. /\ Longest(mv) \in Nat
        /\ \A k \in Blocking(mv.delta) : Longest(mv) <= Room(k, mv.delta)
    BY <2>1, MoveType
  <2>3. QED
    BY <2>2
<1>2. /\ w \in [Vars -> Int]
      /\ \A k \in Rows : w[basis[k]] = xval[basis[k]] + t * mv.delta[k]
  BY <1>1, MoveType DEF Seated
<1>3. /\ \A k \in Rows : mv.delta[k] = ray[basis[k]] /\ ray[basis[k]] \in {-1, 0, 1}
      /\ \A v \in Vars : ray[v] \in {-1, 0, 1}
  BY MoveIsRay
<1>4. Sum(g, Vars) < 0
  BY MoveGain
<1>5. Infeasibility = Sum(f, Vars) /\ \A v \in Vars : f[v] \in Nat
  BY InfeasibilityOfVars
<1>6. \A v \in Vars : f[v] = IF v \in Basic THEN Violation(v, xval[v]) ELSE 0
  BY DEF Violations
<1> HIDE DEF t, w, ray, f
<1>7. \A v \in Vars : after[v] \in Nat
  BY <1>2, ViolationType
<1>8. \A v \in Vars : /\ g[v] = Gradient(v) * ray[v] /\ g[v] \in Int /\ s[v] \in Int
                      /\ s[v] = (IF phase1 THEN t ELSE 0) * g[v]
                      /\ h[v] = f[v] + s[v] /\ Gradient(v) \in Int /\ ray[v] \in Int
  <2> SUFFICES ASSUME NEW v \in Vars
               PROVE  /\ g[v] = Gradient(v) * ray[v] /\ g[v] \in Int /\ s[v] \in Int
                      /\ s[v] = (IF phase1 THEN t ELSE 0) * g[v]
                      /\ h[v] = f[v] + s[v] /\ Gradient(v) \in Int /\ ray[v] \in Int
    OBVIOUS
  <2>1. /\ g[v] = Gradient(v) * ray[v] /\ s[v] = (IF phase1 THEN t ELSE 0) * g[v]
        /\ h[v] = f[v] + s[v]
    OBVIOUS
  <2>2. Gradient(v) \in Int /\ ray[v] \in Int
    BY <1>3, GradientType
  <2> HIDE DEF g, s, h
  <2>3. g[v] \in Int
    BY <2>1, <2>2
  <2>4. (IF phase1 THEN t ELSE 0) \in Int
    BY <1>1
  <2>5. s[v] \in Int
    BY <2>1, <2>3, <2>4
  <2>6. QED
    BY <2>1, <2>2, <2>3, <2>5
<1>9. \A v \in Vars \ Basic : g[v] = 0 \/ ~ phase1
  <2> SUFFICES ASSUME NEW v \in Vars \ Basic, phase1
               PROVE  g[v] = 0
    OBVIOUS
  <2>1. Gradient(v) = 0
    BY DEF Gradient
  <2> HIDE DEF g
  <2>2. QED
    BY <1>8, <2>1
<1>10. ASSUME NEW k \in Rows
       PROVE  after[basis[k]] <= h[basis[k]]
  <2> DEFINE v == basis[k]
             d == mv.delta[k]
             gr == IF phase1 THEN Gradient(v) ELSE 0
  <2>1. v \in Vars /\ v \in Basic
    BY BasicMembers
  <2>2. d \in {-1, 0, 1} /\ ray[v] = d
    BY <1>3
  <2>3. ASSUME d # 0, Finite(Reach(k, d))
        PROVE  t <= d * (Reach(k, d) - xval[v]) \/ t = 0
    <3>1. k \in Blocking(mv.delta)
      BY <2>3 DEF Blocking
    <3>2. t <= Room(k, mv.delta)
      BY <1>1, <3>1
    <3> DEFINE n == d * (Reach(k, d) - xval[v])
    <3>3. Room(k, mv.delta) = Max({0, n})
      BY DEF Room
    <3>4. n \in Int
      <4>1. Reach(k, d) \in Int
        BY <2>1, SimplexAssumption DEF Reach, Effective, TypeOK
      <4>2. xval[v] \in Int
        BY <2>1 DEF TypeOK
      <4> HIDE DEF v, d
      <4>3. QED
        BY <2>2, <4>1, <4>2
    <3> HIDE DEF n, d, v
    <3>5. Max({0, n}) \in {0, n}
      <4>1. 0 \in Int
        OBVIOUS
      <4>2. QED
        BY <3>4, <4>1, PairExtremes
    <3>6. t <= n \/ t <= 0
      BY <3>2, <3>3, <3>5
    <3>7. QED
      BY <1>1, <3>6 DEF n
  <2>4. phase1 \/ (~ Below(v, xval[v]) /\ ~ Above(v, xval[v]))
    BY NoInfeasibility
  <2>5. Violation(v, xval[v] + t * d) <= Violation(v, xval[v]) + t * (gr * d)
    <3>1. d # 0 /\ Finite(Reach(k, d)) => t <= d * (Reach(k, d) - xval[v]) \/ t = 0
      BY <2>3
    <3> HIDE DEF d
    <3>2. QED
      BY <1>1, <2>2, <2>4, <3>1, ViolationMoved DEF Seated
  <2>6. after[v] = Violation(v, xval[v] + t * d)
    BY <1>2, <2>1
  <2>7. h[v] = Violation(v, xval[v]) + s[v]
    BY <1>6, <2>1
  <2>8. s[v] = t * (gr * d)
    <3>1. g[v] = Gradient(v) * d /\ s[v] = (IF phase1 THEN t ELSE 0) * g[v] /\ g[v] \in Int
          /\ Gradient(v) \in Int
      BY <1>8, <2>1, <2>2
    <3> HIDE DEF g, s, v, d
    <3>2. CASE phase1
      BY <3>1, <3>2
    <3>3. CASE ~ phase1
      <4>1. s[v] = 0 /\ gr = 0
        BY <3>1, <3>3
      <4>2. t * (0 * d) = 0
        BY <1>1, <2>2
      <4> HIDE DEF gr
      <4>3. QED
        BY <4>1, <4>2
    <3>4. QED
      BY <3>2, <3>3
  <2> HIDE DEF after, h, s, gr, d
  <2>9. QED
    BY <2>5, <2>6, <2>7, <2>8
<1>11. \A v \in Vars : after[v] <= h[v]
  <2> SUFFICES ASSUME NEW v \in Vars
               PROVE  after[v] <= h[v]
    OBVIOUS
  <2>1. CASE v \in Basic
    <3>1. PICK k \in Rows : v = basis[k]
      BY <2>1 DEF Basic
    <3>2. QED
      BY <1>10, <3>1
  <2>2. CASE v \notin Basic
    <3>1. after[v] = 0 /\ f[v] = 0
      BY <1>6, <2>2
    <3>2. s[v] = 0
      <4>1. s[v] = (IF phase1 THEN t ELSE 0) * g[v] /\ g[v] \in Int
        BY <1>8
      <4>2. g[v] = 0 \/ ~ phase1
        BY <1>9, <2>2
      <4> HIDE DEF s, g
      <4>3. QED
        BY <1>1, <4>1, <4>2
    <3>3. h[v] = f[v] + s[v]
      OBVIOUS
    <3> HIDE DEF h, s, after
    <3>4. QED
      BY <3>1, <3>2, <3>3
  <2>3. QED
    BY <2>1, <2>2
<1> HIDE DEF after, g, s, h
<1>12. Sum(s, Vars) <= 0 /\ Sum(s, Vars) \in Int
  <2> DEFINE q == IF phase1 THEN t ELSE 0
  <2>1. q \in Nat /\ q \in Int
    BY <1>1
  <2>2. \A v \in Vars : g[v] \in Int /\ s[v] = q * g[v]
    BY <1>8
  <2> HIDE DEF q
  <2>3. Sum(s, Vars) = q * Sum(g, Vars) /\ Sum(g, Vars) \in Int
    BY <2>1, <2>2, SumScaled, SumType, IndicesFinite
  <2>4. q * Sum(g, Vars) <= 0
    <3> DEFINE n == -Sum(g, Vars)
    <3>1. n \in Nat /\ Sum(g, Vars) = -n
      BY <1>4, <2>3
    <3> HIDE DEF n
    <3>2. q * n \in Nat /\ q * (-n) = -(q * n)
      BY <2>1, <3>1
    <3>3. QED
      BY <3>1, <3>2
  <2>5. q * Sum(g, Vars) \in Int
    BY <2>1, <2>3
  <2>6. QED
    BY <2>3, <2>4, <2>5
<1>13. Sum(h, Vars) = Sum(f, Vars) + Sum(s, Vars) /\ Sum(f, Vars) \in Int
  <2>1. \A v \in Vars : f[v] \in Int /\ s[v] \in Int /\ h[v] = f[v] + s[v]
    BY <1>5, <1>8
  <2>2. QED
    BY <2>1, SumOfSum, SumType, IndicesFinite
<1>14. Sum(after, Vars) <= Sum(h, Vars) /\ Sum(after, Vars) \in Int
  <2>1. \A v \in Vars : after[v] \in Int /\ h[v] \in Int /\ after[v] <= h[v]
    BY <1>5, <1>7, <1>8, <1>11
  <2>2. QED
    BY <2>1, SumMonotone, SumType, IndicesFinite
<1>15. Sum(after, Vars) <= Infeasibility
  BY <1>5, <1>12, <1>13, <1>14
<1>16. QED
  BY <1>7, <1>15 DEF after, w, t

\* In phase 2 a move does not worsen the objective.
LEMMA MoveObjective ==
  ASSUME TypeOK, Span = Int, Nonsingular(basis), WorkingBounds, Seated, ~ phase1, NEW mv \in Moves
  PROVE  Product(problem.c, Moved(mv, Longest(mv))) <= Objective
<1> DEFINE t == Longest(mv)
           w == Moved(mv, t)
           ray == Ray(basis, mv.enter, mv.dir)
           g == [v \in Vars |-> Gradient(v) * ray[v]]
           c == [j \in Cols |-> problem.c[j]]
<1>1. t \in Nat /\ t \in Int /\ w \in [Vars -> Int]
  BY MoveType DEF Seated
<1>2. w = Plus(xval, t, ray) /\ \A v \in Vars : ray[v] \in {-1, 0, 1}
  BY <1>1, MoveIsRay
<1>3. Sum(g, Vars) < 0
  BY MoveGain
<1> HIDE DEF t, w, ray
<1>4. problem \in Problems /\ problem.c \in [Cols -> Int] /\ xval \in [Vars -> Int]
      /\ Cols \subseteq Vars
  BY ProblemType, IndicesFinite DEF TypeOK
<1>5. Integers(problem.c, Cols) /\ Integers(xval, Cols) /\ Integers(ray, Cols)
  BY <1>2, <1>4 DEF Integers
<1>6. Combines(w, xval, t, ray, Cols)
  BY <1>2, <1>4 DEF Combines, Plus
<1>7. Dot(problem.c, w, Cols) = Dot(problem.c, xval, Cols) + t * Dot(problem.c, ray, Cols)
  BY <1>1, <1>5, <1>6, DotCombined, IndicesFinite
<1>8. Product(problem.c, w) = Dot(problem.c, w, Cols) /\ Objective = Dot(problem.c, xval, Cols)
  BY DEF Product, Dot, Objective
<1>9. Dot(problem.c, xval, Cols) \in Int /\ Dot(problem.c, ray, Cols) \in Int
  BY <1>5, DotType, IndicesFinite
<1>10. Dot(problem.c, ray, Cols) = Sum(g, Vars)
  <2> DEFINE f == [j \in Cols |-> problem.c[j] * ray[j]]
  <2>1. \A v \in Vars : g[v] \in Int
    <3> SUFFICES ASSUME NEW v \in Vars
                 PROVE  Gradient(v) * ray[v] \in Int
      OBVIOUS
    <3>1. Gradient(v) \in Int /\ ray[v] \in Int
      BY <1>2, GradientType
    <3>2. QED
      BY <3>1
  <2>2. \A v \in Vars \ Cols : g[v] = 0
    <3> SUFFICES ASSUME NEW v \in Vars \ Cols
                 PROVE  Gradient(v) * ray[v] = 0
      OBVIOUS
    <3>1. Gradient(v) = 0 /\ ray[v] \in Int
      BY <1>2 DEF Gradient, Cost
    <3>2. QED
      BY <3>1
  <2>3. \A j \in Cols : g[j] = f[j]
    BY <1>4 DEF Gradient, Cost
  <2>4. Dot(problem.c, ray, Cols) = Sum(f, Cols)
    BY DEF Dot
  <2> HIDE DEF f, g
  <2>5. Sum(g, Vars) = Sum(g, Cols)
    BY <1>4, <2>1, <2>2, SumSupport, IndicesFinite
  <2>6. Sum(g, Cols) = Sum(f, Cols)
    BY <1>4, <2>1, <2>3, SumEqual, IndicesFinite
  <2>7. QED
    BY <2>4, <2>5, <2>6
<1> HIDE DEF g
<1>11. t * Dot(problem.c, ray, Cols) <= 0 /\ t * Dot(problem.c, ray, Cols) \in Int
  <2> DEFINE n == -Dot(problem.c, ray, Cols)
  <2>1. n \in Nat /\ Dot(problem.c, ray, Cols) = -n
    BY <1>3, <1>9, <1>10
  <2> HIDE DEF n
  <2>2. t * n \in Nat /\ t * (-n) = -(t * n)
    BY <1>1, <2>1
  <2>3. QED
    BY <2>1, <2>2
<1>12. QED
  BY <1>7, <1>8, <1>9, <1>11 DEF w, t

\* The entering variable of a pivot stays within its bounds.
LEMMA EnteringInside ==
  ASSUME TypeOK, Span = Int, Nonsingular(basis), WorkingBounds, Seated, NEW mv \in Moves,
         NEW t \in Nat, t < Width(mv.enter)
  PROVE  Violation(mv.enter, xval[mv.enter] + mv.dir * t) = 0
<1> DEFINE e == mv.enter
<1>1. e \in Vars /\ mv.dir \in {-1, 1} /\ lb[e] \in Int /\ ub[e] \in Int /\ xval[e] \in Int
      /\ lb[e] <= ub[e]
  BY MoveIsRay DEF TypeOK, Seated, Ordered
<1>2. /\ mv.dir = 1 => \/ Finite(lb[e]) /\ xval[e] = lb[e]
                       \/ ~ Finite(lb[e]) /\ ~ Finite(ub[e])
      /\ mv.dir = -1 => \/ Finite(ub[e]) /\ xval[e] = ub[e]
                        \/ ~ Finite(lb[e]) /\ ~ Finite(ub[e])
  BY EnteringOpen DEF Seated
<1>3. Finite(lb[e]) /\ Finite(ub[e]) => t < ub[e] - lb[e]
  BY <1>1, WidthType DEF Seated, Width
<1> HIDE DEF e
<1>4. CASE mv.dir = 1
  <2>1. xval[e] + mv.dir * t = xval[e] + t
    BY <1>1, <1>4
  <2>2. (Finite(lb[e]) => xval[e] + t >= lb[e]) /\ (Finite(ub[e]) => xval[e] + t <= ub[e])
    BY <1>1, <1>2, <1>3, <1>4
  <2>3. Violation(e, xval[e] + t) = 0
    BY <1>1, <2>2 DEF Violation, Below, Above
  <2>4. QED
    BY <2>1, <2>3 DEF e
<1>5. CASE mv.dir = -1
  <2>1. xval[e] + mv.dir * t = xval[e] - t
    BY <1>1, <1>5
  <2>2. (Finite(lb[e]) => xval[e] - t >= lb[e]) /\ (Finite(ub[e]) => xval[e] - t <= ub[e])
    BY <1>1, <1>2, <1>3, <1>5
  <2>3. Violation(e, xval[e] - t) = 0
    BY <1>1, <2>2 DEF Violation, Below, Above
  <2>4. QED
    BY <2>1, <2>3 DEF e
<1>6. QED
  BY <1>1, <1>4, <1>5

Improves ==
    /\ Infeasibility' <= Infeasibility
    /\ ~ phase1 => Objective' <= Objective

\* The same after a step.
LEMMA SpreadLater ==
  ASSUME ShapeInv'
  PROVE  Infeasibility' = Sum(Violations', Vars)
<1>1. TypeOK' /\ Nonsingular(basis)'
  BY DEF ShapeInv
<1>2. (Infeasibility = Sum(Violations, Vars))'
  BY <1>1, InfeasibilitySpread, PTL
<1>3. QED
  BY <1>2

\* Recomputing exact values changes none of them.
LEMMA RecomputeImproves ==
  ASSUME Span = Int, SimplexInv, Refactorize \/ EnterPhase2 \/ ForgiveResidual, ~ drifted
  PROVE  Improves
<1>1. pc = "iterate" /\ TypeOK /\ Nonsingular(basis) /\ Seated /\ problem \in Problems
  BY DEF SimplexInv, ShapeInv, Running, Refactorize, EnterPhase2, ForgiveResidual, Due, Price, Turn,
     TypeOK
<1>2. /\ problem' = problem /\ lb' = lb /\ ub' = ub /\ basis' = basis
      /\ xval' = Recomputed(basis, xval)
  BY DEF Refactorize, EnterPhase2, ForgiveResidual, BeginPhase2
<1>3. xval' = xval
  BY <1>1, <1>2, RecomputedSame DEF Seated
<1>4. Infeasibility' = Infeasibility /\ Objective' = Objective
  BY <1>2, <1>3 DEF Infeasibility, Violation, Below, Above, Objective
<1>5. Infeasibility \in Int /\ Objective \in Int
  <2>1. Integers(xval, Cols)
    BY <1>1, IndicesFinite DEF TypeOK, Integers
  <2>2. QED
    BY <1>1, <2>1, InfeasibilityType, ProductType DEF Objective
<1>6. QED
  BY <1>4, <1>5 DEF Improves

\* A bound flip improves.
LEMMA BoundFlipImproves ==
  ASSUME Span = Int, SimplexInv, BoundFlip, phase1 \/ Infeasibility = 0
  PROVE  Improves
<1>1. /\ pc = "iterate" /\ TypeOK /\ WorkingBounds /\ Nonsingular(basis) /\ Seated
  BY PriceFacts DEF BoundFlip
<1>2. PICK mv \in Moves :
        /\ xval' = Moved(mv, Longest(mv))
        /\ UNCHANGED <<problem, lb, ub, basis>>
  BY DEF BoundFlip
<1> DEFINE w == Moved(mv, Longest(mv))
           after == [v \in Vars |-> IF v \in Basic THEN Violation(v, w[v]) ELSE 0]
<1>3. Sum(after, Vars) <= Infeasibility
  BY <1>1, MoveViolations
<1>4. ShapeInv'
  BY BoundFlipShape
<1>5. Violations' = after
  BY <1>2 DEF Violations, Violation, Below, Above, Basic
<1>6. Infeasibility' <= Infeasibility
  BY <1>3, <1>4, <1>5, SpreadLater
<1>7. ~ phase1 => Objective' <= Objective
  BY <1>1, <1>2, MoveObjective DEF Objective
<1>8. QED
  BY <1>6, <1>7 DEF Improves

\* A pivot that pins its variable where the move took it improves.
LEMMA PivotImproves ==
  ASSUME Span = Int, SimplexInv, Pivot, ~ drifted, ~ drifted', phase1 \/ Infeasibility = 0
  PROVE  Improves
<1>1. /\ pc = "iterate" /\ TypeOK /\ WorkingBounds /\ Nonsingular(basis) /\ Seated
  BY PriceFacts DEF Pivot
<1>2. PICK mv \in Moves : \E k \in Blocking(mv.delta) :
        LET t == Longest(mv) leaving == basis[k] pin == Pinned(k, mv.delta[k]) IN
        /\ t < Width(mv.enter)
        /\ xval' = [Moved(mv, t) EXCEPT ![leaving] = pin.xval]
        /\ basis' = [basis EXCEPT ![k] = mv.enter]
        /\ drifted' = (drifted \/ pin.xval # Moved(mv, t)[leaving])
        /\ UNCHANGED <<problem, lb, ub>>
  BY DEF Pivot
<1> DEFINE t == Longest(mv)
           w == Moved(mv, t)
           e == mv.enter
           after == [v \in Vars |-> IF v \in Basic THEN Violation(v, w[v]) ELSE 0]
<1>3. PICK k \in Blocking(mv.delta) :
        /\ t < Width(e)
        /\ xval' = [w EXCEPT ![basis[k]] = Pinned(k, mv.delta[k]).xval]
        /\ basis' = [basis EXCEPT ![k] = e]
        /\ drifted' = (drifted \/ Pinned(k, mv.delta[k]).xval # w[basis[k]])
        /\ UNCHANGED <<problem, lb, ub>>
  BY <1>2
<1>4. /\ t \in Nat /\ w \in [Vars -> Int] /\ e \in Vars /\ w[e] = xval[e] + mv.dir * t
  BY <1>1, MoveType, MoveIsRay DEF Seated
<1>5. Sum(after, Vars) <= Infeasibility /\ \A v \in Vars : after[v] \in Nat
  BY <1>1, MoveViolations
<1>6. Violation(e, w[e]) = 0
  <2>1. t < Width(e)
    BY <1>3
  <2>2. Violation(e, xval[e] + mv.dir * t) = 0
    <3> HIDE DEF t
    <3>1. QED
      BY <1>1, <1>4, <2>1, EnteringInside
  <2>3. QED
    BY <1>4, <2>2
<1> HIDE DEF t, w, e
<1>7. xval' = w
  BY <1>3, <1>4
<1>8. /\ basis' = [basis EXCEPT ![k] = e] /\ problem' = problem /\ lb' = lb /\ ub' = ub
      /\ basis \in [Rows -> Vars]
  BY <1>1, <1>3 DEF TypeOK
<1>9. Basic' \subseteq Basic \cup {e}
  BY <1>8 DEF Basic
<1>10. \A v \in Vars : Violation(v, w[v]) \in Nat
  BY <1>1, <1>4, ViolationType
<1>11. \A v \in Vars : Violations'[v] = IF v \in Basic' THEN Violation(v, w[v]) ELSE 0
  BY <1>7, <1>8 DEF Violations, Violation, Below, Above
<1>12. \A v \in Vars : Violations'[v] \in Int /\ after[v] \in Int /\ Violations'[v] <= after[v]
  <2> SUFFICES ASSUME NEW v \in Vars
               PROVE  Violations'[v] \in Int /\ after[v] \in Int /\ Violations'[v] <= after[v]
    OBVIOUS
  <2>1. CASE v \notin Basic'
    <3>1. Violations'[v] = 0
      BY <1>11, <2>1
    <3> HIDE DEF after
    <3>2. QED
      BY <1>5, <3>1
  <2>2. CASE v \in Basic' /\ v = e
    <3>1. Violations'[v] = 0
      BY <1>6, <1>11, <2>2
    <3> HIDE DEF after
    <3>2. QED
      BY <1>5, <3>1
  <2>3. CASE v \in Basic' /\ v # e
    <3>1. v \in Basic
      BY <1>9, <2>3
    <3>2. Violations'[v] = Violation(v, w[v]) /\ after[v] = Violation(v, w[v])
      BY <1>11, <2>3, <3>1
    <3> HIDE DEF after
    <3>3. QED
      BY <1>10, <3>2
  <2>4. QED
    BY <2>1, <2>2, <2>3
<1>13. ShapeInv'
  BY PivotShape
<1>14. Infeasibility' <= Infeasibility
  <2>1. Infeasibility' = Sum(Violations', Vars)
    BY <1>13, SpreadLater
  <2> DEFINE later == Violations'
  <2> HIDE DEF after, later
  <2>2. \A v \in Vars : later[v] \in Int /\ after[v] \in Int /\ later[v] <= after[v]
    BY <1>12 DEF later
  <2>3. Sum(later, Vars) <= Sum(after, Vars) /\ Sum(later, Vars) \in Int /\ Sum(after, Vars) \in Int
    BY <2>2, SumMonotone, SumType, IndicesFinite
  <2>4. Infeasibility \in Int
    BY <1>1, InfeasibilityType
  <2>5. QED
    BY <1>5, <2>1, <2>3, <2>4 DEF later
<1>15. ~ phase1 => Objective' <= Objective
  BY <1>1, <1>7, <1>8, MoveObjective DEF Objective, w, t
<1>16. QED
  BY <1>14, <1>15 DEF Improves

\* Every undisturbed step of the loop improves.
LEMMA StepImproves ==
  ASSUME Span = Int, SimplexInv, [Solving]_vars,
         pc = "iterate", pc' = "iterate", ~ drifted, ~ drifted', phase1 \/ Infeasibility = 0
  PROVE  Improves
<1>1. CASE UNCHANGED vars
  <2>1. /\ problem' = problem /\ lb' = lb /\ ub' = ub /\ basis' = basis /\ xval' = xval
    BY <1>1 DEF vars, spx
  <2>2. Infeasibility' = Infeasibility /\ Objective' = Objective
    BY <2>1 DEF Infeasibility, Violation, Below, Above, Objective
  <2>3. TypeOK /\ problem \in Problems
    BY DEF SimplexInv, ShapeInv, TypeOK
  <2>4. Infeasibility \in Int /\ Objective \in Int
    <3>1. Integers(xval, Cols)
      BY <2>3, IndicesFinite DEF TypeOK, Integers
    <3>2. QED
      BY <2>3, <3>1, InfeasibilityType, ProductType DEF Objective
  <2>5. QED
    BY <2>2, <2>4 DEF Improves
<1>2. CASE SingletonInfeasible \/ Start \/ Publish
  BY <1>2 DEF SingletonInfeasible, Start, Publish
<1>3. CASE \/ AtLimit \/ OutOfTime \/ RefactorizationFails \/ DeclareInfeasible
           \/ DeclareOptimal \/ DeclareUnbounded
  BY <1>3 DEF AtLimit, OutOfTime, RefactorizationFails, DeclareInfeasible, DeclareOptimal,
     DeclareUnbounded, Conclude
<1>4. CASE Refactorize \/ EnterPhase2 \/ ForgiveResidual
  BY <1>4, RecomputeImproves
<1>5. CASE Drift
  BY <1>5 DEF Drift
<1>6. CASE BoundFlip \/ Pivot
  BY <1>6, BoundFlipImproves, PivotImproves
<1>7. QED
  BY <1>1, <1>2, <1>3, <1>4, <1>5, <1>6 DEF Solving

(***************************************************************************)
(* Sequences that list the members of a set, each once.                    *)
(***************************************************************************)
Lists(s, S) ==
    /\ s \in Seq(S)
    /\ \A a, b \in 1 .. Len(s) : s[a] = s[b] => a = b
    /\ \A c \in S : \E k \in 1 .. Len(s) : s[k] = c

\* What a listing is in the words of the community modules.
LEMMA ListedSet ==
  ASSUME NEW S, NEW s, Lists(s, S)
  PROVE  IsInjective(s) /\ ToSet(s) = S /\ DOMAIN s = 1 .. Len(s) /\ Len(s) \in Nat
<1>1. s \in Seq(S)
  BY DEF Lists
<1>2. /\ Len(s) \in Nat /\ s \in [1 .. Len(s) -> S] /\ DOMAIN s = 1 .. Len(s)
  BY <1>1, LenProperties
<1>3. QED
  BY <1>2 DEF Lists, IsInjective, ToSet

\* A finite set has a listing, and SetToSeq chooses one.
LEMMA SetToSeqLists ==
  ASSUME NEW S, IsFiniteSet(S)
  PROVE  Lists(SetToSeq(S), S)
<1> DEFINE n == Cardinality(S)
<1>1. n \in Nat /\ \E f \in [1 .. n -> S] : IsInjective(f)
  <2>1. PICK m \in Nat : ExistsBijection(1 .. m, S)
    BY FS_NatBijection
  <2>2. m = n
    BY <2>1, FS_CountingElements
  <2>3. PICK f \in Bijection(1 .. m, S) : TRUE
    BY <2>1 DEF ExistsBijection
  <2>4. f \in [1 .. m -> S] /\ IsInjective(f)
    BY <2>3 DEF Bijection, Injection, IsInjective
  <2>5. QED
    BY <2>1, <2>2, <2>4
<1> DEFINE s == SetToSeq(S)
<1>2. s \in [1 .. n -> S] /\ IsInjective(s)
  BY <1>1 DEF SetToSeq
<1> HIDE DEF s
<1>3. s \in Seq(S) /\ Len(s) = n
  <2>1. s \in Seq(S)
    BY <1>1, <1>2, SeqDef
  <2>2. DOMAIN s = 1 .. Len(s) /\ Len(s) \in Nat
    BY <2>1, LenProperties
  <2>3. QED
    BY <1>1, <1>2, <2>1, <2>2
<1>4. ASSUME NEW c \in S, \A k \in 1 .. n : s[k] # c
      PROVE  FALSE
  <2> DEFINE T == S \ {c}
  <2>1. IsFiniteSet(T) /\ Cardinality(T) = n - 1
    BY FS_RemoveElement
  <2>2. s \in [1 .. n -> T]
    BY <1>2, <1>4
  <2>3. IsFiniteSet(1 .. n) /\ Cardinality(1 .. n) = n
    <3>1. \E k \in 1 .. n : TRUE
      <4>1. n # 0
        BY FS_EmptySet
      <4>2. QED
        BY <1>1, <4>1
    <3>2. QED
      BY <1>1, <3>1, FS_Interval
  <2>4. \E a, b \in 1 .. n : a # b /\ s[a] = s[b]
    <3>1. Cardinality(T) < Cardinality(1 .. n)
      BY <1>1, <2>1, <2>3
    <3> HIDE DEF T
    <3>2. QED
      BY <2>1, <2>2, <2>3, <3>1, FS_PigeonHole
  <2>5. QED
    BY <1>2, <2>4 DEF IsInjective
<1>5. QED
  BY <1>2, <1>3, <1>4 DEF Lists, IsInjective, s

\* Two listings of disjoint sets, one after the other.
LEMMA ConcatLists ==
  ASSUME NEW S, NEW T, NEW s, NEW t, Lists(s, S), Lists(t, T), S \cap T = {}
  PROVE  Lists(s \o t, S \cup T)
<1> DEFINE U == S \cup T
<1>1. s \in Seq(U) /\ t \in Seq(U)
  BY SeqMonotonic DEF Lists
<1>2. /\ Len(s) \in Nat /\ Len(t) \in Nat
      /\ \A k \in 1 .. Len(s) : s[k] \in S
      /\ \A k \in 1 .. Len(t) : t[k] \in T
  BY LenProperties, ElementOfSeq DEF Lists
<1> DEFINE u == s \o t
<1>3. /\ u \in Seq(U) /\ Len(u) = Len(s) + Len(t)
      /\ \A i \in 1 .. Len(s) + Len(t) : u[i] = IF i <= Len(s) THEN s[i] ELSE t[i - Len(s)]
  BY <1>1, ConcatProperties
<1> DEFINE m == Len(s)
           n == Len(t)
<1> HIDE DEF U, u, m, n
<1>4. /\ m \in Nat /\ n \in Nat /\ Len(u) = m + n
      /\ \A k \in 1 .. m : s[k] \in S
      /\ \A k \in 1 .. n : t[k] \in T
      /\ \A i \in 1 .. m : u[i] = s[i]
      /\ \A i \in m + 1 .. m + n : i - m \in 1 .. n /\ u[i] = t[i - m]
  BY <1>2, <1>3 DEF m, n
<1>5. \A a, b \in 1 .. m + n : u[a] = u[b] => a = b
  <2>1. \A a, b \in 1 .. m : s[a] = s[b] => a = b
    BY DEF Lists, m
  <2>2. \A a, b \in 1 .. n : t[a] = t[b] => a = b
    BY DEF Lists, n
  <2> SUFFICES ASSUME NEW a \in 1 .. m + n, NEW b \in 1 .. m + n, u[a] = u[b]
               PROVE  a = b
    OBVIOUS
  <2>3. CASE a <= m /\ b <= m
    BY <1>4, <2>1, <2>3
  <2>4. CASE a <= m /\ b > m
    <3>1. u[a] \in S /\ u[b] \in T
      BY <1>4, <2>4
    <3>2. QED
      BY <3>1
  <2>5. CASE a > m /\ b <= m
    <3>1. u[a] \in T /\ u[b] \in S
      BY <1>4, <2>5
    <3>2. QED
      BY <3>1
  <2>6. CASE a > m /\ b > m
    <3>1. a - m = b - m
      BY <1>4, <2>2, <2>6
    <3>2. QED
      BY <1>4, <3>1
  <2>7. QED
    BY <1>4, <2>3, <2>4, <2>5, <2>6
<1>6. ASSUME NEW c \in U
      PROVE  \E k \in 1 .. m + n : u[k] = c
  <2>1. CASE c \in S
    <3>1. PICK k \in 1 .. m : s[k] = c
      BY <2>1 DEF Lists, m
    <3>2. QED
      BY <1>4, <3>1
  <2>2. CASE c \in T
    <3>1. PICK k \in 1 .. n : t[k] = c
      BY <2>2 DEF Lists, n
    <3>2. k + m \in m + 1 .. m + n /\ (k + m) - m = k
      BY <1>4
    <3>3. u[k + m] = c
      BY <1>4, <3>1, <3>2
    <3>4. QED
      BY <1>4, <3>2, <3>3
  <2>3. QED
    BY <1>6, <2>1, <2>2 DEF U
<1>7. QED
  BY <1>3, <1>4, <1>5, <1>6 DEF Lists, U, u

\* A member that joins at the end.
LEMMA AppendLists ==
  ASSUME NEW S, NEW s, Lists(s, S), NEW c, c \notin S
  PROVE  Lists(Append(s, c), S \cup {c})
<1> DEFINE U == S \cup {c}
           u == Append(s, c)
           m == Len(s)
<1>1. s \in Seq(U) /\ m \in Nat /\ \A k \in 1 .. m : s[k] \in S
  BY SeqMonotonic, LenProperties, ElementOfSeq DEF Lists
<1>2. /\ u \in Seq(U) /\ Len(u) = m + 1
      /\ \A i \in 1 .. m : u[i] = s[i]
      /\ u[m + 1] = c
  BY <1>1, AppendProperties
<1>3. /\ \A a, b \in 1 .. m : s[a] = s[b] => a = b
      /\ \A d \in S : \E k \in 1 .. m : s[k] = d
  BY DEF Lists
<1> HIDE DEF U, u, m
<1>4. \A a, b \in 1 .. m + 1 : u[a] = u[b] => a = b
  BY <1>1, <1>2, <1>3
<1>5. \A d \in S : \E k \in 1 .. m + 1 : u[k] = d
  BY <1>1, <1>2, <1>3
<1>6. \E k \in 1 .. m + 1 : u[k] = c
  BY <1>1, <1>2
<1>7. QED
  BY <1>2, <1>4, <1>5, <1>6 DEF Lists, U, u

\* A member that leaves.
LEMMA RemoveLists ==
  ASSUME NEW S, NEW s, Lists(s, S), NEW k \in 1 .. Len(s)
  PROVE  s[k] \in S /\ Lists(RemoveAt(s, k), S \ {s[k]})
<1> DEFINE m == Len(s)
           c == s[k]
           T == S \ {c}
           p == SubSeq(s, 1, k - 1)
           q == SubSeq(s, k + 1, m)
<1>1. m \in Nat /\ \A i \in 1 .. m : s[i] \in S
  BY LenProperties, ElementOfSeq DEF Lists
<1>2. /\ \A a, b \in 1 .. m : s[a] = s[b] => a = b
      /\ \A d \in S : \E i \in 1 .. m : s[i] = d
  BY DEF Lists
<1>3. k \in Int /\ 1 <= k /\ k <= m
  BY <1>1
<1>4. c \in S /\ \A i \in 1 .. m : i # k => s[i] \in T
  BY <1>1, <1>2
<1>5. /\ p \in Seq(T) /\ Len(p) = k - 1 /\ \A i \in 1 .. k - 1 : p[i] = s[i]
  <2>1. \A i \in 1 .. k - 1 : s[i] \in T
    BY <1>1, <1>3, <1>4
  <2> HIDE DEF T
  <2>2. /\ p \in Seq(T) /\ Len(p) = IF 1 <= k - 1 THEN (k - 1) - 1 + 1 ELSE 0
        /\ \A i \in 1 .. (k - 1) - 1 + 1 : p[i] = s[1 + i - 1]
    BY <1>3, <2>1, SubSeqProperties
  <2> HIDE DEF p
  <2>3. QED
    BY <1>3, <2>2
<1>6. /\ q \in Seq(T) /\ Len(q) = m - k /\ \A i \in 1 .. m - k : q[i] = s[i + k]
  <2>1. \A i \in k + 1 .. m : s[i] \in T
    BY <1>1, <1>3, <1>4
  <2> HIDE DEF T
  <2>2. /\ q \in Seq(T) /\ Len(q) = IF k + 1 <= m THEN m - (k + 1) + 1 ELSE 0
        /\ \A i \in 1 .. m - (k + 1) + 1 : q[i] = s[(k + 1) + i - 1]
    BY <1>1, <1>3, <2>1, SubSeqProperties
  <2> HIDE DEF q
  <2>3. QED
    BY <1>1, <1>3, <2>2
<1> DEFINE u == p \o q
<1>7. /\ u \in Seq(T) /\ Len(u) = Len(p) + Len(q)
      /\ \A i \in 1 .. Len(p) + Len(q) : u[i] = IF i <= Len(p) THEN p[i] ELSE q[i - Len(p)]
  BY <1>5, <1>6, ConcatProperties
<1> HIDE DEF T, p, q, u
<1>8. /\ u \in Seq(T) /\ Len(u) = m - 1
      /\ \A i \in 1 .. m - 1 : u[i] = IF i < k THEN s[i] ELSE s[i + 1]
  <2>1. Len(p) + Len(q) = m - 1 /\ Len(p) = k - 1
    BY <1>1, <1>3, <1>5, <1>6
  <2>2. ASSUME NEW i \in 1 .. m - 1
        PROVE  u[i] = IF i < k THEN s[i] ELSE s[i + 1]
    <3>1. u[i] = IF i <= k - 1 THEN p[i] ELSE q[i - (k - 1)]
      BY <1>7, <2>1
    <3>2. CASE i < k
      <4>1. i <= k - 1 /\ i \in 1 .. k - 1
        BY <1>1, <1>3, <3>2
      <4>2. QED
        BY <1>5, <3>1, <3>2, <4>1
    <3>3. CASE ~ (i < k)
      <4>1. ~ (i <= k - 1) /\ i - (k - 1) \in 1 .. m - k /\ (i - (k - 1)) + k = i + 1
        BY <1>1, <1>3, <3>3
      <4>2. QED
        BY <1>6, <3>1, <3>3, <4>1
    <3>4. QED
      BY <3>2, <3>3
  <2>3. QED
    BY <1>7, <2>1, <2>2
<1> HIDE DEF m, c
<1>9. \A a, b \in 1 .. m - 1 : u[a] = u[b] => a = b
  <2> SUFFICES ASSUME NEW a \in 1 .. m - 1, NEW b \in 1 .. m - 1, u[a] = u[b]
               PROVE  a = b
    OBVIOUS
  <2> DEFINE f(i) == IF i < k THEN i ELSE i + 1
  <2>1. f(a) \in 1 .. m /\ f(b) \in 1 .. m
    BY <1>1, <1>3
  <2>2. u[a] = s[f(a)] /\ u[b] = s[f(b)]
    BY <1>8
  <2>3. f(a) = f(b)
    BY <1>2, <2>1, <2>2
  <2>4. QED
    BY <1>1, <1>3, <2>3
<1>10. ASSUME NEW d \in T
       PROVE  \E i \in 1 .. m - 1 : u[i] = d
  <2>1. PICK i \in 1 .. m : s[i] = d
    BY <1>2, <1>10 DEF T
  <2>2. i # k
    BY <1>10, <2>1 DEF T, c
  <2>3. CASE i < k
    BY <1>1, <1>3, <1>8, <2>1, <2>3
  <2>4. CASE i > k
    <3>1. i - 1 \in 1 .. m - 1 /\ ~ (i - 1 < k) /\ (i - 1) + 1 = i
      BY <1>1, <1>3, <2>4
    <3>2. QED
      BY <1>8, <2>1, <3>1
  <2>5. QED
    BY <1>1, <1>3, <2>2, <2>3, <2>4
<1>11. RemoveAt(s, k) = u
  BY DEF RemoveAt, u, p, q, m
<1>12. QED
  BY <1>4, <1>8, <1>9, <1>10, <1>11 DEF Lists, T, c

(***************************************************************************)
(* The inductive invariant of the quadratic engines.                       *)
(***************************************************************************)
\* A constraint of the working set; a row is an equality or has bounds.
Constraint ==
    {ColumnBound(j) : j \in Cols} \cup {Equality(i) : i \in request.equalities}
    \cup {RowBound(i) : i \in Rows \ request.equalities}

OfColumns(S) == {c \in S : c.kind = "column"}
OfRows(S) == {c \in S : c.kind # "column"}
Indices(S) == {c.index : c \in S}

\* The set listed, which the flags describe.
WorkingInv ==
    stage = "working" =>
        \E held \in SUBSET Constraint :
            /\ Lists(active, held)
            /\ var_active = Indices(OfColumns(held))
            /\ row_active = Indices(OfRows(held))
            /\ \A i \in request.equalities : Equality(i) \in held

\* A point q may be given up for r: r is verified, or no worse in sum; and it is
\* verified if q is, under mild tolerances.
KeptAs(q, r) ==
    /\ IsVerified(r) \/ Score(r) <= Score(q)
    /\ Mild /\ IsVerified(q) => IsVerified(r)

\* What the loop ended with, and what has become of it; a linear problem never
\* comes to a correction.
QualityInv ==
    /\ quality \in Measures /\ saved \in Measures /\ handed \subseteq Measures
    /\ stage \in {"dispatch", "simplex", "closed", "enumerate", "iterate"} => handed = {}
    /\ stage = "correct" => handed \subseteq {quality}
    /\ ~ Linear /\ stage \in {"work", "classify", "done"} => \A q \in handed : KeptAs(q, quality)
    /\ stage = "working" => \A q \in handed : KeptAs(q, saved)
    /\ Linear => stage \notin {"closed", "enumerate", "work", "working"}
    /\ Linear /\ converged => quality.primal <= request.primal_tol

\* An answer ends the solve, each engine sees the problems it is for, and OPTIMAL
\* is said of a verified quadratic point, or of a linear one within the rows.
AnswerInv ==
    /\ stage # "done" => answer = "NONE"
    /\ request.kind = "QP" /\ stage \notin {"dispatch", "done"} =>
          stage # "simplex" /\ (request.tested => request.convex)
    /\ answer = "OPTIMAL" /\ request.kind = "QP" =>
          IsVerified(quality) /\ (request.tested => request.convex)
    /\ ~ Linear /\ stage = "done" /\ handed # {} /\ IsVerified(quality) => answer = "OPTIMAL"
    /\ Linear /\ stage \in {"iterate", "correct", "classify"} => request.engine = "FIRST_ORDER"
    /\ Linear /\ stage = "simplex" => request.engine # "FIRST_ORDER"
    /\ Linear /\ request.engine = "FIRST_ORDER" =>
          /\ answer # "UNBOUNDED"
          /\ answer = "OPTIMAL" => quality.primal <= request.primal_tol

\* The activities are of the over-relaxed point inside the loop only, unless the
\* clock ended it.
ActivityInv ==
    /\ late \in BOOLEAN /\ converged \in BOOLEAN
    /\ converged => activity = "x"
    /\ stage \in {"dispatch", "simplex", "closed", "enumerate"} => activity = "x" /\ ~ converged
    /\ stage = "iterate" => ~ converged
    /\ stage \in {"correct", "work", "working", "classify"} => activity = "x" \/ late
    /\ answer \in {"OPTIMAL", "ITERATION_LIMIT"} => activity = "x"

\* What the caller of a solve has set.
RequestInv ==
    /\ request.equalities \subseteq Rows
    /\ request.primal_tol \in Nat /\ request.dual_tol \in Nat

SolveInv ==
    /\ RequestInv
    /\ WorkingInv /\ QualityInv /\ AnswerInv /\ ActivityInv

\* The quadratic part of the invariant holds at the start.
LEMMA SolveInitInv ==
  ASSUME SolveInit
  PROVE  SolveInv
<1>1. RequestInv
  BY SolveAssumption, MeasureAssumption DEF SolveInit, RequestInv
<1>2. WorkingInv
  BY DEF SolveInit, WorkingInv
<1>3. QualityInv
  BY MeasureAssumption DEF SolveInit, QualityInv
<1>4. AnswerInv
  BY DEF SolveInit, AnswerInv
<1>5. ActivityInv
  BY DEF SolveInit, ActivityInv
<1>6. QED
  BY <1>1, <1>2, <1>3, <1>4, <1>5 DEF SolveInv

\* The request is never written.
LEMMA RequestKept ==
  ASSUME [SolveNext]_solveVars
  PROVE  request' = request
<1>1. CASE UNCHANGED solveVars
  BY <1>1 DEF solveVars
<1>2. CASE ClockExpires \/ Finished
  BY <1>2 DEF ClockExpires, Finished, solveVars
<1>3. CASE Progress
  BY <1>3 DEF Progress, RejectEngine, IntervalInfeasible, ToSimplex, QuadraticOnSimplex,
     RejectIndefinite, ToContinuous, ToMilp, Simplex, SimplexReturns, DiagonalForm, EqualityForm,
     NoClosedForm, TooManyPatterns, TryPattern, EnumerationTimesOut, EnumerationEnds, Iterate,
     LinearSkipsCorrection, Polish, BeginWork, DropLast, DropWorst,
     WorkStep, EndWork, Classify, Return, GoTo, WorkUnchanged, BeginLoop
<1>4. QED
  BY <1>1, <1>2, <1>3 DEF SolveNext

(***************************************************************************)
(* The residuals.                                                          *)
(***************************************************************************)
\* A measured residual is a natural number, and so is their sum.
LEMMA MeasureType ==
  ASSUME NEW q \in Measures
  PROVE  /\ q.primal \in Nat /\ q.dual \in Nat /\ q.comp \in Nat
         /\ Score(q) \in Nat
         /\ q.primal <= Score(q) /\ q.dual <= Score(q) /\ q.comp <= Score(q)
<1>1. q \in [primal : Nat, dual : Nat, comp : Nat]
  BY MeasureAssumption
<1>2. QED
  BY <1>1 DEF Score

\* A point is kept as itself, and as any verified one.
LEMMA KeptAsSelf ==
  ASSUME NEW q \in Measures
  PROVE  KeptAs(q, q)
<1>1. Score(q) \in Nat
  BY MeasureType
<1>2. QED
  BY <1>1 DEF KeptAs

\* The polish keeps a point, or one with a smaller sum: under mild tolerances the
\* bound on the sum is a bound on each residual that the gate accepts.
LEMMA PolishKeeps ==
  ASSUME RequestInv, quality \in Measures, NEW q \in Measures
  PROVE  Polished(q) \in Measures /\ KeptAs(quality, Polished(q))
<1>1. CASE Score(q) < Score(quality) /\ Score(q) <= PolishBound
  <2>1. Polished(q) = q
    BY <1>1 DEF Polished
  <2>2. Score(q) \in Nat /\ Score(quality) \in Nat
    BY MeasureType
  <2>3. ASSUME Mild
        PROVE  IsVerified(q)
    <3>1. /\ q.primal \in Nat /\ q.dual \in Nat /\ q.comp \in Nat /\ PolishBound \in Nat
          /\ q.primal <= Score(q) /\ q.dual <= Score(q) /\ q.comp <= Score(q)
      BY MeasureType, MeasureAssumption
    <3> DEFINE P == Factor * request.primal_tol
               D == Factor * request.dual_tol
    <3>2. P \in Nat /\ D \in Nat
      BY MeasureAssumption DEF RequestInv
    <3>3. PolishBound <= P /\ PolishBound <= D
      BY <2>3 DEF Mild
    <3> HIDE DEF P, D
    <3>4. q.primal <= P /\ q.dual <= D /\ q.comp <= D
      BY <1>1, <2>2, <3>1, <3>2, <3>3
    <3>5. QED
      BY <3>4 DEF IsVerified, P, D
  <2>4. QED
    BY <1>1, <2>1, <2>2, <2>3 DEF KeptAs
<1>2. CASE ~ (Score(q) < Score(quality) /\ Score(q) <= PolishBound)
  BY <1>2, KeptAsSelf DEF Polished
<1>3. QED
  BY <1>1, <1>2

\* Every step keeps what is known of the point held.
LEMMA QualityStep ==
  ASSUME SolveInv, [SolveNext]_solveVars
  PROVE  QualityInv'
<1>0. QualityInv /\ ActivityInv /\ RequestInv /\ request' = request
  BY RequestKept DEF SolveInv
<1> DEFINE After ==
      /\ quality' \in Measures /\ saved' \in Measures /\ handed' \subseteq Measures
      /\ stage' \in {"dispatch", "simplex", "closed", "enumerate", "iterate"} => handed' = {}
      /\ stage' = "correct" => handed' \subseteq {quality'}
      /\ ~ Linear /\ stage' \in {"work", "classify", "done"} =>
            \A q \in handed' : KeptAs(q, quality')
      /\ stage' = "working" => \A q \in handed' : KeptAs(q, saved')
      /\ Linear => stage' \notin {"closed", "enumerate", "work", "working"}
      /\ Linear /\ converged' => quality'.primal <= request.primal_tol
<1>a. SUFFICES After
  BY <1>0 DEF QualityInv, KeptAs, IsVerified, Score, Mild, Linear
<1>b. ASSUME UNCHANGED <<stage, quality, saved, handed, converged>>
      PROVE  After
  BY <1>0, <1>b DEF QualityInv
<1>c. ASSUME stage \in {"dispatch", "simplex", "closed", "enumerate"},
             UNCHANGED <<saved, handed, converged>>, quality' \in Measures,
             stage' \in {"done", "simplex", "iterate", "enumerate", "closed"},
             Linear => stage' \notin {"closed", "enumerate"}
      PROVE  After
  BY <1>0, <1>c DEF QualityInv, ActivityInv
<1> HIDE DEF After
<1> USE DEF quadratic
<1>1. CASE UNCHANGED solveVars \/ ClockExpires \/ Finished
  BY <1>b, <1>1 DEF ClockExpires, Finished, solveVars
<1>2. CASE RejectEngine \/ IntervalInfeasible \/ QuadraticOnSimplex \/ RejectIndefinite
           \/ ToMilp \/ SimplexReturns
  BY <1>0, <1>c, <1>2 DEF RejectEngine, IntervalInfeasible, QuadraticOnSimplex, RejectIndefinite,
     ToMilp, SimplexReturns, Return, Admitted, Dispatching, QualityInv
<1>3. CASE ToSimplex \/ ToContinuous
  BY <1>0, <1>c, <1>3 DEF ToSimplex, ToContinuous, GoTo, Admitted, Dispatching, Linear, QualityInv
<1>4. CASE NoClosedForm
  BY <1>0, <1>c, <1>4 DEF NoClosedForm, GoTo, QualityInv
<1>5. CASE Simplex
  BY <1>b, <1>5 DEF Simplex
<1>6. CASE DiagonalForm \/ EqualityForm
  BY <1>0, <1>c, <1>6 DEF DiagonalForm, EqualityForm, HoldVerified, QualityInv
<1>7. CASE TryPattern
  BY <1>b, <1>7 DEF TryPattern
<1>8. CASE TooManyPatterns \/ EnumerationTimesOut \/ EnumerationEnds
  BY <1>0, <1>c, <1>8 DEF TooManyPatterns, EnumerationTimesOut, EnumerationEnds, BeginLoop,
     HoldVerified, QualityInv
<1>9. CASE Iterate
  <2>1. /\ quality' \in Measures /\ saved' = saved /\ stage = "iterate"
        /\ handed' = IF stage' = "correct" THEN {quality'} ELSE handed
        /\ stage' \in {"iterate", "correct"}
    BY <1>9 DEF Iterate
  <2>2. Linear /\ converged' => quality'.primal <= request.primal_tol
    BY <1>9 DEF Iterate, Converges
  <2>3. QED
    BY <1>0, <2>1, <2>2 DEF After, QualityInv
<1>10. CASE LinearSkipsCorrection
  BY <1>0, <1>10 DEF LinearSkipsCorrection, GoTo, After, QualityInv
<1>11. CASE Polish
  <2>1. /\ stage = "correct" /\ ~ Linear /\ stage' = "work"
        /\ UNCHANGED <<saved, handed, converged>>
    BY <1>11 DEF Polish
  <2>2. quality' \in Measures /\ KeptAs(quality, quality')
    <3>1. (\E q \in Measures : quality' = Polished(q)) \/ quality' = quality
      BY <1>11 DEF Polish
    <3>2. QED
      BY <1>0, <3>1, PolishKeeps, KeptAsSelf DEF QualityInv
  <2>3. QED
    BY <1>0, <2>1, <2>2 DEF After, QualityInv
<1>12. CASE BeginWork
  <2>1. /\ stage = "work" /\ stage' \in {"classify", "working"}
        /\ UNCHANGED <<quality, handed, converged>>
        /\ saved' = IF stage' = "working" THEN quality ELSE saved
    BY <1>12 DEF BeginWork
  <2>2. QED
    BY <1>0, <2>1 DEF After, QualityInv
<1>13. CASE DropLast \/ DropWorst \/ WorkStep
  <2>1. /\ stage = "working" /\ stage' = "working" /\ quality' \in {quality} \cup Measures
        /\ UNCHANGED <<saved, handed, converged>>
    BY <1>13 DEF DropLast, DropWorst, WorkStep, Working, WorkUnchanged
  <2>2. QED
    BY <1>0, <2>1 DEF After, QualityInv
<1>14. CASE EndWork
  <2>1. /\ stage = "working" /\ stage' = "classify" /\ UNCHANGED <<saved, handed, converged>>
        /\ (\E q \in Measures : quality' = Corrected(q)) \/ quality' = saved
    BY <1>14 DEF EndWork, WorkUnchanged
  <2>2. quality' = saved \/ (quality' \in Measures /\ IsVerified(quality'))
    BY <2>1 DEF Corrected
  <2>3. \A q \in handed : KeptAs(q, saved)
    BY <1>0, <2>1 DEF QualityInv
  <2>4. \A q \in handed : KeptAs(q, quality')
    BY <2>2, <2>3 DEF KeptAs
  <2>5. QED
    BY <1>0, <2>1, <2>2, <2>4 DEF After, QualityInv
<1>15. CASE Classify
  BY <1>0, <1>15 DEF Classify, After, QualityInv
<1>16. QED
  BY <1>1, <1>2, <1>3, <1>4, <1>5, <1>6, <1>7, <1>8, <1>9, <1>10, <1>11, <1>12, <1>13, <1>14,
     <1>15 DEF SolveNext, Progress

(***************************************************************************)
(* The answers.                                                            *)
(***************************************************************************)
\* Every step keeps what an answer stands for.
LEMMA AnswerStep ==
  ASSUME SolveInv, [SolveNext]_solveVars
  PROVE  AnswerInv'
<1>0. AnswerInv /\ QualityInv /\ request' = request
  BY RequestKept DEF SolveInv
<1> DEFINE Gate == IsVerified(quality')
           After ==
      /\ stage' # "done" => answer' = "NONE"
      /\ request.kind = "QP" /\ stage' \notin {"dispatch", "done"} =>
            stage' # "simplex" /\ (request.tested => request.convex)
      /\ answer' = "OPTIMAL" /\ request.kind = "QP" =>
            Gate /\ (request.tested => request.convex)
      /\ ~ Linear /\ stage' = "done" /\ handed' # {} /\ Gate => answer' = "OPTIMAL"
      /\ Linear /\ stage' \in {"iterate", "correct", "classify"} => request.engine = "FIRST_ORDER"
      /\ Linear /\ stage' = "simplex" => request.engine # "FIRST_ORDER"
      /\ Linear /\ request.engine = "FIRST_ORDER" =>
            /\ answer' # "UNBOUNDED"
            /\ answer' = "OPTIMAL" => quality'.primal <= request.primal_tol
<1>a. SUFFICES After
  BY <1>0 DEF AnswerInv, IsVerified, Linear
<1>b. ASSUME UNCHANGED <<stage, answer, quality, handed>>
      PROVE  After
  BY <1>0, <1>b DEF AnswerInv
<1>c. ASSUME stage \in {"iterate", "correct", "work", "working"},
             stage' \in {"iterate", "correct", "work", "working", "classify"}, answer' = answer,
             Linear => stage \in {"iterate", "correct"}
      PROVE  After
  BY <1>0, <1>c DEF AnswerInv
<1>d. Linear => request.kind # "QP"
  BY DEF Linear
<1>e. ASSUME stage \in {"closed", "enumerate"}, handed' = handed, quality' = quality \/ Gate,
             \/ stage' \in {"enumerate", "iterate"} /\ answer' = answer
             \/ stage' = "done" /\ answer' = "OPTIMAL" /\ Gate
             \/ stage' = "done" /\ answer' = "UNBOUNDED"
      PROVE  After
  BY <1>0, <1>e DEF AnswerInv, QualityInv
<1> HIDE DEF After
<1> USE DEF quadratic
<1>1. CASE UNCHANGED solveVars \/ ClockExpires \/ Finished
  BY <1>b, <1>1 DEF ClockExpires, Finished, solveVars
<1>2. CASE RejectEngine \/ IntervalInfeasible \/ QuadraticOnSimplex \/ RejectIndefinite \/ ToMilp
  BY <1>0, <1>d, <1>2 DEF RejectEngine, IntervalInfeasible, QuadraticOnSimplex, RejectIndefinite,
     ToMilp, Admitted, Dispatching, Return, After, QualityInv, Linear
<1>3. CASE SimplexReturns
  BY <1>0, <1>3 DEF SimplexReturns, Return, After, AnswerInv, QualityInv
<1>4. CASE ToSimplex \/ ToContinuous
  BY <1>0, <1>4 DEF ToSimplex, ToContinuous, GoTo, Admitted, Dispatching, Linear, After,
     AnswerInv
<1>5. CASE NoClosedForm
  BY <1>e, <1>5 DEF NoClosedForm, GoTo
<1>6. CASE Simplex
  BY <1>b, <1>6 DEF Simplex
<1>7. CASE DiagonalForm \/ EqualityForm
  BY <1>e, <1>7 DEF DiagonalForm, EqualityForm, HoldVerified
<1>8. CASE TryPattern
  BY <1>b, <1>8 DEF TryPattern
<1>9. CASE TooManyPatterns \/ EnumerationTimesOut \/ EnumerationEnds
  BY <1>e, <1>9 DEF TooManyPatterns, EnumerationTimesOut, EnumerationEnds, BeginLoop, HoldVerified
<1>10. CASE Iterate
  BY <1>c, <1>10 DEF Iterate
<1>11. CASE Polish \/ BeginWork
  BY <1>0, <1>c, <1>11 DEF Polish, BeginWork, QualityInv
<1>12. CASE DropLast \/ DropWorst \/ WorkStep \/ EndWork
  <2>1. stage = "working" /\ stage' \in {"working", "classify"} /\ answer' = answer
    BY <1>12 DEF DropLast, DropWorst, WorkStep, EndWork, Working, WorkUnchanged
  <2>2. QED
    BY <1>0, <1>c, <2>1 DEF QualityInv
<1>13. CASE LinearSkipsCorrection
  BY <1>0, <1>13 DEF LinearSkipsCorrection, GoTo, After, AnswerInv
<1>14. CASE Classify
  <2>1. /\ stage = "classify" /\ stage' = "done" /\ quality' = quality
        /\ answer' = IF Accepted THEN "OPTIMAL" ELSE IF late THEN "TIME_LIMIT" ELSE "ITERATION_LIMIT"
    BY <1>14 DEF Classify
  <2>2. Gate <=> IsVerified(quality)
    BY <2>1
  <2>3. /\ ~ Linear => (Accepted <=> Gate)
        /\ Linear => (Accepted <=> converged)
    BY <2>2 DEF Accepted, Flagged
  <2> HIDE DEF Gate
  <2>4. QED
    BY <1>0, <1>d, <2>1, <2>3 DEF After, AnswerInv, QualityInv
<1>15. QED
  BY <1>1, <1>2, <1>3, <1>4, <1>5, <1>6, <1>7, <1>8, <1>9, <1>10, <1>11, <1>12, <1>13, <1>14
     DEF SolveNext, Progress

(***************************************************************************)
(* The activities.                                                         *)
(***************************************************************************)
\* Every step keeps track of the point the activities are of.
LEMMA ActivityStep ==
  ASSUME SolveInv, [SolveNext]_solveVars
  PROVE  ActivityInv'
<1> USE DEF ActivityInv, quadratic
<1>0. ActivityInv /\ AnswerInv
  BY DEF SolveInv
<1>1. CASE UNCHANGED solveVars
  BY <1>0, <1>1 DEF solveVars
<1>2. CASE Finished
  BY <1>0, <1>2 DEF Finished, solveVars
<1>16. CASE ClockExpires
  BY <1>0, <1>16 DEF ClockExpires
<1>3. CASE RejectEngine \/ IntervalInfeasible \/ QuadraticOnSimplex \/ RejectIndefinite
           \/ ToMilp \/ SimplexReturns
  BY <1>0, <1>3 DEF RejectEngine, IntervalInfeasible, QuadraticOnSimplex, RejectIndefinite,
     ToMilp, SimplexReturns, Admitted, Dispatching, Return
<1>4. CASE ToSimplex \/ NoClosedForm \/ LinearSkipsCorrection
  BY <1>0, <1>4 DEF ToSimplex, NoClosedForm, LinearSkipsCorrection, GoTo, Admitted, Dispatching
<1>a. ASSUME BeginLoop, stage = "enumerate"
      PROVE  ActivityInv'
  <2>1. /\ stage' = "iterate" /\ late' = FALSE /\ answer' = "NONE"
        /\ activity' = "x" /\ converged' = FALSE
    BY <1>0, <1>a DEF BeginLoop, AnswerInv
  <2>2. QED
    BY <2>1
<1>5. CASE ToContinuous
  BY <1>0, <1>5 DEF ToContinuous, GoTo, Admitted, Dispatching
<1>17. CASE TooManyPatterns \/ EnumerationTimesOut
  BY <1>a, <1>17 DEF TooManyPatterns, EnumerationTimesOut
<1>6. CASE Simplex
  BY <1>0, <1>6 DEF Simplex
<1>7. CASE DiagonalForm \/ EqualityForm
  BY <1>0, <1>7 DEF DiagonalForm, EqualityForm, HoldVerified
<1>8. CASE TryPattern
  BY <1>0, <1>8 DEF TryPattern
<1>18. CASE EnumerationEnds
  BY <1>0, <1>a, <1>18 DEF EnumerationEnds, HoldVerified
<1>9. CASE Iterate
  <2>1. stage = "iterate" /\ answer = "NONE" /\ answer' = answer /\ late' = late
    BY <1>0, <1>9 DEF Iterate, AnswerInv
  <2>2. CASE late
    BY <1>0, <1>9, <2>1, <2>2 DEF Iterate
  <2>3. CASE ~ late
    <3>1. PICK q \in Measures, stable \in BOOLEAN :
            /\ converged' = (Checks(step') /\ stable /\ Converges(q))
            /\ activity' = IF Checks(step') THEN "x" ELSE "x_bar"
            /\ stage' = IF converged' \/ step' = Budget THEN "correct" ELSE stage
      BY <1>9, <2>3 DEF Iterate
    <3>2. step' = Budget => Checks(step')
      BY DEF Checks
    <3>3. converged' \in BOOLEAN /\ (converged' => Checks(step'))
      BY <3>1
    <3> HIDE DEF Checks
    <3>4. QED
      BY <1>0, <2>1, <3>1, <3>2, <3>3
  <2>4. QED
    BY <2>2, <2>3
<1>10. CASE Polish
  BY <1>0, <1>10 DEF Polish
<1>11. CASE BeginWork
  BY <1>0, <1>11 DEF BeginWork
<1>12. CASE DropLast \/ DropWorst \/ WorkStep
  BY <1>0, <1>12 DEF DropLast, DropWorst, WorkStep, Working, WorkUnchanged
<1>13. CASE EndWork
  BY <1>0, <1>13 DEF EndWork, WorkUnchanged
<1>14. CASE Classify
  BY <1>0, <1>14 DEF Classify, Accepted, Flagged
<1>15. QED
  BY <1>1, <1>2, <1>3, <1>4, <1>5, <1>6, <1>7, <1>8, <1>9, <1>10, <1>11, <1>12, <1>13, <1>14, <1>16,
     <1>17, <1>18
     DEF SolveNext, Progress

(***************************************************************************)
(* The working set.                                                        *)
(***************************************************************************)
\* Where a constraint would sit in the array the code allocates.
Slot(c) == IF c.kind = "column" THEN c.index ELSE NCols + c.index

\* No two constraints share a slot.
LEMMA SlotInjective ==
  ASSUME NEW c \in Constraint, NEW d \in Constraint, Slot(c) = Slot(d),
         request.equalities \subseteq Rows
  PROVE  c = d
<1>1. NCols \in Nat /\ NRows \in Nat
  BY SimplexAssumption
<1>2. \A j \in Cols : ColumnBound(j).kind = "column" /\ ColumnBound(j).index = j
  BY DEF ColumnBound
<1>3. \A i : /\ Equality(i).kind # "column" /\ Equality(i).index = i
             /\ RowBound(i).kind # "column" /\ RowBound(i).index = i
  BY DEF Equality, RowBound
<1>4. CASE c.kind = "column"
  <2>1. c.index \in Cols /\ c = ColumnBound(c.index)
    BY <1>2, <1>3, <1>4 DEF Constraint
  <2>2. CASE d.kind = "column"
    <3>1. d = ColumnBound(d.index)
      BY <1>2, <1>3, <2>2 DEF Constraint
    <3>2. QED
      BY <1>4, <2>1, <2>2, <3>1 DEF Slot
  <2>3. CASE d.kind # "column"
    <3>1. d.index \in Rows
      BY <1>2, <1>3, <2>3 DEF Constraint
    <3>2. c.index = NCols + d.index
      BY <1>4, <2>3 DEF Slot
    <3>3. QED
      BY <1>1, <2>1, <3>1, <3>2 DEF Cols, Rows
  <2>4. QED
    BY <2>2, <2>3
<1>5. CASE c.kind # "column"
  <2>1. c.index \in Rows
    BY <1>2, <1>3, <1>5 DEF Constraint
  <2>2. CASE d.kind = "column"
    <3>1. d.index \in Cols
      BY <1>2, <1>3, <2>2 DEF Constraint
    <3>2. NCols + c.index = d.index
      BY <1>5, <2>2 DEF Slot
    <3>3. QED
      BY <1>1, <2>1, <3>1, <3>2 DEF Cols, Rows
  <2>3. CASE d.kind # "column"
    <3>1. d.index \in Rows
      BY <1>2, <1>3, <2>3 DEF Constraint
    <3>2. c.index = d.index
      BY <1>1, <1>5, <2>1, <2>3, <3>1 DEF Slot, Rows
    <3>3. c = IF c.index \in request.equalities THEN Equality(c.index) ELSE RowBound(c.index)
      BY <1>2, <1>3, <1>5 DEF Constraint
    <3>4. d = IF d.index \in request.equalities THEN Equality(d.index) ELSE RowBound(d.index)
      BY <1>2, <1>3, <2>3 DEF Constraint
    <3>5. QED
      BY <3>2, <3>3, <3>4
  <2>4. QED
    BY <2>2, <2>3
<1>6. QED
  BY <1>4, <1>5

\* A list of constraints is no longer than the array.
LEMMA ListFits ==
  ASSUME NEW S \in SUBSET Constraint, NEW s, Lists(s, S), request.equalities \subseteq Rows
  PROVE  Len(s) <= NCols + NRows
<1> DEFINE n == Len(s)
           m == NCols + NRows
           f == [k \in 1 .. n |-> Slot(s[k])]
<1>1. NCols \in Nat /\ NRows \in Nat /\ m \in Nat
  BY SimplexAssumption
<1>2. n \in Nat /\ \A k \in 1 .. n : s[k] \in Constraint
  BY LenProperties, ElementOfSeq DEF Lists
<1>3. \A c \in Constraint : Slot(c) \in 1 .. m
  BY <1>1 DEF Constraint, Slot, ColumnBound, Equality, RowBound, Cols, Rows
<1>4. f \in [1 .. n -> 1 .. m]
  BY <1>2, <1>3
<1>5. ASSUME NEW a \in 1 .. n, NEW b \in 1 .. n, f[a] = f[b]
      PROVE  a = b
  <2>1. s[a] = s[b]
    BY <1>2, <1>5, SlotInjective
  <2>2. QED
    BY <2>1 DEF Lists
<1>6. CASE n > m
  <2>1. /\ IsFiniteSet(1 .. n) /\ Cardinality(1 .. n) = n
        /\ IsFiniteSet(1 .. m) /\ Cardinality(1 .. m) = m
    <3> HIDE DEF n, m
    <3>1. IsFiniteSet(1 .. n) /\ Cardinality(1 .. n) = IF 1 > n THEN 0 ELSE n - 1 + 1
      BY <1>2, FS_Interval
    <3>2. IsFiniteSet(1 .. m) /\ Cardinality(1 .. m) = IF 1 > m THEN 0 ELSE m - 1 + 1
      BY <1>1, FS_Interval
    <3>3. QED
      BY <1>1, <1>2, <3>1, <3>2
  <2> HIDE DEF n, m, f
  <2>2. \E a, b \in 1 .. n : a # b /\ f[a] = f[b]
    BY <1>1, <1>2, <1>4, <1>6, <2>1, FS_PigeonHole
  <2>3. QED
    BY <1>5, <2>2
<1>7. QED
  BY <1>1, <1>2, <1>6

\* The working set begins with the constraints the point is at.
LEMMA WorkBegins ==
  ASSUME NEW columns \in SUBSET Cols, NEW rows \in SUBSET (Rows \ request.equalities),
         request.equalities \subseteq Rows
  PROVE  \E held \in SUBSET Constraint :
            /\ Lists(AtBounds(columns, rows), held)
            /\ \A i \in request.equalities : Equality(i) \in held
<1> DEFINE C == {ColumnBound(j) : j \in columns}
           E == {Equality(i) : i \in request.equalities}
           B == {RowBound(i) : i \in rows}
<1>1. IsFiniteSet(Cols) /\ IsFiniteSet(Rows)
  BY SimplexAssumption, FS_Interval DEF Cols, Rows
<1>2. IsFiniteSet(columns) /\ IsFiniteSet(rows) /\ IsFiniteSet(request.equalities)
  BY <1>1, FS_Subset
<1>3. IsFiniteSet(C) /\ IsFiniteSet(E) /\ IsFiniteSet(B)
  <2>1. IsFiniteSet(C)
    <3> DEFINE f == [j \in columns |-> ColumnBound(j)]
    <3>1. f \in Surjection(columns, C)
      BY DEF Surjection
    <3>2. QED
      BY <1>2, <3>1, FS_Surjection DEF ExistsSurjection
  <2>2. IsFiniteSet(E)
    <3> DEFINE f == [i \in request.equalities |-> Equality(i)]
    <3>1. f \in Surjection(request.equalities, E)
      BY DEF Surjection
    <3>2. QED
      BY <1>2, <3>1, FS_Surjection DEF ExistsSurjection
  <2>3. IsFiniteSet(B)
    <3> DEFINE f == [i \in rows |-> RowBound(i)]
    <3>1. f \in Surjection(rows, B)
      BY DEF Surjection
    <3>2. QED
      BY <1>2, <3>1, FS_Surjection DEF ExistsSurjection
  <2>4. QED
    BY <2>1, <2>2, <2>3
<1>4. IsFiniteSet(E \cup B)
  BY <1>3, FS_Union
<1>5. C \cap (E \cup B) = {}
  BY DEF ColumnBound, Equality, RowBound
<1>6. Lists(SetToSeq(C), C) /\ Lists(SetToSeq(E \cup B), E \cup B)
  <2> HIDE DEF C, E, B
  <2>1. QED
    BY <1>3, <1>4, SetToSeqLists
<1>7. Lists(AtBounds(columns, rows), C \cup (E \cup B))
  <2>1. AtBounds(columns, rows) = SetToSeq(C) \o SetToSeq(E \cup B)
    BY DEF AtBounds
  <2> HIDE DEF C, E, B
  <2>2. QED
    BY <1>5, <1>6, <2>1, ConcatLists
<1>8. C \cup (E \cup B) \in SUBSET Constraint
  BY DEF Constraint
<1>9. QED
  BY <1>7, <1>8

\* A member leaves, and its flag with it.
LEMMA WorkLeaves ==
  ASSUME NEW held \in SUBSET Constraint, Lists(active, held),
         var_active = Indices(OfColumns(held)), row_active = Indices(OfRows(held)),
         \A i \in request.equalities : Equality(i) \in held,
         request.equalities \subseteq Rows,
         NEW k \in Removable, Leaves(k)
  PROVE  \E left \in SUBSET Constraint :
            /\ Lists(active', left)
            /\ var_active' = Indices(OfColumns(left))
            /\ row_active' = Indices(OfRows(left))
            /\ \A i \in request.equalities : Equality(i) \in left
<1> DEFINE d == active[k]
           left == held \ {d}
<1>1. k \in 1 .. Len(active) /\ d.kind # "equality"
  <2>1. DOMAIN active = 1 .. Len(active)
    BY ListedSet
  <2>2. QED
    BY <2>1 DEF Removable
<1>2. d \in held /\ Lists(active', left)
  BY <1>1, RemoveLists DEF Leaves
<1>3. \A i \in request.equalities : Equality(i) \in left
  <2>1. \A i : Equality(i).kind = "equality"
    BY DEF Equality
  <2> HIDE DEF d
  <2>2. QED
    BY <1>1, <2>1
<1>4. \A c \in Constraint : c.kind \in {"column", "row", "equality"}
  BY DEF Constraint, ColumnBound, RowBound, Equality
<1>5. \A c \in held : c.kind = d.kind /\ c.index = d.index => c = d
  <2>1. \A c \in Constraint : Slot(c) = Slot(d) => c = d
    BY <1>2, SlotInjective
  <2>2. QED
    BY <2>1 DEF Slot
<1>6. \A c \in held : c.kind # "column" /\ d.kind # "column" /\ c.index = d.index => c = d
  <2>1. \A c \in Constraint : Slot(c) = Slot(d) => c = d
    BY <1>2, SlotInjective
  <2>2. QED
    BY <2>1 DEF Slot
<1> HIDE DEF d
<1>7. CASE d.kind = "column"
  <2>1. var_active' = var_active \ {d.index} /\ row_active' = row_active
    BY <1>7 DEF Leaves, d
  <2>2. var_active' = Indices(OfColumns(left))
    BY <1>2, <1>5, <1>7, <2>1 DEF Indices, OfColumns
  <2>3. row_active' = Indices(OfRows(left))
    BY <1>7, <2>1 DEF Indices, OfRows
  <2>4. QED
    BY <1>2, <1>3, <2>2, <2>3
<1>8. CASE d.kind # "column"
  <2>1. d.kind = "row"
    BY <1>1, <1>2, <1>4, <1>8 DEF d
  <2>2. var_active' = var_active /\ row_active' = row_active \ {d.index}
    BY <2>1 DEF Leaves, d
  <2>3. row_active' = Indices(OfRows(left))
    BY <1>2, <1>6, <1>8, <2>2 DEF Indices, OfRows
  <2>4. var_active' = Indices(OfColumns(left))
    BY <1>8, <2>2 DEF Indices, OfColumns
  <2>5. QED
    BY <1>2, <1>3, <2>3, <2>4
<1>9. QED
  BY <1>7, <1>8

\* The flags are computed of the list.
LEMMA FlagsOfList ==
  ASSUME NEW S, NEW s, Lists(s, S), active' = s, Flags(s)
  PROVE  var_active' = Indices(OfColumns(S)) /\ row_active' = Indices(OfRows(S))
<1>1. ToSet(s) = S
  BY ListedSet
<1>2. QED
  BY <1>1 DEF Flags, Indices, OfColumns, OfRows

\* A bound that blocks a step was not in the set.
LEMMA WorkJoins ==
  ASSUME NEW held \in SUBSET Constraint, Lists(active, held),
         var_active = Indices(OfColumns(held)), row_active = Indices(OfRows(held)),
         \A i \in request.equalities : Equality(i) \in held,
         NEW c \in Blockers, Joins(c)
  PROVE  \E more \in SUBSET Constraint :
            /\ Lists(active', more)
            /\ var_active' = Indices(OfColumns(more))
            /\ row_active' = Indices(OfRows(more))
            /\ \A i \in request.equalities : Equality(i) \in more
<1>1. \A i \in request.equalities : i \in row_active
  <2>1. \A i : Equality(i).kind # "column" /\ Equality(i).index = i
    BY DEF Equality
  <2>2. QED
    BY <2>1 DEF Indices, OfRows
<1>2. c \in Constraint /\ c \notin held
  <2>1. CASE c \in {ColumnBound(j) : j \in Cols \ var_active}
    <3>1. c.kind = "column" /\ c.index \in Cols \ var_active /\ c = ColumnBound(c.index)
      BY <2>1 DEF ColumnBound
    <3>2. QED
      BY <3>1 DEF Constraint, Indices, OfColumns
  <2>2. CASE c \in {RowBound(i) : i \in Rows \ row_active}
    <3>1. c.kind # "column" /\ c.index \in Rows \ row_active /\ c = RowBound(c.index)
      BY <2>2 DEF RowBound
    <3>2. QED
      BY <1>1, <3>1 DEF Constraint, Indices, OfRows
  <2>3. QED
    BY <2>1, <2>2 DEF Blockers
<1> DEFINE more == held \cup {c}
<1>3. Lists(active', more)
  BY <1>2, AppendLists DEF Joins
<1>4. var_active' = Indices(OfColumns(more)) /\ row_active' = Indices(OfRows(more))
  BY <1>3, FlagsOfList DEF Joins, Flags
<1>5. QED
  BY <1>2, <1>3, <1>4

\* Every step keeps the working set listed.
LEMMA WorkingStep ==
  ASSUME SolveInv, [SolveNext]_solveVars
  PROVE  WorkingInv'
<1>0. WorkingInv /\ request' = request /\ request.equalities \subseteq Rows
  BY RequestKept DEF SolveInv, RequestInv
<1> DEFINE Good(list, columns, rows) ==
              \E held \in SUBSET Constraint :
                  /\ Lists(list, held)
                  /\ columns = Indices(OfColumns(held))
                  /\ rows = Indices(OfRows(held))
                  /\ \A i \in request.equalities : Equality(i) \in held
<1>a. stage = "working" => Good(active, var_active, row_active)
  BY <1>0 DEF WorkingInv
<1>b. ASSUME stage' = "working" => Good(active', var_active', row_active')
      PROVE  WorkingInv'
  BY <1>0, <1>b DEF WorkingInv, Constraint
<1> HIDE DEF Good
<1> USE DEF quadratic
<1>1. CASE UNCHANGED solveVars
  BY <1>a, <1>b, <1>1 DEF solveVars
<1>2. CASE ClockExpires \/ Finished
  BY <1>a, <1>b, <1>2 DEF ClockExpires, Finished, solveVars
<1>3. CASE RejectEngine \/ IntervalInfeasible \/ QuadraticOnSimplex \/ RejectIndefinite
           \/ ToMilp \/ SimplexReturns
  BY <1>b, <1>3 DEF RejectEngine, IntervalInfeasible, QuadraticOnSimplex, RejectIndefinite,
     ToMilp, SimplexReturns, Return
<1>4. CASE ToSimplex \/ ToContinuous \/ NoClosedForm \/ TooManyPatterns \/ LinearSkipsCorrection
  BY <1>b, <1>4 DEF ToSimplex, ToContinuous, NoClosedForm, TooManyPatterns,
     LinearSkipsCorrection, GoTo, BeginLoop
<1>5. CASE Simplex
  BY <1>b, <1>5 DEF Simplex
<1>6. CASE DiagonalForm \/ EqualityForm
  BY <1>b, <1>6 DEF DiagonalForm, EqualityForm
<1>7. CASE TryPattern \/ EnumerationTimesOut \/ EnumerationEnds
  BY <1>b, <1>7 DEF TryPattern, EnumerationTimesOut, EnumerationEnds, BeginLoop
<1>8. CASE Iterate
  BY <1>b, <1>8 DEF Iterate
<1>9. CASE Polish
  BY <1>b, <1>9 DEF Polish
<1>10. CASE BeginWork
  <2>1. SUFFICES ASSUME stage' = "working"
                 PROVE  Good(active', var_active', row_active')
    BY <1>b
  <2>2. PICK columns \in SUBSET Cols, rows \in SUBSET (Rows \ request.equalities) :
           active' = AtBounds(columns, rows)
    BY <1>10, <2>1 DEF BeginWork
  <2>3. Flags(active')
    BY <1>10, <2>1 DEF BeginWork
  <2>4. PICK held \in SUBSET Constraint :
           /\ Lists(active', held)
           /\ \A i \in request.equalities : Equality(i) \in held
    BY <1>0, <2>2, WorkBegins
  <2>5. var_active' = Indices(OfColumns(held)) /\ row_active' = Indices(OfRows(held))
    BY <2>3, <2>4, FlagsOfList
  <2>6. QED
    BY <2>4, <2>5 DEF Good
<1>11. CASE DropLast \/ DropWorst
  <2>1. stage = "working" /\ \E k \in Removable : Leaves(k)
    BY <1>11 DEF DropLast, DropWorst, Working
  <2>2. Good(active', var_active', row_active')
    BY <1>0, <1>a, <2>1, WorkLeaves DEF Good
  <2>3. QED
    BY <1>b, <2>2
<1>12. CASE WorkStep
  <2>1. stage = "working"
    BY <1>12 DEF WorkStep, Working
  <2>2. CASE \E c \in Blockers : Joins(c)
    <3>1. Good(active', var_active', row_active')
      BY <1>a, <2>1, <2>2, WorkJoins DEF Good
    <3>2. QED
      BY <1>b, <3>1
  <2>3. CASE UNCHANGED <<active, var_active, row_active>>
    BY <1>a, <1>b, <2>1, <2>3
  <2>4. QED
    BY <1>12, <2>2, <2>3 DEF WorkStep
<1>13. CASE EndWork \/ Classify
  BY <1>b, <1>13 DEF EndWork, Classify
<1>14. QED
  BY <1>1, <1>2, <1>3, <1>4, <1>5, <1>6, <1>7, <1>8, <1>9, <1>10, <1>11, <1>12, <1>13
     DEF SolveNext, Progress

(***************************************************************************)
(* What the invariant says of the basis.                                   *)
(***************************************************************************)
\* The basis lists as many variables as there are rows, the marks are theirs,
\* and the activities are the values of the logicals.
LEMMA ShapeIsExact ==
  ASSUME ShapeInv
  PROVE  BasisExact /\ NonbasicAtBound
<1>1. TypeOK /\ problem \in Problems /\ Nonsingular(basis) /\ basis \in [Rows -> Vars]
  BY DEF ShapeInv, TypeOK
<1> SUFFICES ASSUME Running
             PROVE  /\ Cardinality(Basic) = NRows
                    /\ \A v \in Vars : stat[v] = "BASIC" <=> v \in Basic
                    /\ ~ drifted => \A i \in Rows : Activity(i) = xval[NCols + i]
                    /\ NonbasicAtBound
  BY DEF BasisExact, NonbasicAtBound
<1>2. Seated
  BY DEF ShapeInv
<1>3. Cardinality(Basic) = NRows
  <2> DEFINE f == [k \in Rows |-> basis[k]]
  <2>1. \A k, l \in Rows : basis[k] = basis[l] => k = l
    BY <1>1, NonsingularInjective DEF Nonsingular
  <2>2. f \in Bijection(Rows, Basic)
    <3>1. f \in [Rows -> Basic] /\ \A k \in Rows : f[k] = basis[k]
      BY DEF Basic
    <3>2. \A v \in Basic : \E k \in Rows : f[k] = v
      BY DEF Basic
    <3> HIDE DEF f
    <3>3. \A k, l \in Rows : f[k] = f[l] => k = l
      BY <2>1, <3>1
    <3>4. QED
      BY <3>1, <3>2, <3>3 DEF Bijection, Injection, Surjection, IsInjective
  <2>3. ExistsBijection(Rows, Basic)
    BY <2>2 DEF ExistsBijection
  <2>4. QED
    BY <2>3, FS_Bijection, IndicesFinite
<1>4. \A v \in Vars : stat[v] = "BASIC" <=> v \in Basic
  BY <1>2 DEF Seated, BasicMarked, NonbasicMarked
<1>5. ~ drifted => \A i \in Rows : Activity(i) = xval[NCols + i]
  BY <1>1, <1>2, ActivityIsLogical DEF Seated
<1>6. NonbasicAtBound
  <2> SUFFICES ASSUME NEW v \in Vars \ Basic
               PROVE  xval[v] = CASE stat[v] = "LOWER" -> lb[v] [] stat[v] = "UPPER" -> ub[v]
                                  [] OTHER -> 0
    BY DEF NonbasicAtBound
  <2>1. stat[v] \in {"BASIC", "LOWER", "UPPER", "FREE"}
    BY <1>1 DEF TypeOK
  <2>2. /\ stat[v] = "LOWER" => xval[v] = lb[v]
        /\ stat[v] = "UPPER" => xval[v] = ub[v]
        /\ stat[v] = "FREE" => xval[v] = 0
        /\ stat[v] # "BASIC"
    BY <1>2 DEF Seated, NonbasicMarked
  <2>3. QED
    BY <2>1, <2>2
<1>7. QED
  BY <1>3, <1>4, <1>5, <1>6

(***************************************************************************)
(* The interval test.                                                      *)
(***************************************************************************)
\* A sum of scaled terms bounds the sum of the terms.
LEMMA FarBelow ==
  ASSUME NEW n \in Nat \ {0}, NEW e \in Int, NEW s \in Nat \ {0}, 2 * n * e >= (-s) * n
  PROVE  e > -s
<1> SUFFICES ASSUME e <= -s
             PROVE  FALSE
  OBVIOUS
<1> DEFINE d == -(2 * e + s)
<1>1. d \in Nat \ {0}
  OBVIOUS
<1>2. n * d > 0 /\ n * d = (-s) * n - 2 * n * e
  OBVIOUS
<1>3. QED
  BY <1>2

\* A value an end of a row's columns has, when each is finite, is itself finite.
LEMMA ExtremeFinite ==
  ASSUME problem \in Problems, NEW i \in Rows, NEW end \in [Cols -> Int],
         AllFinite(i, end), \A j \in Cols : Finite(end[j]) => 2 * NCols * Size(end[j]) < Infinite
  PROVE  Extreme(i, end) \in Int /\ -Infinite < Extreme(i, end) /\ Extreme(i, end) < Infinite
<1> DEFINE f == [j \in Cols |-> problem.A[i][j] * end[j]]
           E == Entries(i)
           g == [j \in Cols |-> IF j \in E THEN (2 * NCols) * f[j] ELSE 0]
           low == [j \in Cols |-> -Infinite]
           high == [j \in Cols |-> Infinite]
<1>1. /\ NCols \in Nat \ {0} /\ Infinite \in Nat \ {0} /\ IsFiniteSet(Cols) /\ Cardinality(Cols) = NCols
      /\ E \in SUBSET Cols /\ IsFiniteSet(E)
  BY IndicesFinite, SimplexAssumption, FS_Subset DEF Entries
<1>2. ASSUME NEW j \in Cols
      PROVE  /\ f[j] \in Int /\ g[j] \in Int
             /\ -Infinite <= g[j] /\ g[j] <= Infinite
  <2>1. problem.A[i][j] \in {-1, 0, 1} /\ end[j] \in Int
    BY ProblemType
  <2>2. f[j] \in Int /\ (2 * NCols) * f[j] \in Int
    BY <1>1, <2>1
  <2>3. CASE j \notin E
    BY <1>1, <2>2, <2>3
  <2>4. CASE j \in E
    <3>1. 2 * NCols * Size(end[j]) < Infinite
      BY <2>4 DEF AllFinite
    <3>2. f[j] \in {-end[j], end[j], 0}
      BY <2>1
    <3>3. (2 * NCols) * f[j] \in {2 * NCols * Size(end[j]), -(2 * NCols * Size(end[j])), 0}
          /\ Size(end[j]) \in Nat
      BY <1>1, <2>1, <3>2 DEF Size
    <3>4. 2 * NCols * Size(end[j]) \in Nat
      BY <1>1, <3>3
    <3>5. g[j] = (2 * NCols) * f[j]
      BY <2>4
    <3> HIDE DEF f, g
    <3>6. QED
      BY <1>1, <2>2, <3>1, <3>3, <3>4, <3>5
  <2>5. QED
    BY <2>3, <2>4
<1>3. \A j \in Cols : low[j] = -Infinite /\ high[j] = Infinite
  OBVIOUS
<1>4. Extreme(i, end) = Sum(f, E)
  BY DEF Extreme
<1>5. /\ \A j \in E : g[j] = (2 * NCols) * f[j]
      /\ \A j \in Cols \ E : g[j] = 0
  BY <1>1
<1> HIDE DEF f, g, low, high, E
<1>6. Sum(f, E) \in Int
  BY <1>1, <1>2, SumType
<1>7. Sum(g, Cols) = (2 * NCols) * Sum(f, E)
  <2>1. Sum(g, Cols) = Sum(g, E)
    BY <1>1, <1>2, <1>5, SumSupport
  <2>2. 2 * NCols \in Int /\ \A j \in E : f[j] \in Int /\ g[j] = (2 * NCols) * f[j]
    BY <1>1, <1>2, <1>5
  <2>3. Sum(g, E) = (2 * NCols) * Sum(f, E)
    BY <1>1, <2>2, SumScaled
  <2>4. QED
    BY <2>1, <2>3
<1>8. Sum(low, Cols) = (-Infinite) * NCols /\ Sum(high, Cols) = Infinite * NCols
  <2>1. -Infinite \in Int /\ Infinite \in Int
    BY <1>1
  <2>2. QED
    BY <1>1, <1>3, <2>1, SumConstant
<1>9. Sum(low, Cols) <= Sum(g, Cols) /\ Sum(g, Cols) <= Sum(high, Cols)
  <2>1. \A j \in Cols : /\ low[j] \in Int /\ high[j] \in Int /\ g[j] \in Int
                        /\ low[j] <= g[j] /\ g[j] <= high[j]
    BY <1>1, <1>2, <1>3
  <2>2. QED
    BY <1>1, <2>1, SumMonotone
<1> DEFINE e == Sum(f, E)
<1>10. e \in Int /\ (-Infinite) * NCols <= (2 * NCols) * e /\ (2 * NCols) * e <= Infinite * NCols
  BY <1>6, <1>7, <1>8, <1>9
<1> HIDE DEF e
<1>11. e > -Infinite
  <2>1. 2 * NCols * e >= (-Infinite) * NCols
    BY <1>1, <1>10
  <2>2. QED
    BY <1>1, <1>10, <2>1, FarBelow
<1>12. -e > -Infinite
  <2>1. -e \in Int /\ 2 * NCols * (-e) >= (-Infinite) * NCols
    BY <1>1, <1>10
  <2>2. QED
    BY <1>1, <2>1, FarBelow
<1>13. QED
  BY <1>1, <1>4, <1>10, <1>11, <1>12 DEF e

\* The activity of a row at a point is between those of the ends that are finite.
LEMMA ProductBetween ==
  ASSUME problem \in Problems, NEW i \in Rows, NEW p \in [Cols -> Int],
         \A j \in Cols : Within(p[j], problem.col[j])
  PROVE  /\ Product(problem.A[i], p) \in Int
         /\ AllFinite(i, MaxTerm(i)) => Product(problem.A[i], p) <= Extreme(i, MaxTerm(i))
         /\ AllFinite(i, MinTerm(i)) => Extreme(i, MinTerm(i)) <= Product(problem.A[i], p)
<1> DEFINE f == [j \in Cols |-> problem.A[i][j] * p[j]]
           most == [j \in Cols |-> problem.A[i][j] * MaxTerm(i)[j]]
           least == [j \in Cols |-> problem.A[i][j] * MinTerm(i)[j]]
           E == Entries(i)
<1>1. IsFiniteSet(Cols) /\ E \in SUBSET Cols /\ IsFiniteSet(E)
  BY IndicesFinite, FS_Subset DEF Entries
<1>2. \A j \in Cols : /\ problem.A[i][j] \in {-1, 0, 1} /\ p[j] \in Int
                      /\ problem.col[j].lo \in Int /\ problem.col[j].hi \in Int
  BY ProblemType DEF BoundsOK
<1>3. \A j \in Cols : f[j] \in Int /\ most[j] \in Int /\ least[j] \in Int
  BY <1>2 DEF MaxTerm, MinTerm
<1>4. \A j \in Cols \ E : f[j] = 0
  BY <1>2 DEF Entries
<1>5. Product(problem.A[i], p) = Sum(f, E) /\ Product(problem.A[i], p) \in Int
  <2>1. Product(problem.A[i], p) = Sum(f, Cols)
    BY DEF Product
  <2> HIDE DEF f, E
  <2>2. Sum(f, Cols) = Sum(f, E) /\ Sum(f, Cols) \in Int
    BY <1>1, <1>3, <1>4, SumSupport, SumType
  <2>3. QED
    BY <2>1, <2>2
<1>6. Extreme(i, MaxTerm(i)) = Sum(most, E) /\ Extreme(i, MinTerm(i)) = Sum(least, E)
  BY DEF Extreme
<1>7. ASSUME AllFinite(i, MaxTerm(i))
      PROVE  Sum(f, E) <= Sum(most, E)
  <2>1. ASSUME NEW j \in E
        PROVE  f[j] <= most[j]
    <3>1. j \in Cols /\ problem.A[i][j] \in {-1, 1} /\ Finite(MaxTerm(i)[j])
      BY <1>2, <1>7 DEF AllFinite, Entries
    <3>2. CASE problem.A[i][j] = 1
      BY <1>2, <3>1, <3>2 DEF MaxTerm, Within
    <3>3. CASE problem.A[i][j] = -1
      BY <1>2, <3>1, <3>3 DEF MaxTerm, Within
    <3>4. QED
      BY <3>1, <3>2, <3>3
  <2> HIDE DEF f, most, E
  <2>2. QED
    BY <1>1, <1>3, <2>1, SumMonotone
<1>8. ASSUME AllFinite(i, MinTerm(i))
      PROVE  Sum(least, E) <= Sum(f, E)
  <2>1. ASSUME NEW j \in E
        PROVE  least[j] <= f[j]
    <3>1. j \in Cols /\ problem.A[i][j] \in {-1, 1} /\ Finite(MinTerm(i)[j])
      BY <1>2, <1>8 DEF AllFinite, Entries
    <3>2. CASE problem.A[i][j] = 1
      BY <1>2, <3>1, <3>2 DEF MinTerm, Within
    <3>3. CASE problem.A[i][j] = -1
      BY <1>2, <3>1, <3>3 DEF MinTerm, Within
    <3>4. QED
      BY <3>1, <3>2, <3>3
  <2> HIDE DEF f, least, E
  <2>2. QED
    BY <1>1, <1>3, <2>1, SumMonotone
<1>9. QED
  BY <1>5, <1>6, <1>7, <1>8

\* A row whose activity cannot meet its bounds leaves no point.
LEMMA IntervalExcludes ==
  ASSUME problem \in Problems, IntervalImpossible
  PROVE  NoPoint
<1> SUFFICES ASSUME NEW p \in Points, Satisfies(p)
             PROVE  FALSE
  BY DEF NoPoint
<1>1. p \in [Cols -> Int] /\ (\A j \in Cols : Within(p[j], problem.col[j]))
      /\ \A i \in Rows : Within(Product(problem.A[i], p), problem.row[i])
  BY PointType DEF Satisfies
<1>2. \A j \in Cols : BoundsOK(problem.col[j])
  BY ProblemType
<1>3. \A j \in Cols : problem.col[j].lo <= problem.col[j].hi
  BY <1>2 DEF BoundsOK
<1>4. PICK i \in Rows : \/ AllFinite(i, MaxTerm(i)) /\ problem.row[i].lo > Extreme(i, MaxTerm(i))
                        \/ AllFinite(i, MinTerm(i)) /\ problem.row[i].hi < Extreme(i, MinTerm(i))
  <2>1. \A j \in Cols : problem.col[j].lo \in Int /\ problem.col[j].hi \in Int
    BY <1>2 DEF BoundsOK
  <2>2. QED
    BY <1>3, <2>1 DEF IntervalImpossible
<1>5. \A j \in Cols : /\ MaxTerm(i)[j] \in {problem.col[j].lo, problem.col[j].hi}
                      /\ MinTerm(i)[j] \in {problem.col[j].lo, problem.col[j].hi}
  BY DEF MaxTerm, MinTerm
<1>6. /\ MaxTerm(i) \in [Cols -> Int] /\ MinTerm(i) \in [Cols -> Int]
      /\ \A j \in Cols : Finite(MaxTerm(i)[j]) => 2 * NCols * Size(MaxTerm(i)[j]) < Infinite
      /\ \A j \in Cols : Finite(MinTerm(i)[j]) => 2 * NCols * Size(MinTerm(i)[j]) < Infinite
  <2>1. \A j \in Cols : problem.col[j].lo \in Int /\ problem.col[j].hi \in Int
    BY <1>2 DEF BoundsOK
  <2>2. MaxTerm(i) \in [Cols -> Int] /\ MinTerm(i) \in [Cols -> Int]
    BY <2>1 DEF MaxTerm, MinTerm
  <2>3. \A j \in Cols : \A n \in {problem.col[j].lo, problem.col[j].hi} :
           Finite(n) => 2 * NCols * Size(n) < Infinite
    BY <1>2 DEF BoundsOK
  <2>4. QED
    BY <1>5, <2>2, <2>3
<1>7. problem.row[i].lo \in Int /\ problem.row[i].hi \in Int
      /\ problem.row[i].lo < Infinite /\ problem.row[i].hi > -Infinite /\ Infinite \in Nat \ {0}
  BY ProblemType, SimplexAssumption DEF BoundsOK
<1>8. Product(problem.A[i], p) \in Int
  BY <1>1, ProductBetween
<1>9. CASE AllFinite(i, MaxTerm(i)) /\ problem.row[i].lo > Extreme(i, MaxTerm(i))
  <2>1. Extreme(i, MaxTerm(i)) \in Int /\ -Infinite < Extreme(i, MaxTerm(i))
    BY <1>6, <1>9, ExtremeFinite
  <2>2. Product(problem.A[i], p) <= Extreme(i, MaxTerm(i))
    BY <1>1, <1>9, ProductBetween
  <2>3. Finite(problem.row[i].lo)
    BY <1>7, <1>9, <2>1 DEF Finite, Size
  <2>4. problem.row[i].lo <= Product(problem.A[i], p)
    BY <1>1, <2>3 DEF Within
  <2>5. QED
    BY <1>7, <1>8, <1>9, <2>1, <2>2, <2>4
<1>10. CASE AllFinite(i, MinTerm(i)) /\ problem.row[i].hi < Extreme(i, MinTerm(i))
  <2>1. Extreme(i, MinTerm(i)) \in Int /\ Extreme(i, MinTerm(i)) < Infinite
    BY <1>6, <1>10, ExtremeFinite
  <2>2. Extreme(i, MinTerm(i)) <= Product(problem.A[i], p)
    BY <1>1, <1>10, ProductBetween
  <2>3. Finite(problem.row[i].hi)
    BY <1>7, <1>10, <2>1 DEF Finite, Size
  <2>4. Product(problem.A[i], p) <= problem.row[i].hi
    BY <1>1, <2>3 DEF Within
  <2>5. QED
    BY <1>7, <1>8, <1>10, <2>1, <2>2, <2>4
<1>11. QED
  BY <1>4, <1>9, <1>10

(***************************************************************************)
(* The invariant of the dispatch around the simplex.                       *)
(***************************************************************************)
Stages == {"dispatch", "simplex", "closed", "enumerate", "iterate", "correct",
           "work", "working", "classify", "done"}
Answers == Results \cup {"NONE", "ERR_ARG", "ERR_UNSUPPORTED", "NODE_LIMIT"}

\* The types of what the dispatch and the quadratic engines keep.
DispatchTypes ==
    /\ stage \in Stages /\ answer \in Answers
    /\ best \in {NoBest, 1, 2} /\ step \in Nat /\ activity \in {"x", "x_bar"}
    /\ var_active \subseteq Cols /\ row_active \subseteq Rows

\* A linear problem answered INFEASIBLE, by the simplex or before it, has no point.
InfeasibleInv == answer = "INFEASIBLE" /\ Linear /\ ~ drifted => NoPoint

\* An LP that the simplex was asked for is answered OPTIMAL or UNBOUNDED by it.
SimplexAnswered ==
    Linear /\ request.engine # "FIRST_ORDER" /\ answer \in {"OPTIMAL", "UNBOUNDED"} =>
        result = answer

SolvedInv == SolveInv /\ SimplexInv /\ DispatchTypes /\ InfeasibleInv /\ SimplexAnswered

\* A step of the dispatch leaves the simplex alone or is one of it.
LEMMA SimplexInside ==
  ASSUME [SolveNext]_solveVars
  PROVE  UNCHANGED vars \/ (Simplex /\ Solving)
<1>1. CASE UNCHANGED solveVars
  BY <1>1 DEF solveVars
<1>2. CASE ClockExpires \/ Finished
  BY <1>2 DEF ClockExpires, Finished, solveVars
<1>3. CASE Progress
  BY <1>3 DEF Progress, RejectEngine, IntervalInfeasible, ToSimplex, QuadraticOnSimplex,
     RejectIndefinite, ToContinuous, ToMilp, Simplex, SimplexReturns, DiagonalForm, EqualityForm,
     NoClosedForm, TooManyPatterns, TryPattern, EnumerationTimesOut, EnumerationEnds, Iterate,
     LinearSkipsCorrection, Polish, BeginWork, DropLast, DropWorst,
     WorkStep, EndWork, Classify, Return, GoTo, WorkUnchanged, BeginLoop
<1>4. QED
  BY <1>1, <1>2, <1>3 DEF SolveNext

\* The flags of a working set are of columns and rows.
FlagsOK == stage = "working" => var_active \subseteq Cols /\ row_active \subseteq Rows

\* The flags of a working set are of columns and rows.
LEMMA FlagsTyped == SolveInv => FlagsOK
<1> SUFFICES ASSUME WorkingInv, stage = "working", request.equalities \subseteq Rows
             PROVE  var_active \subseteq Cols /\ row_active \subseteq Rows
  BY DEF SolveInv, RequestInv, FlagsOK
<1>1. PICK held \in SUBSET Constraint :
          var_active = Indices(OfColumns(held)) /\ row_active = Indices(OfRows(held))
  BY DEF WorkingInv
<1>2. ASSUME NEW c \in held
      PROVE  (c.kind = "column" => c.index \in Cols) /\ (c.kind # "column" => c.index \in Rows)
  BY <1>2 DEF Constraint, ColumnBound, Equality, RowBound
<1>3. QED
  BY <1>1, <1>2 DEF Indices, OfColumns, OfRows

\* Outside the working set the flags are not written.
LEMMA FlagsKept ==
  ASSUME [SolveNext]_solveVars
  PROVE  stage' = "working" \/ (var_active' = var_active /\ row_active' = row_active)
<1> USE DEF quadratic
<1>1. CASE UNCHANGED solveVars
  BY <1>1 DEF solveVars
<1>2. CASE ClockExpires \/ Finished
  BY <1>2 DEF ClockExpires, Finished, solveVars
<1>3. CASE BeginWork \/ DropLast \/ DropWorst \/ WorkStep \/ EndWork
  BY <1>3 DEF BeginWork, DropLast, DropWorst, WorkStep, EndWork, Working
<1>4. CASE \/ RejectEngine \/ IntervalInfeasible \/ ToSimplex \/ QuadraticOnSimplex
           \/ RejectIndefinite \/ ToContinuous \/ ToMilp \/ Simplex \/ SimplexReturns
           \/ DiagonalForm \/ EqualityForm \/ NoClosedForm \/ TooManyPatterns \/ TryPattern
           \/ EnumerationTimesOut \/ EnumerationEnds \/ Iterate \/ LinearSkipsCorrection
           \/ Polish \/ Classify
  BY <1>4 DEF RejectEngine, IntervalInfeasible, ToSimplex, QuadraticOnSimplex,
     RejectIndefinite, ToContinuous, ToMilp, Simplex, SimplexReturns, DiagonalForm, EqualityForm,
     NoClosedForm, TooManyPatterns, TryPattern, EnumerationTimesOut, EnumerationEnds, Iterate,
     LinearSkipsCorrection, Polish, Classify, Return, GoTo, HoldVerified, BeginLoop
<1>5. QED
  BY <1>1, <1>2, <1>3, <1>4 DEF SolveNext, Progress

\* Every step keeps the types of the dispatch.
LEMMA TypesStep ==
  ASSUME SolvedInv, [SolveNext]_solveVars, SolveInv'
  PROVE  DispatchTypes'
<1>0. DispatchTypes /\ TypeOK /\ (pc = "done" => result # "NOT_RUN")
  BY DEF SolvedInv, SimplexInv, ShapeInv, ClaimInv
<1>1. var_active' \subseteq Cols /\ row_active' \subseteq Rows
  <2>1. CASE stage' = "working"
    <3>1. FlagsOK'
      BY FlagsTyped, PTL
    <3>2. QED
      BY <2>1, <3>1 DEF FlagsOK, Cols, Rows
  <2>2. CASE stage' # "working"
    BY <1>0, <2>2, FlagsKept DEF DispatchTypes
  <2>3. QED
    BY <2>1, <2>2
<1> DEFINE Rest == /\ stage' \in Stages /\ answer' \in Answers
                   /\ best' \in {NoBest, 1, 2} /\ step' \in Nat /\ activity' \in {"x", "x_bar"}
<1>2. SUFFICES Rest
  BY <1>1 DEF DispatchTypes, Cols, Rows
<1>3. /\ stage \in Stages /\ answer \in Answers
      /\ best \in {NoBest, 1, 2} /\ step \in Nat /\ activity \in {"x", "x_bar"}
  BY <1>0 DEF DispatchTypes
<1> USE DEF quadratic, Stages, Answers, Results
<1>4. CASE UNCHANGED solveVars
  BY <1>3, <1>4 DEF solveVars
<1>5. CASE ClockExpires \/ Finished
  BY <1>3, <1>5 DEF ClockExpires, Finished, solveVars
<1>6. CASE RejectEngine \/ IntervalInfeasible \/ QuadraticOnSimplex \/ RejectIndefinite \/ ToMilp
  BY <1>3, <1>6 DEF RejectEngine, IntervalInfeasible, QuadraticOnSimplex, RejectIndefinite,
     ToMilp, Return
<1>7. CASE SimplexReturns
  <2>1. answer' \in Results
    BY <1>0, <1>7 DEF SimplexReturns, Return, TypeOK
  <2>2. QED
    BY <1>3, <1>7, <2>1 DEF SimplexReturns, Return
<1>8. CASE ToSimplex \/ ToContinuous \/ NoClosedForm \/ TooManyPatterns \/ LinearSkipsCorrection
  BY <1>3, <1>8 DEF ToSimplex, ToContinuous, NoClosedForm, TooManyPatterns,
     LinearSkipsCorrection, GoTo, BeginLoop
<1>9. CASE Simplex
  BY <1>3, <1>9 DEF Simplex
<1>10. CASE DiagonalForm \/ EqualityForm
  BY <1>3, <1>10 DEF DiagonalForm, EqualityForm, HoldVerified
<1>11. CASE TryPattern
  <2>1. PICK obj \in {NoBest, 1, 2} : best' = Min({best, obj})
    BY <1>11 DEF TryPattern
  <2>2. best \in Int /\ obj \in Int
    BY <1>3, <2>1 DEF NoBest
  <2>3. best' \in {best, obj}
    BY <2>1, <2>2, PairExtremes
  <2>4. best' \in {NoBest, 1, 2}
    BY <1>3, <2>1, <2>3
  <2>5. step' = step + 1 /\ stage' = stage /\ answer' = answer /\ activity' = activity
    BY <1>11 DEF TryPattern
  <2>6. QED
    BY <1>3, <2>4, <2>5
<1>12. CASE EnumerationTimesOut \/ EnumerationEnds
  BY <1>3, <1>12 DEF EnumerationTimesOut, EnumerationEnds, BeginLoop, HoldVerified
<1>13. CASE Iterate
  BY <1>3, <1>13 DEF Iterate
<1>14. CASE Polish
  BY <1>3, <1>14 DEF Polish
<1>15. CASE BeginWork
  BY <1>3, <1>15 DEF BeginWork
<1>16. CASE DropLast \/ DropWorst \/ WorkStep \/ EndWork
  <2>1. step' \in {step, step + 1} /\ answer' = answer /\ best' = best /\ activity' = activity
    BY <1>16 DEF DropLast, DropWorst, WorkStep, EndWork, WorkUnchanged
  <2>2. stage' \in {stage, "classify"}
    BY <1>16 DEF DropLast, DropWorst, WorkStep, EndWork
  <2>3. QED
    BY <1>3, <2>1, <2>2
<1>17. CASE Classify
  BY <1>3, <1>17 DEF Classify
<1>18. QED
  BY <1>4, <1>5, <1>6, <1>7, <1>8, <1>9, <1>10, <1>11, <1>12, <1>13, <1>14, <1>15, <1>16, <1>17
     DEF SolveNext, Progress

\* Who answers INFEASIBLE, and why.
LEMMA InfeasibleStep ==
  ASSUME SolvedInv, [SolveNext]_solveVars
  PROVE  InfeasibleInv'
<1>0. /\ InfeasibleInv /\ request' = request /\ problem' = problem /\ problem \in Problems
      /\ (stage # "done" => answer = "NONE")
  BY RequestKept, SimplexInside, ModelKept DEF SolvedInv, SolveInv, AnswerInv, SimplexInv, ShapeInv, TypeOK
<1> SUFFICES ASSUME answer' = "INFEASIBLE", Linear, ~ drifted'
             PROVE  NoPoint
  BY <1>0, NoPointKept DEF InfeasibleInv, Linear
<1> USE DEF quadratic
<1>1. CASE UNCHANGED <<vars, answer>>
  BY <1>0, <1>1 DEF InfeasibleInv, vars, spx
<1>2. CASE IntervalInfeasible
  BY <1>0, <1>2, IntervalExcludes DEF IntervalInfeasible
<1>3. CASE SimplexReturns
  <2>1. result = "INFEASIBLE" /\ ~ drifted
    BY <1>3 DEF SimplexReturns, Return, vars, spx
  <2>2. QED
    BY <2>1 DEF SolvedInv, SimplexInv, ClaimInv
<1>4. CASE ToMilp
  BY <1>4 DEF ToMilp, Linear
<1>5. CASE Simplex
  BY <1>0, <1>5 DEF Simplex
<1>6. CASE RejectEngine \/ QuadraticOnSimplex \/ RejectIndefinite
  BY <1>6 DEF RejectEngine, QuadraticOnSimplex, RejectIndefinite, Return
<1>7. CASE DiagonalForm \/ EqualityForm \/ EnumerationEnds \/ Classify
  BY <1>0, <1>1, <1>7 DEF DiagonalForm, EqualityForm, EnumerationEnds, BeginLoop, Classify
<1>8. CASE UNCHANGED solveVars \/ ClockExpires \/ Finished
  BY <1>1, <1>8 DEF ClockExpires, Finished, solveVars
<1>9. CASE ToSimplex \/ ToContinuous \/ NoClosedForm \/ TooManyPatterns \/ LinearSkipsCorrection
  BY <1>1, <1>9 DEF ToSimplex, ToContinuous, NoClosedForm, TooManyPatterns,
     LinearSkipsCorrection, GoTo, BeginLoop
<1>10. CASE \/ TryPattern \/ EnumerationTimesOut \/ Iterate \/ Polish
            \/ BeginWork \/ DropLast \/ DropWorst \/ WorkStep \/ EndWork
  BY <1>1, <1>10 DEF TryPattern, EnumerationTimesOut, BeginLoop, Iterate, Polish,
     BeginWork, DropLast, DropWorst, WorkStep, EndWork, WorkUnchanged
<1>11. QED
  BY <1>2, <1>3, <1>4, <1>5, <1>6, <1>7, <1>8, <1>9, <1>10 DEF SolveNext, Progress

\* Who answers OPTIMAL and UNBOUNDED of a linear problem.
LEMMA SimplexAnswers ==
  ASSUME SolvedInv, [SolveNext]_solveVars
  PROVE  SimplexAnswered'
<1>0. /\ SimplexAnswered /\ AnswerInv /\ QualityInv /\ request' = request
  BY RequestKept DEF SolvedInv, SolveInv
<1> SUFFICES ASSUME answer' \in {"OPTIMAL", "UNBOUNDED"}, Linear, request.engine # "FIRST_ORDER"
             PROVE  result' = answer'
  BY <1>0 DEF SimplexAnswered, Linear
<1>1. CASE UNCHANGED <<vars, answer>>
  BY <1>0, <1>1 DEF SimplexAnswered, vars
<1>2. CASE SimplexReturns
  BY <1>2 DEF SimplexReturns, Return, vars
<1>3. CASE RejectEngine \/ IntervalInfeasible \/ QuadraticOnSimplex \/ RejectIndefinite
  BY <1>3 DEF RejectEngine, IntervalInfeasible, QuadraticOnSimplex, RejectIndefinite, Return
<1>4. CASE ToMilp
  BY <1>4 DEF ToMilp, Linear
<1>5. CASE Simplex
  BY <1>0, <1>5 DEF Simplex, AnswerInv
<1>6. CASE DiagonalForm \/ EqualityForm \/ EnumerationEnds
  BY <1>0, <1>6 DEF DiagonalForm, EqualityForm, EnumerationEnds, QualityInv
<1>7. CASE Classify
  BY <1>0, <1>7 DEF Classify, AnswerInv
<1>8. CASE UNCHANGED solveVars \/ ClockExpires \/ Finished
  BY <1>1, <1>8 DEF ClockExpires, Finished, solveVars
<1>9. CASE ToSimplex \/ ToContinuous \/ NoClosedForm \/ TooManyPatterns \/ LinearSkipsCorrection
  BY <1>1, <1>9 DEF ToSimplex, ToContinuous, NoClosedForm, TooManyPatterns,
     LinearSkipsCorrection, GoTo, BeginLoop
<1>10. CASE \/ TryPattern \/ EnumerationTimesOut \/ Iterate \/ Polish
            \/ BeginWork \/ DropLast \/ DropWorst \/ WorkStep \/ EndWork
  BY <1>1, <1>10 DEF TryPattern, EnumerationTimesOut, BeginLoop, Iterate, Polish,
     BeginWork, DropLast, DropWorst, WorkStep, EndWork, WorkUnchanged
<1>11. QED
  BY <1>2, <1>3, <1>4, <1>5, <1>6, <1>7, <1>8, <1>9, <1>10 DEF SolveNext, Progress

\* The invariant holds at the start.
LEMMA SolvedInit ==
  ASSUME SolveInit
  PROVE  SolvedInv
<1>1. Init
  BY DEF SolveInit
<1>2. SolveInv /\ SimplexInv
  BY <1>1, SolveInitInv, SimplexInit
<1>3. DispatchTypes
  BY DEF SolveInit, DispatchTypes, Stages, Answers
<1>4. InfeasibleInv /\ SimplexAnswered
  BY DEF SolveInit, InfeasibleInv, SimplexAnswered
<1>5. QED
  BY <1>2, <1>3, <1>4 DEF SolvedInv

\* Every step keeps the part of the quadratic engines.
LEMMA SolveStep ==
  ASSUME SolveInv, [SolveNext]_solveVars
  PROVE  SolveInv'
<1>1. RequestInv'
  BY RequestKept DEF SolveInv, RequestInv, Rows
<1>2. QED
  BY <1>1, WorkingStep, QualityStep, AnswerStep, ActivityStep DEF SolveInv

\* Every step keeps the whole.
LEMMA SolvedStep ==
  ASSUME Span = Int, SolvedInv, [SolveNext]_solveVars
  PROVE  SolvedInv'
<1>1. SolveInv /\ SimplexInv
  BY DEF SolvedInv
<1>2. SolveInv'
  BY <1>1, SolveStep
<1>3. SimplexInv'
  <2>1. [Solving]_vars
    BY SimplexInside
  <2>2. QED
    BY <1>1, <2>1, SimplexStep
<1>4. DispatchTypes' /\ InfeasibleInv' /\ SimplexAnswered'
  BY <1>2, TypesStep, InfeasibleStep, SimplexAnswers
<1>5. QED
  BY <1>2, <1>3, <1>4 DEF SolvedInv

(***************************************************************************)
(* Theorems.                                                               *)
(***************************************************************************)
\* The inductive invariant of a solve by the quadratic engines.
THEOREM SolveInvariant == SolveSpec => []SolveInv
<1>1. SolveInit => SolveInv
  BY SolveInitInv
<1>2. SolveInv /\ [SolveNext]_solveVars => SolveInv'
  <2> SUFFICES ASSUME SolveInv, [SolveNext]_solveVars
               PROVE  SolveInv'
    OBVIOUS
  <2>1. RequestInv'
    BY RequestKept DEF SolveInv, RequestInv, Rows
  <2>2. QED
    BY <2>1, WorkingStep, QualityStep, AnswerStep, ActivityStep DEF SolveInv
<1>3. QED
  BY <1>1, <1>2, PTL DEF SolveSpec

\* qp_active_working_set() holds every constraint once, never more than it has
\* allocated, with flags that agree, and never loses an equality.
THEOREM WorkingSetStaysConsistent == SolveSpec => []WorkingSetConsistent
<1>1. SolveInv => WorkingSetConsistent
  <2> SUFFICES ASSUME SolveInv, stage = "working"
               PROVE  /\ Len(active) <= NCols + NRows /\ IsInjective(active)
                      /\ var_active = {c.index : c \in {c \in ToSet(active) : c.kind = "column"}}
                      /\ row_active = {c.index : c \in {c \in ToSet(active) : c.kind # "column"}}
                      /\ \A i \in request.equalities : Equality(i) \in ToSet(active)
    BY DEF WorkingSetConsistent
  <2>1. PICK held \in SUBSET Constraint :
            /\ Lists(active, held)
            /\ var_active = Indices(OfColumns(held))
            /\ row_active = Indices(OfRows(held))
            /\ \A i \in request.equalities : Equality(i) \in held
    BY DEF SolveInv, WorkingInv
  <2>2. IsInjective(active) /\ ToSet(active) = held
    BY <2>1, ListedSet
  <2>3. Len(active) <= NCols + NRows
    BY <2>1, ListFits DEF SolveInv, RequestInv
  <2>4. QED
    BY <2>1, <2>2, <2>3 DEF Indices, OfColumns, OfRows
<1>2. QED
  BY <1>1, SolveInvariant, PTL

\* The corrections leave a quadratic problem's point verified or no worse in sum
\* than what the loop ended with; under mild tolerances a point that was verified
\* then is answered OPTIMAL.
THEOREM CorrectionsSafe == SolveSpec => []LoopPointKept
<1>1. SolveInv => LoopPointKept
  <2> SUFFICES ASSUME SolveInv, ~ Linear, stage \in {"work", "classify", "done"},
                      NEW q \in handed
               PROVE  /\ IsVerified(quality) \/ Score(quality) <= Score(q)
                      /\ Mild /\ IsVerified(q) =>
                            IsVerified(quality) /\ (stage = "done" => answer = "OPTIMAL")
    BY DEF LoopPointKept
  <2>1. KeptAs(q, quality)
    BY DEF SolveInv, QualityInv
  <2>2. stage = "done" /\ IsVerified(quality) => answer = "OPTIMAL"
    BY DEF SolveInv, AnswerInv
  <2>3. QED
    BY <2>1, <2>2 DEF KeptAs
<1>2. QED
  BY <1>1, SolveInvariant, PTL

\* OPTIMAL is said of a quadratic problem's verified point only, and never of a
\* problem that was tested and found indefinite.
THEOREM QuadraticOptimumVerified == SolveSpec => []OptimalIsVerified
<1>1. SolveInv => OptimalIsVerified
  BY DEF SolveInv, AnswerInv, OptimalIsVerified
<1>2. QED
  BY <1>1, SolveInvariant, PTL

\* Unless time ran out, the residual reported is of the point reported.
THEOREM ResidualMatchesPoint == SolveSpec => []ResidualIsOfPoint
<1>1. SolveInv => ResidualIsOfPoint
  BY DEF SolveInv, ActivityInv, ResidualIsOfPoint
<1>2. QED
  BY <1>1, SolveInvariant, PTL

\* The invariant of a solve: the simplex keeps a nonsingular basis whose marks,
\* values and bounds agree, and what it claims is proved when it claims it.
THEOREM SolvedInvariant ==
  ASSUME Span = Int
  PROVE  SolveSpec => []SolvedInv
<1>1. SolveInit => SolvedInv
  BY SolvedInit
<1>2. SolvedInv /\ [SolveNext]_solveVars => SolvedInv'
  BY SolvedStep
<1>3. QED
  BY <1>1, <1>2, PTL DEF SolveSpec

\* The simplex carries basis, marks, values and bounds through pivots, flips and
\* refactorizations, in all of which they stay consistent.
THEOREM BasisStaysConsistent ==
  ASSUME Span = Int
  PROVE  SolveSpec => []BasisConsistent
<1>1. SolvedInv => BasisConsistent
  <2> SUFFICES ASSUME SolvedInv
               PROVE  SolveTypeOK /\ BasisExact /\ NonbasicAtBound
    BY DEF BasisConsistent
  <2>1. ShapeInv /\ TypeOK
    BY DEF SolvedInv, SimplexInv, ShapeInv
  <2>2. SolveTypeOK
    BY <2>1 DEF SolveTypeOK, SolvedInv, DispatchTypes, Stages, Answers, SolveInv, QualityInv,
       ActivityInv
  <2>3. QED
    BY <2>1, <2>2, ShapeIsExact
<1>2. QED
  BY <1>1, SolvedInvariant, PTL

\* What sk_solve answers of a linear problem: INFEASIBLE only without a point, and
\* UNBOUNDED only when no multipliers bound the objective, whichever engine was
\* asked; OPTIMAL, of a feasible point that no other beats when the simplex says
\* so, and of a point within the rows, no more, when the first-order engine does.
\* A quadratic optimum is a verified point, and the residual is of the point.
THEOREM AnswersAreProven ==
  ASSUME Span = Int
  PROVE  SolveSpec => []AnswerIsProven
<1>1. SolvedInv => AnswerIsProven
  <2> SUFFICES ASSUME SolvedInv
               PROVE  AnswerIsProven
    OBVIOUS
  <2>1. /\ TypeOK /\ ClaimInv /\ AnswerInv /\ ActivityInv /\ InfeasibleInv /\ SimplexAnswered
    BY DEF SolvedInv, SimplexInv, ShapeInv, SolveInv
  <2>2. InfeasibleAnswered
    BY <2>1 DEF InfeasibleInv, InfeasibleAnswered
  <2>3. UnboundedAnswered
    <3> SUFFICES ASSUME answer = "UNBOUNDED", Linear
                 PROVE  NoMultipliers
      BY DEF UnboundedAnswered
    <3>1. result = "UNBOUNDED"
      BY <2>1 DEF AnswerInv, SimplexAnswered
    <3>2. QED
      BY <2>1, <3>1 DEF ClaimInv
  <2>4. OptimumAnswered
    <3> SUFFICES ASSUME answer = "OPTIMAL", Linear
                 PROVE  IF request.engine = "FIRST_ORDER"
                        THEN quality.primal <= request.primal_tol ELSE Unbeaten
      BY DEF OptimumAnswered
    <3>1. CASE request.engine = "FIRST_ORDER"
      BY <2>1, <3>1 DEF AnswerInv
    <3>2. CASE request.engine # "FIRST_ORDER"
      <4>1. result = "OPTIMAL"
        BY <2>1, <3>2 DEF SimplexAnswered
      <4>2. Certified(y) /\ y \in [Rows -> Int]
        BY <2>1, <4>1 DEF ClaimInv, TypeOK
      <4>3. Unbeaten
        BY <2>1, <4>2, CertifiedBest DEF Unbeaten
      <4>4. QED
        BY <3>2, <4>3
    <3>3. QED
      BY <3>1, <3>2
  <2>5. OptimalIsVerified /\ ResidualIsOfPoint
    BY <2>1 DEF AnswerInv, OptimalIsVerified, ActivityInv, ResidualIsOfPoint
  <2>6. QED
    BY <2>2, <2>3, <2>4, <2>5 DEF AnswerIsProven
<1>2. QED
  BY <1>1, SolvedInvariant, PTL

\* The gate rejects no undisturbed optimum: the multipliers that the repair of
\* the singleton rows leaves have the signs sk_verify() asks for.
THEOREM OptimaAccepted ==
  ASSUME Span = Int
  PROVE  SolveSpec => []OptimumAccepted
<1>1. SolvedInv => OptimumAccepted
  BY DEF SolvedInv, SimplexInv, ClaimInv
<1>2. QED
  BY <1>1, SolvedInvariant, PTL

\* An undisturbed step of phase 1 never adds infeasibility, and one of phase 2
\* never makes a feasible basis infeasible nor the objective worse.
THEOREM StepsNeverWorsen ==
  ASSUME Span = Int
  PROVE  SolveSpec => StepsImprove
<1> DEFINE Better == pc = "iterate" /\ pc' = "iterate" /\ ~ drifted /\ ~ drifted'
                        /\ (phase1 \/ Infeasibility = 0) =>
                     /\ Infeasibility' <= Infeasibility
                     /\ ~ phase1 => Objective' <= Objective
<1>1. SolvedInv /\ [SolveNext]_solveVars => [Better]_vars
  <2> SUFFICES ASSUME SolvedInv, [SolveNext]_solveVars, pc = "iterate", pc' = "iterate",
                      ~ drifted, ~ drifted', phase1 \/ Infeasibility = 0
               PROVE  /\ Infeasibility' <= Infeasibility
                      /\ ~ phase1 => Objective' <= Objective
    OBVIOUS
  <2>1. [Solving]_vars /\ SimplexInv
    BY SimplexInside DEF SolvedInv
  <2>2. QED
    BY <2>1, StepImproves DEF Improves
<1>2. QED
  BY <1>1, SolvedInvariant, PTL DEF SolveSpec, StepsImprove
=============================================================================

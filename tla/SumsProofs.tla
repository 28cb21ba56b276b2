---------------------------- MODULE SumsProofs ----------------------------
(***************************************************************************)
(* What the sums of module Sums obey, for every finite set.                *)
(*                                                                         *)
(* Sum is a fold that takes the members in an order CHOOSE decides.        *)
(* Induction over the subsets of a finite set, told of a set of subsets    *)
(* rather than of a predicate, and proved from a minimal counterexample,   *)
(* shows that an additive function on the subsets exists, that the fold is *)
(* it, and from there that sums split, compare and ignore zero terms.      *)
(***************************************************************************)
EXTENDS Sums, FiniteSetTheorems, WellFoundedInduction, TLAPS

\* Induction over the subsets of a finite set, in first-order form.
LEMMA SubsetInduction ==
  ASSUME NEW S, IsFiniteSet(S), NEW Good \in SUBSET (SUBSET S),
         \A T \in SUBSET S : (\A x \in T : T \ {x} \in Good) => T \in Good
  PROVE  \A T \in SUBSET S : T \in Good
<1> DEFINE Bad == (SUBSET S) \ Good
<1> SUFFICES ASSUME Bad # {}
             PROVE  FALSE
  OBVIOUS
<1>1. IsWellFoundedOn(StrictSubsetOrdering(S), SUBSET S)
  <2>1. IsWellFoundedOn(StrictSubsetOrdering(S), FiniteSubsetsOf(S))
    BY FS_StrictSubsetOrderingWellFounded
  <2>2. FiniteSubsetsOf(S) = SUBSET S
    BY FS_FiniteSubsetsOfFinite
  <2>3. QED
    BY <2>1, <2>2
<1>2. PICK T \in Bad : \A U \in Bad : ~ (<<U, T>> \in StrictSubsetOrdering(S))
  <2>1. Bad \subseteq SUBSET S
    OBVIOUS
  <2> HIDE DEF Bad
  <2>2. QED
    BY <1>1, <2>1, WFMin
<1>3. PICK x \in T : T \ {x} \in Bad
  BY <1>2
<1>4. <<T \ {x}, T>> \in StrictSubsetOrdering(S)
  BY <1>2, <1>3 DEF StrictSubsetOrdering
<1>5. QED
  BY <1>2, <1>3, <1>4

\* The function that sums f over every subset of S, whatever the order.
Additive(g, f, S) ==
    /\ g \in [SUBSET S -> Int]
    /\ g[{}] = 0
    /\ \A T \in SUBSET S : \A x \in T : g[T] = f[x] + g[T \ {x}]

\* There is an additive function on the subsets of a finite set.
LEMMA AdditiveExists ==
  ASSUME NEW S, IsFiniteSet(S), NEW f, \A j \in S : f[j] \in Int
  PROVE  \E g : Additive(g, f, S)
<1> DEFINE Good == {T \in SUBSET S : \E g : Additive(g, f, T)}
<1>1. {} \in Good
  <2> DEFINE g == [T \in SUBSET {} |-> 0]
  <2>1. Additive(g, f, {})
    BY DEF Additive
  <2>2. QED
    BY <2>1
<1>2. ASSUME NEW T \in SUBSET S, NEW c \in T, T \ {c} \in Good
      PROVE  T \in Good
  <2>1. PICK g : Additive(g, f, T \ {c})
    BY <1>2
  <2> DEFINE U == T \ {c}
             h == [s \in SUBSET T |-> IF c \in s THEN f[c] + g[s \ {c}] ELSE g[s]]
  <2>2. /\ g \in [SUBSET U -> Int] /\ g[{}] = 0
        /\ \A s \in SUBSET U : \A x \in s : g[s] = f[x] + g[s \ {x}]
    BY <2>1 DEF Additive
  <2>3. \A j \in T : f[j] \in Int
    OBVIOUS
  <2>4. \A s \in SUBSET T : s \ {c} \in SUBSET U /\ (c \notin s => s \in SUBSET U)
    OBVIOUS
  <2>5. h \in [SUBSET T -> Int]
    <3> SUFFICES ASSUME NEW s \in SUBSET T
                 PROVE  (IF c \in s THEN f[c] + g[s \ {c}] ELSE g[s]) \in Int
      OBVIOUS
    <3>1. g[s \ {c}] \in Int /\ (c \notin s => g[s] \in Int)
      BY <2>2, <2>4
    <3>2. f[c] \in Int
      BY <2>3
    <3> HIDE DEF U
    <3>3. QED
      BY <3>1, <3>2
  <2>6. h[{}] = 0
    BY <2>2
  <2>7. ASSUME NEW s \in SUBSET T, NEW x \in s
        PROVE  h[s] = f[x] + h[s \ {x}]
    <3>1. h[s] = (IF c \in s THEN f[c] + g[s \ {c}] ELSE g[s])
      OBVIOUS
    <3>2. h[s \ {x}] = (IF c \in s \ {x} THEN f[c] + g[(s \ {x}) \ {c}] ELSE g[s \ {x}])
      OBVIOUS
    <3> HIDE DEF h, U
    <3>3. CASE x = c
      BY <3>1, <3>2, <3>3
    <3>4. CASE x # c /\ c \in s
      <4>1. s \ {c} \in SUBSET U /\ x \in s \ {c} /\ (s \ {c}) \ {x} = (s \ {x}) \ {c}
        BY <2>4, <3>4
      <4>2. g[s \ {c}] = f[x] + g[(s \ {x}) \ {c}]
        <5>1. g[s \ {c}] = f[x] + g[(s \ {c}) \ {x}]
          BY <2>2, <4>1, Zenon
        <5>2. QED
          BY <4>1, <5>1, Zenon
      <4>3. (s \ {x}) \ {c} \in SUBSET U
        BY <2>4
      <4>4. g[(s \ {x}) \ {c}] \in Int /\ f[c] \in Int /\ f[x] \in Int
        BY <2>2, <2>3, <4>3
      <4>5. h[s] = f[c] + g[s \ {c}] /\ h[s \ {x}] = f[c] + g[(s \ {x}) \ {c}]
        BY <3>1, <3>2, <3>4
      <4>6. QED
        BY <4>2, <4>4, <4>5
    <3>5. CASE c \notin s
      <4>1. s \in SUBSET U
        BY <2>4, <3>5
      <4>2. QED
        BY <2>2, <3>1, <3>2, <3>5, <4>1
    <3>6. QED
      BY <3>3, <3>4, <3>5
  <2>8. Additive(h, f, T)
    <3> HIDE DEF h
    <3>1. QED
      BY <2>5, <2>6, <2>7 DEF Additive
  <2>9. QED
    BY <2>8
<1>3. Good \in SUBSET (SUBSET S)
  OBVIOUS
<1> HIDE DEF Good
<1>4. \A T \in SUBSET S : (\A x \in T : T \ {x} \in Good) => T \in Good
  BY <1>1, <1>2
<1>5. S \in Good
  BY <1>3, <1>4, SubsetInduction
<1>6. QED
  BY <1>5 DEF Good

\* The fold of the community modules takes the members of a set in the order in
\* which CHOOSE gives them.
First(s) == CHOOSE x \in s : TRUE
Folded(h, f, S) ==
    h = [s \in SUBSET S |-> IF s = {} THEN 0 ELSE f[First(s)] + h[s \ {First(s)}]]

\* The fold of the library is a recursive function on the subsets.
LEMMA SumIsFolded ==
  ASSUME NEW f, NEW S
  PROVE  Sum(f, S) = (CHOOSE h : Folded(h, f, S))[S]
BY DEF Sum, MapThenSumSet, MapThenFoldSet, Folded, First

\* Whatever the order, the fold is the sum.
LEMMA SumIsAdditive ==
  ASSUME NEW S, IsFiniteSet(S), NEW f, NEW g, Additive(g, f, S)
  PROVE  Sum(f, S) = g[S]
<1>1. /\ g \in [SUBSET S -> Int] /\ g[{}] = 0
      /\ \A T \in SUBSET S : \A x \in T : g[T] = f[x] + g[T \ {x}]
  BY DEF Additive
<1>2. \A s \in SUBSET S : s # {} => First(s) \in s
  BY DEF First
<1>3. Folded(g, f, S)
  <2>1. \A s \in SUBSET S :
          g[s] = IF s = {} THEN 0 ELSE f[First(s)] + g[s \ {First(s)}]
    BY <1>1, <1>2
  <2>2. g = [s \in SUBSET S |-> g[s]]
    BY <1>1
  <2>3. QED
    BY <2>1, <2>2 DEF Folded
<1> DEFINE h == CHOOSE h : Folded(h, f, S)
<1>4. Folded(h, f, S)
  BY <1>3
<1> HIDE DEF h
<1>5. \A s \in SUBSET S :
         h[s] = IF s = {} THEN 0 ELSE f[First(s)] + h[s \ {First(s)}]
  BY <1>4 DEF Folded
<1> DEFINE Good == {T \in SUBSET S : h[T] = g[T]}
<1>6. ASSUME NEW T \in SUBSET S, \A x \in T : T \ {x} \in Good
      PROVE  T \in Good
  <2>1. CASE T = {}
    BY <1>1, <1>5, <2>1
  <2>2. CASE T # {}
    <3>1. First(T) \in T
      BY <1>2, <2>2
    <3>2. h[T \ {First(T)}] = g[T \ {First(T)}]
      BY <1>6, <3>1
    <3>3. g[T] = f[First(T)] + g[T \ {First(T)}]
      BY <1>1, <3>1
    <3>4. QED
      BY <1>5, <2>2, <3>2, <3>3
  <2>3. QED
    BY <2>1, <2>2
<1>7. S \in Good
  <2>1. Good \in SUBSET (SUBSET S)
    OBVIOUS
  <2> HIDE DEF Good
  <2>2. QED
    BY <1>6, <2>1, SubsetInduction
<1>8. QED
  BY <1>7, SumIsFolded DEF h

-----------------------------------------------------------------------------
(***************************************************************************)
(* The laws of sums.                                                       *)
(***************************************************************************)
\* One function gives the sums over all subsets.
LEMMA SubsetSums ==
  ASSUME NEW S, IsFiniteSet(S), NEW f, \A j \in S : f[j] \in Int
  PROVE  \E g : Additive(g, f, S) /\ \A T \in SUBSET S : Sum(f, T) = g[T]
<1>1. PICK g : Additive(g, f, S)
  BY AdditiveExists
<1>2. ASSUME NEW T \in SUBSET S
      PROVE  Sum(f, T) = g[T]
  <2> DEFINE h == [s \in SUBSET T |-> g[s]]
  <2>1. Additive(h, f, T)
    BY <1>1 DEF Additive
  <2>2. IsFiniteSet(T)
    BY FS_Subset
  <2>3. Sum(f, T) = h[T]
    <3> HIDE DEF h
    <3>1. QED
      BY <2>1, <2>2, SumIsAdditive
  <2>4. QED
    BY <2>3
<1>3. QED
  BY <1>1, <1>2

\* A sum of integers is an integer.
LEMMA SumType ==
  ASSUME NEW S, IsFiniteSet(S), NEW f, \A j \in S : f[j] \in Int
  PROVE  Sum(f, S) \in Int
<1>1. PICK g : Additive(g, f, S) /\ \A T \in SUBSET S : Sum(f, T) = g[T]
  BY SubsetSums
<1>2. S \in SUBSET S
  OBVIOUS
<1>3. QED
  BY <1>1, <1>2 DEF Additive

\* Nothing sums to zero.
LEMMA SumEmpty ==
  ASSUME NEW f
  PROVE  Sum(f, {}) = 0
<1>1. IsFiniteSet({}) /\ \A j \in {} : f[j] \in Int
  BY FS_EmptySet
<1>2. PICK g : Additive(g, f, {}) /\ \A T \in SUBSET {} : Sum(f, T) = g[T]
  BY <1>1, SubsetSums
<1>3. QED
  BY <1>2 DEF Additive

\* Any member may be taken out.
LEMMA SumSplit ==
  ASSUME NEW S, IsFiniteSet(S), NEW f, \A j \in S : f[j] \in Int, NEW x \in S
  PROVE  Sum(f, S) = f[x] + Sum(f, S \ {x})
<1>1. PICK g : Additive(g, f, S) /\ \A T \in SUBSET S : Sum(f, T) = g[T]
  BY SubsetSums
<1>2. Sum(f, S) = g[S] /\ Sum(f, S \ {x}) = g[S \ {x}]
  BY <1>1
<1>3. QED
  BY <1>1, <1>2 DEF Additive

\* A sum of larger terms is larger, and equal only if the terms are.
LEMMA SumMonotone ==
  ASSUME NEW S, IsFiniteSet(S), NEW f, NEW g,
         \A j \in S : f[j] \in Int /\ g[j] \in Int /\ f[j] <= g[j]
  PROVE  Sum(f, S) <= Sum(g, S)
<1> DEFINE Good == {T \in SUBSET S : Sum(f, T) <= Sum(g, T)}
<1>1. ASSUME NEW T \in SUBSET S, \A x \in T : T \ {x} \in Good
      PROVE  T \in Good
  <2>1. CASE T = {}
    BY <2>1, SumEmpty
  <2>2. CASE T # {}
    <3>1. PICK x \in T : TRUE
      BY <2>2
    <3>2. Sum(f, T \ {x}) <= Sum(g, T \ {x})
      BY <1>1, <3>1
    <3>3. IsFiniteSet(T) /\ IsFiniteSet(T \ {x})
      BY FS_Subset
    <3>4. Sum(f, T) = f[x] + Sum(f, T \ {x}) /\ Sum(g, T) = g[x] + Sum(g, T \ {x})
      BY <3>3, SumSplit
    <3>5. Sum(f, T \ {x}) \in Int /\ Sum(g, T \ {x}) \in Int
      BY <3>3, SumType
    <3>6. QED
      BY <3>2, <3>4, <3>5
  <2>3. QED
    BY <2>1, <2>2
<1>2. Good \in SUBSET (SUBSET S)
  OBVIOUS
<1> HIDE DEF Good
<1>3. S \in Good
  BY <1>1, <1>2, SubsetInduction
<1>4. QED
  BY <1>3 DEF Good

\* A sum of larger terms that is not larger has equal terms.
LEMMA SumTight ==
  ASSUME NEW S, IsFiniteSet(S), NEW f, NEW g,
         \A j \in S : f[j] \in Int /\ g[j] \in Int /\ f[j] <= g[j],
         Sum(g, S) <= Sum(f, S), NEW x \in S
  PROVE  f[x] = g[x]
<1>1. IsFiniteSet(S \ {x})
  BY FS_Subset
<1>2. Sum(f, S \ {x}) <= Sum(g, S \ {x})
  BY <1>1, SumMonotone
<1>3. Sum(f, S) = f[x] + Sum(f, S \ {x}) /\ Sum(g, S) = g[x] + Sum(g, S \ {x})
  BY SumSplit
<1>4. Sum(f, S \ {x}) \in Int /\ Sum(g, S \ {x}) \in Int
  BY <1>1, SumType
<1>5. QED
  BY <1>2, <1>3, <1>4

\* Sums of equal terms are equal.
LEMMA SumEqual ==
  ASSUME NEW S, IsFiniteSet(S), NEW f, NEW g,
         \A j \in S : f[j] \in Int /\ f[j] = g[j]
  PROVE  Sum(f, S) = Sum(g, S)
<1>1. Sum(f, S) <= Sum(g, S) /\ Sum(g, S) <= Sum(f, S)
  <2>1. \A j \in S : f[j] \in Int /\ g[j] \in Int /\ f[j] <= g[j] /\ g[j] <= f[j]
    OBVIOUS
  <2>2. QED
    BY <2>1, SumMonotone
<1>2. Sum(f, S) \in Int /\ Sum(g, S) \in Int
  BY SumType
<1>3. QED
  BY <1>1, <1>2

\* The sum over two disjoint parts.
LEMMA SumUnion ==
  ASSUME NEW S, IsFiniteSet(S), NEW f, \A j \in S : f[j] \in Int, NEW U \in SUBSET S
  PROVE  Sum(f, S) = Sum(f, U) + Sum(f, S \ U)
<1> DEFINE Good == {T \in SUBSET S : Sum(f, T) = Sum(f, T \cap U) + Sum(f, T \ U)}
<1>1. ASSUME NEW T \in SUBSET S, \A x \in T : T \ {x} \in Good
      PROVE  T \in Good
  <2>1. CASE T = {}
    <3>1. T \cap U = {} /\ T \ U = {}
      BY <2>1
    <3>2. QED
      BY <2>1, <3>1, SumEmpty
  <2>2. CASE T # {}
    <3>1. PICK x \in T : TRUE
      BY <2>2
    <3> DEFINE R == T \ {x}
    <3>2. Sum(f, R) = Sum(f, R \cap U) + Sum(f, R \ U)
      BY <1>1, <3>1
    <3>3. /\ IsFiniteSet(T) /\ IsFiniteSet(R) /\ IsFiniteSet(T \cap U) /\ IsFiniteSet(T \ U)
          /\ IsFiniteSet(R \cap U) /\ IsFiniteSet(R \ U)
      BY FS_Subset
    <3>4. Sum(f, T) = f[x] + Sum(f, R)
      BY <3>3, SumSplit
    <3>5. Sum(f, R \cap U) \in Int /\ Sum(f, R \ U) \in Int /\ f[x] \in Int
      BY <3>3, SumType
    <3> HIDE DEF R
    <3>6. CASE x \in U
      <4>1. T \ U = R \ U /\ R \cap U = (T \cap U) \ {x} /\ x \in T \cap U
        BY <3>6 DEF R
      <4>2. Sum(f, T \cap U) = f[x] + Sum(f, R \cap U)
        <5>1. Sum(f, T \cap U) = f[x] + Sum(f, (T \cap U) \ {x})
          BY <3>3, <4>1, SumSplit
        <5>2. QED
          BY <4>1, <5>1
      <4>3. Sum(f, T \ U) = Sum(f, R \ U)
        BY <4>1
      <4>4. Sum(f, T) = Sum(f, T \cap U) + Sum(f, T \ U)
        <5> HIDE DEF Good
        <5>1. QED
          BY <3>2, <3>4, <3>5, <4>2, <4>3
      <4>5. QED
        BY <4>4
    <3>7. CASE x \notin U
      <4>1. T \cap U = R \cap U /\ R \ U = (T \ U) \ {x} /\ x \in T \ U
        BY <3>7 DEF R
      <4>2. Sum(f, T \ U) = f[x] + Sum(f, R \ U)
        <5>1. Sum(f, T \ U) = f[x] + Sum(f, (T \ U) \ {x})
          BY <3>3, <4>1, SumSplit
        <5>2. QED
          BY <4>1, <5>1
      <4>3. Sum(f, T \cap U) = Sum(f, R \cap U)
        BY <4>1
      <4>4. Sum(f, T) = Sum(f, T \cap U) + Sum(f, T \ U)
        <5> HIDE DEF Good
        <5>1. QED
          BY <3>2, <3>4, <3>5, <4>2, <4>3
      <4>5. QED
        BY <4>4
    <3>8. QED
      BY <3>6, <3>7
  <2>3. QED
    BY <2>1, <2>2
<1>2. Good \in SUBSET (SUBSET S)
  OBVIOUS
<1> HIDE DEF Good
<1>3. S \in Good
  BY <1>1, <1>2, SubsetInduction
<1>4. S \cap U = U
  OBVIOUS
<1>5. QED
  BY <1>3, <1>4 DEF Good

\* Zero terms do not count.
LEMMA SumOfZeros ==
  ASSUME NEW S, IsFiniteSet(S), NEW f, \A j \in S : f[j] = 0
  PROVE  Sum(f, S) = 0
<1> DEFINE Good == {T \in SUBSET S : Sum(f, T) = 0}
<1>1. ASSUME NEW T \in SUBSET S, \A x \in T : T \ {x} \in Good
      PROVE  T \in Good
  <2>1. CASE T = {}
    BY <2>1, SumEmpty
  <2>2. CASE T # {}
    <3>1. PICK x \in T : TRUE
      BY <2>2
    <3>2. IsFiniteSet(T) /\ \A j \in T : f[j] \in Int
      BY FS_Subset
    <3>3. Sum(f, T) = f[x] + Sum(f, T \ {x})
      BY <3>2, SumSplit
    <3>4. QED
      BY <1>1, <3>1, <3>3
  <2>3. QED
    BY <2>1, <2>2
<1>2. Good \in SUBSET (SUBSET S)
  OBVIOUS
<1> HIDE DEF Good
<1>3. S \in Good
  BY <1>1, <1>2, SubsetInduction
<1>4. QED
  BY <1>3 DEF Good

\* Only the nonzero terms matter.
LEMMA SumSupport ==
  ASSUME NEW S, IsFiniteSet(S), NEW f, \A j \in S : f[j] \in Int, NEW U \in SUBSET S,
         \A j \in S \ U : f[j] = 0
  PROVE  Sum(f, S) = Sum(f, U)
<1>1. Sum(f, S) = Sum(f, U) + Sum(f, S \ U)
  BY SumUnion
<1>2. IsFiniteSet(S \ U) /\ IsFiniteSet(U)
  BY FS_Subset
<1>3. Sum(f, S \ U) = 0
  BY <1>2, SumOfZeros
<1>4. Sum(f, U) \in Int
  BY <1>2, SumType
<1>5. QED
  BY <1>1, <1>3, <1>4

\* A finite set of integers has its extremes.
LEMMA FiniteExtremes ==
  ASSUME NEW S, IsFiniteSet(S), S \subseteq Int, S # {}
  PROVE  /\ \E m \in S : \A n \in S : m <= n
         /\ \E m \in S : \A n \in S : m >= n
<1> DEFINE Bounded(T) == /\ \E m \in T : \A n \in T : m <= n
                         /\ \E m \in T : \A n \in T : m >= n
           Good == {T \in SUBSET S : T # {} => Bounded(T)}
<1>1. ASSUME NEW T \in SUBSET S, \A y \in T : T \ {y} \in Good
      PROVE  T \in Good
  <2>1. CASE T = {}
    BY <2>1
  <2>2. CASE T # {}
    <3>1. PICK y \in T : TRUE
      BY <2>2
    <3>2. CASE T \ {y} = {}
      <4>1. \A n \in T : n = y /\ n \in Int
        BY <3>2
      <4>2. Bounded(T)
        BY <4>1, <3>1
      <4>3. QED
        BY <4>2
    <3>3. CASE T \ {y} # {}
      <4>1. Bounded(T \ {y})
        BY <1>1, <3>3
      <4>2. PICK low \in T \ {y} : \A n \in T \ {y} : low <= n
        BY <4>1
      <4>3. PICK high \in T \ {y} : \A n \in T \ {y} : high >= n
        BY <4>1
      <4>4. low \in Int /\ high \in Int /\ y \in Int /\ \A n \in T : n \in Int
        OBVIOUS
      <4>5. \E m \in T : \A n \in T : m <= n
        <5>1. CASE low <= y
          BY <4>2, <5>1
        <5>2. CASE y < low
          <6>1. \A n \in T : y <= n
            BY <4>2, <4>4, <5>2
          <6>2. QED
            BY <6>1
        <5>3. QED
          BY <4>4, <5>1, <5>2
      <4>6. \E m \in T : \A n \in T : m >= n
        <5>1. CASE high >= y
          BY <4>3, <5>1
        <5>2. CASE y > high
          <6>1. \A n \in T : y >= n
            BY <4>3, <4>4, <5>2
          <6>2. QED
            BY <6>1
        <5>3. QED
          BY <4>4, <5>1, <5>2
      <4>7. QED
        BY <4>5, <4>6
    <3>4. QED
      BY <3>2, <3>3
  <2>3. QED
    BY <2>1, <2>2
<1>2. \A T \in SUBSET S : T \in Good
  <2> HIDE DEF Good
  <2>1. Good \in SUBSET (SUBSET S)
    BY DEF Good
  <2>2. QED
    BY <1>1, <2>1, SubsetInduction
<1>3. QED
  BY <1>2

LEMMA SumScaled ==
  ASSUME NEW S, IsFiniteSet(S), NEW c \in Int, NEW f, NEW g,
         \A j \in S : f[j] \in Int /\ g[j] = c * f[j]
  PROVE  Sum(g, S) = c * Sum(f, S)
<1> DEFINE Good == {T \in SUBSET S : Sum(g, T) = c * Sum(f, T)}
<1>1. ASSUME NEW T \in SUBSET S, \A y \in T : T \ {y} \in Good
      PROVE  T \in Good
  <2>1. CASE T = {}
    BY <2>1, SumEmpty
  <2>2. CASE T # {}
    <3>1. PICK y \in T : TRUE
      BY <2>2
    <3>2. IsFiniteSet(T) /\ IsFiniteSet(T \ {y})
      BY FS_Subset
    <3>3. \A j \in T : f[j] \in Int /\ g[j] \in Int
      OBVIOUS
    <3>4. Sum(f, T) = f[y] + Sum(f, T \ {y}) /\ Sum(g, T) = g[y] + Sum(g, T \ {y})
      BY <3>2, <3>3, SumSplit
    <3>5. Sum(f, T \ {y}) \in Int
      BY <3>2, <3>3, SumType
    <3>6. Sum(g, T \ {y}) = c * Sum(f, T \ {y})
      BY <1>1
    <3>7. c * (f[y] + Sum(f, T \ {y})) = c * f[y] + c * Sum(f, T \ {y})
      BY <3>3, <3>5
    <3>8. g[y] = c * f[y]
      OBVIOUS
    <3>9. QED
      BY <3>4, <3>6, <3>7, <3>8
  <2>3. QED
    BY <2>1, <2>2
<1>2. \A T \in SUBSET S : T \in Good
  <2> HIDE DEF Good
  <2>1. Good \in SUBSET (SUBSET S)
    BY DEF Good
  <2>2. QED
    BY <1>1, <2>1, SubsetInduction
<1>3. QED
  BY <1>2

LEMMA SumNonnegative ==
  ASSUME NEW S, IsFiniteSet(S), NEW g, \A j \in S : g[j] \in Nat
  PROVE  Sum(g, S) \in Nat
<1> DEFINE zero == [j \in S |-> 0]
<1>1. Sum(zero, S) = 0
  BY SumOfZeros
<1>2. \A j \in S : zero[j] \in Int /\ g[j] \in Int /\ zero[j] <= g[j]
  OBVIOUS
<1> HIDE DEF zero
<1>3. Sum(zero, S) <= Sum(g, S)
  BY <1>2, SumMonotone
<1>4. Sum(g, S) \in Int
  BY <1>2, SumType
<1>5. QED
  BY <1>1, <1>3, <1>4

LEMMA SumConstant ==
  ASSUME NEW S, IsFiniteSet(S), NEW c \in Int, NEW f, \A j \in S : f[j] = c
  PROVE  Sum(f, S) = c * Cardinality(S)
<1> DEFINE Good == {T \in SUBSET S : Sum(f, T) = c * Cardinality(T)}
<1>1. ASSUME NEW T \in SUBSET S, \A y \in T : T \ {y} \in Good
      PROVE  T \in Good
  <2>1. CASE T = {}
    <3>1. Sum(f, T) = 0 /\ Cardinality(T) = 0
      BY <2>1, SumEmpty, FS_EmptySet
    <3>2. QED
      BY <3>1
  <2>2. CASE T # {}
    <3>1. PICK y \in T : TRUE
      BY <2>2
    <3>2. IsFiniteSet(T) /\ IsFiniteSet(T \ {y})
      BY FS_Subset
    <3>3. Cardinality(T \ {y}) = Cardinality(T) - 1 /\ Cardinality(T) \in Nat
      BY <3>2, FS_RemoveElement, FS_CardinalityType
    <3>4. Sum(f, T) = f[y] + Sum(f, T \ {y})
      <4>1. \A j \in T : f[j] \in Int
        OBVIOUS
      <4>2. QED
        BY <3>2, <4>1, SumSplit
    <3>5. Sum(f, T \ {y}) = c * Cardinality(T \ {y}) /\ f[y] = c
      BY <1>1
    <3>6. c + c * (Cardinality(T) - 1) = c * Cardinality(T)
      BY <3>3
    <3>7. QED
      BY <3>3, <3>4, <3>5, <3>6
  <2>3. QED
    BY <2>1, <2>2
<1>2. \A T \in SUBSET S : T \in Good
  <2> HIDE DEF Good
  <2>1. Good \in SUBSET (SUBSET S)
    BY DEF Good
  <2>2. QED
    BY <1>1, <2>1, SubsetInduction
<1>3. QED
  BY <1>2

LEMMA SumOfSum ==
  ASSUME NEW S, IsFiniteSet(S), NEW f, NEW g, NEW h,
         \A j \in S : f[j] \in Int /\ g[j] \in Int /\ h[j] = f[j] + g[j]
  PROVE  Sum(h, S) = Sum(f, S) + Sum(g, S)
<1> DEFINE Good == {T \in SUBSET S : Sum(h, T) = Sum(f, T) + Sum(g, T)}
<1>1. ASSUME NEW T \in SUBSET S, \A y \in T : T \ {y} \in Good
      PROVE  T \in Good
  <2>1. CASE T = {}
    BY <2>1, SumEmpty
  <2>2. CASE T # {}
    <3>1. PICK y \in T : TRUE
      BY <2>2
    <3>2. IsFiniteSet(T) /\ IsFiniteSet(T \ {y})
      BY FS_Subset
    <3>3. \A j \in T : f[j] \in Int /\ g[j] \in Int /\ h[j] \in Int
      OBVIOUS
    <3>4. /\ Sum(f, T) = f[y] + Sum(f, T \ {y}) /\ Sum(g, T) = g[y] + Sum(g, T \ {y})
          /\ Sum(h, T) = h[y] + Sum(h, T \ {y})
      BY <3>2, <3>3, SumSplit
    <3>5. Sum(f, T \ {y}) \in Int /\ Sum(g, T \ {y}) \in Int
      BY <3>2, <3>3, SumType
    <3>6. Sum(h, T \ {y}) = Sum(f, T \ {y}) + Sum(g, T \ {y}) /\ h[y] = f[y] + g[y]
      BY <1>1
    <3>7. f[y] \in Int /\ g[y] \in Int
      OBVIOUS
    <3>8. QED
      BY <3>4, <3>5, <3>6, <3>7
  <2>3. QED
    BY <2>1, <2>2
<1>2. \A T \in SUBSET S : T \in Good
  <2> HIDE DEF Good
  <2>1. Good \in SUBSET (SUBSET S)
    BY DEF Good
  <2>2. QED
    BY <1>1, <2>1, SubsetInduction
<1>3. QED
  BY <1>2

\* A table sums to the same by rows as by columns: G is F transposed, rows[i] and
\* cols[k] are the sums of their lines.
Transposed(F, G, S, R) == \A i \in S, k \in R : F[i][k] \in Int /\ G[k][i] = F[i][k]
LineSums(line, F, S, R) == \A i \in S : line[i] = Sum(F[i], R)

LEMMA SumExchange ==
  ASSUME NEW S, IsFiniteSet(S), NEW R, IsFiniteSet(R), NEW F, NEW G, Transposed(F, G, S, R),
         NEW rows, LineSums(rows, F, S, R), NEW cols, LineSums(cols, G, R, S)
  PROVE  Sum(rows, S) = Sum(cols, R)
<1>a. \A i \in S, k \in R : F[i][k] \in Int /\ G[k][i] = F[i][k]
  BY DEF Transposed
<1>b. \A i \in S : rows[i] = Sum(F[i], R)
  BY DEF LineSums
<1>c. \A k \in R : cols[k] = Sum(G[k], S)
  BY DEF LineSums
<1> DEFINE by(T) == [k \in R |-> Sum([i \in S |-> F[i][k]], T)]
           Good == {T \in SUBSET S : Sum(rows, T) = Sum(by(T), R)}
<1>1. \A k \in R : \A i \in S : [j \in S |-> F[j][k]][i] \in Int
  BY <1>a
<1>2. \A i \in S : rows[i] \in Int
  BY <1>a, <1>b, SumType
<1>3. ASSUME NEW T \in SUBSET S, \A y \in T : T \ {y} \in Good
      PROVE  T \in Good
  <2>1. CASE T = {}
    <3>1. \A k \in R : by(T)[k] = 0
      BY <2>1, SumEmpty
    <3>2. QED
      BY <2>1, <3>1, SumEmpty, SumOfZeros
  <2>2. CASE T # {}
    <3>1. PICK y \in T : TRUE
      BY <2>2
    <3>2. IsFiniteSet(T) /\ IsFiniteSet(T \ {y})
      BY FS_Subset
    <3>3. Sum(rows, T) = rows[y] + Sum(rows, T \ {y})
      BY <1>2, <3>2, SumSplit
    <3>4. \A k \in R : /\ F[y][k] \in Int /\ by(T \ {y})[k] \in Int
                       /\ by(T)[k] = F[y][k] + by(T \ {y})[k]
      <4> SUFFICES ASSUME NEW k \in R
                   PROVE  /\ F[y][k] \in Int /\ by(T \ {y})[k] \in Int
                          /\ by(T)[k] = F[y][k] + by(T \ {y})[k]
        OBVIOUS
      <4> DEFINE col == [i \in S |-> F[i][k]]
      <4>1. \A i \in T : col[i] \in Int
        BY <1>a
      <4>2. col[y] = F[y][k] /\ F[y][k] \in Int
        BY <1>a
      <4> HIDE DEF col
      <4>3. Sum(col, T) = col[y] + Sum(col, T \ {y}) /\ Sum(col, T \ {y}) \in Int
        BY <3>2, <4>1, SumSplit, SumType
      <4>4. by(T)[k] = Sum(col, T) /\ by(T \ {y})[k] = Sum(col, T \ {y})
        BY DEF col
      <4>5. QED
        BY <4>2, <4>3, <4>4
    <3>5. Sum(by(T), R) = Sum(F[y], R) + Sum(by(T \ {y}), R)
      <4> DEFINE f == F[y]
                 g == by(T \ {y})
                 h == by(T)
      <4>1. \A k \in R : f[k] \in Int /\ g[k] \in Int /\ h[k] = f[k] + g[k]
        BY <3>4
      <4> HIDE DEF f, g, h
      <4>2. Sum(h, R) = Sum(f, R) + Sum(g, R)
        BY <4>1, SumOfSum
      <4>3. QED
        BY <4>2 DEF f, g, h
    <3>6. Sum(rows, T \ {y}) = Sum(by(T \ {y}), R) /\ rows[y] = Sum(F[y], R)
      BY <1>3, <1>b
    <3> HIDE DEF by
    <3>7. QED
      BY <3>3, <3>5, <3>6
  <2>3. QED
    BY <2>1, <2>2
<1>4. \A T \in SUBSET S : T \in Good
  <2> HIDE DEF Good
  <2>1. Good \in SUBSET (SUBSET S)
    BY DEF Good
  <2>2. QED
    BY <1>3, <2>1, SubsetInduction
<1>5. Sum(rows, S) = Sum(by(S), R)
  BY <1>4
<1>6. \A k \in R : by(S)[k] \in Int /\ by(S)[k] = cols[k]
  <2> SUFFICES ASSUME NEW k \in R
               PROVE  by(S)[k] \in Int /\ by(S)[k] = cols[k]
    OBVIOUS
  <2> DEFINE f == [i \in S |-> F[i][k]]
             g == G[k]
  <2>1. \A i \in S : f[i] \in Int /\ f[i] = g[i]
    BY <1>a
  <2>2. by(S)[k] = Sum(f, S) /\ cols[k] = Sum(g, S)
    BY <1>c
  <2> HIDE DEF f, g, by
  <2>3. Sum(f, S) \in Int /\ Sum(f, S) = Sum(g, S)
    BY <2>1, SumType, SumEqual
  <2>4. QED
    BY <2>2, <2>3
<1> HIDE DEF by
<1>7. Sum(by(S), R) = Sum(cols, R)
  BY <1>6, SumEqual
<1>8. QED
  BY <1>5, <1>7

\* A sum with one nonzero term.
LEMMA SumSingle ==
  ASSUME NEW S, IsFiniteSet(S), NEW f, NEW x \in S, f[x] \in Int, \A j \in S \ {x} : f[j] = 0
  PROVE  Sum(f, S) = f[x]
<1>1. \A j \in S : f[j] \in Int
  OBVIOUS
<1>2. Sum(f, S) = f[x] + Sum(f, S \ {x})
  BY <1>1, SumSplit
<1>3. IsFiniteSet(S \ {x})
  BY FS_Subset
<1>4. Sum(f, S \ {x}) = 0
  BY <1>3, SumOfZeros
<1>5. QED
  BY <1>2, <1>4

\* A sum over the values of an injection, taken over its domain.
LEMMA SumReindexed ==
  ASSUME NEW S, IsFiniteSet(S), NEW b, \A x, y \in S : b[x] = b[y] => x = y,
         NEW f, \A k \in S : f[b[k]] \in Int, NEW g, \A k \in S : g[k] = f[b[k]]
  PROVE  Sum(f, {b[k] : k \in S}) = Sum(g, S)
<1> DEFINE Img(T) == {b[k] : k \in T}
           Good == {T \in SUBSET S : IsFiniteSet(Img(T)) /\ Sum(f, Img(T)) = Sum(g, T)}
<1>1. ASSUME NEW T \in SUBSET S, \A y \in T : T \ {y} \in Good
      PROVE  T \in Good
  <2>1. CASE T = {}
    <3>1. Img(T) = {}
      BY <2>1
    <3>2. Sum(f, {}) = 0 /\ Sum(g, {}) = 0
      BY SumEmpty
    <3>3. IsFiniteSet({})
      BY FS_EmptySet
    <3>4. QED
      BY <2>1, <3>1, <3>2, <3>3
  <2>2. CASE T # {}
    <3>1. PICK y \in T : TRUE
      BY <2>2
    <3>2. IsFiniteSet(T) /\ IsFiniteSet(Img(T))
      <4>1. IsFiniteSet(T)
        BY FS_Subset
      <4>2. Img(T) = Img(T \ {y}) \cup {b[y]}
        OBVIOUS
      <4>3. IsFiniteSet(Img(T \ {y}))
        BY <1>1, <3>1
      <4> DEFINE A == Img(T \ {y})
                 B == Img(T)
      <4>4. IsFiniteSet(A) /\ B = A \cup {b[y]}
        BY <4>2, <4>3
      <4> HIDE DEF A, B
      <4>5. IsFiniteSet(A \cup {b[y]})
        BY <4>4, FS_AddElement
      <4>6. IsFiniteSet(B)
        BY <4>4, <4>5
      <4>7. QED
        BY <4>1, <4>6 DEF B
    <3>3. Img(T \ {y}) = Img(T) \ {b[y]} /\ b[y] \in Img(T)
      OBVIOUS
    <3>4. \A v \in Img(T) : f[v] \in Int
      OBVIOUS
    <3>5. Sum(f, Img(T)) = f[b[y]] + Sum(f, Img(T) \ {b[y]})
      <4> HIDE DEF Img
      <4>1. QED
        BY <3>2, <3>3, <3>4, SumSplit
    <3>6. Sum(g, T) = g[y] + Sum(g, T \ {y})
      BY <3>2, SumSplit
    <3>7. Sum(f, Img(T \ {y})) = Sum(g, T \ {y}) /\ g[y] = f[b[y]]
      BY <1>1
    <3> HIDE DEF Img
    <3>8. QED
      BY <3>2, <3>3, <3>5, <3>6, <3>7
  <2>3. QED
    BY <2>1, <2>2
<1>2. \A T \in SUBSET S : T \in Good
  <2> HIDE DEF Good
  <2>1. Good \in SUBSET (SUBSET S)
    BY DEF Good
  <2>2. QED
    BY <1>1, <2>1, SubsetInduction
<1>3. QED
  BY <1>2
=============================================================================

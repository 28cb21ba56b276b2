--------------------------- MODULE NativeSimplex ---------------------------
(***************************************************************************)
(* sk_simplex_solve() of the C library: the bounded-variable revised       *)
(* simplex over A x - s = 0, from the singleton presolve to the published  *)
(* and verified point.                                                     *)
(*                                                                         *)
(* Data are integers and the matrices unimodular, so that the basis solves *)
(* are exact and every pivot is 1 or -1; the scale factors are one and the *)
(* feasibility tolerance is zero.  Forgiven stands for the 100 tolerances  *)
(* that the end of phase 1 and the final gate accept.  The eta file only   *)
(* ages; the drift it may cause is an action.                              *)
(***************************************************************************)
EXTENDS Sums, FiniteSets

CONSTANTS
    NRows, NCols,
    Problems,         \* the models and options a run starts from; a disturbed one has
                      \* a time limit and an eta file that may lose precision
    Infinite,         \* SK_INFINITY, far above any finite bound
    Forgiven,         \* 100 primal tolerances
    Span,             \* the values a basis solve can give
    RefactorInterval, \* refactor_interval
    StallDantzig, StallBland,  \* the stalls that change the pricing
    Sample            \* the values a column takes in the points properties range over

ASSUME SimplexAssumption ==
    /\ NRows \in Nat \ {0} /\ NCols \in Nat \ {0} /\ Infinite \in Nat \ {0}
    /\ Forgiven \in Nat /\ Span \subseteq Int /\ Sample \subseteq Int
    /\ RefactorInterval \in Nat \ {0}
    /\ StallDantzig \in Nat /\ StallBland \in Nat /\ StallDantzig < StallBland

Rows == 1 .. NRows
Cols == 1 .. NCols
Vars == 1 .. NCols + NRows   \* the structurals, then the logicals
Size(n) == IF n < 0 THEN -n ELSE n
Finite(v) == Size(v) < Infinite

\* A pair of bounds: in order, as sk_model_validate() asks, and beyond what it
\* asks, infinite on their own side only and otherwise small against infinity.
BoundsOK(b) ==
    /\ b \in [lo : Int, hi : Int] /\ b.lo <= b.hi
    /\ b.lo < Infinite /\ b.hi > -Infinite
    /\ \A v \in {b.lo, b.hi} : Finite(v) => 2 * NCols * Size(v) < Infinite

ASSUME ProblemAssumption ==
    \A p \in Problems :
        /\ p.A \in [Rows -> [Cols -> {-1, 0, 1}]] /\ p.c \in [Cols -> Int]
        /\ DOMAIN p.row = Rows /\ \A i \in Rows : BoundsOK(p.row[i])
        /\ DOMAIN p.col = Cols /\ \A j \in Cols : BoundsOK(p.col[j])
        /\ p.presolve \in BOOLEAN /\ p.disturbed \in BOOLEAN /\ p.limit \in Nat

(***************************************************************************)
(* The equality form [A -I] (x; s) = 0, and the solutions of a basis.      *)
(***************************************************************************)
Entry(A, i, v) == IF v \in Cols THEN A[i][v] ELSE IF v = NCols + i THEN -1 ELSE 0
Solves(A, b, z, r) ==
    \A i \in Rows : Sum([k \in Rows |-> Entry(A, i, b[k]) * z[k]], Rows) = r[i]
Regular(A, b) ==
    \A z \in [Rows -> Span] : Solves(A, b, z, [i \in Rows |-> 0]) => \A k \in Rows : z[k] = 0

\* In terms of any basis, any column has coefficients -1, 0 and 1.
ASSUME UnimodularAssumption ==
    \A A \in {p.A : p \in Problems}, b \in [Rows -> Vars] :
        Regular(A, b) =>
            \A v \in Vars, z \in [Rows -> Span] :
                Solves(A, b, z, [i \in Rows |-> Entry(A, i, v)]) => z \in [Rows -> {-1, 0, 1}]

VARIABLES
    problem,
    lb, ub,        \* working bounds
    basis,         \* the variable at each position
    stat, xval,
    phase1,
    pricing,       \* bland: 0 Devex, 2 Dantzig, 1 Bland
    stall, last_infeas,
    iterations,
    age,           \* updates since the last factorization
    drifted,       \* the basic values no longer solve the rows
    pc, y,
    claim,         \* the result the loop ended with
    result         \* s->result

spx == <<lb, ub, basis, stat, xval, phase1, pricing, stall, last_infeas, iterations,
         age, drifted>>
vars == <<problem, spx, pc, y, claim, result>>

M(i, v) == Entry(problem.A, i, v)
Cost(v) == IF v \in Cols THEN problem.c[v] ELSE 0
Basic == {basis[k] : k \in Rows}

\* The singleton presolve: what the rows with one coefficient say of column j.
SingletonRows(j) == {i \in Rows : {q \in Cols : problem.A[i][q] # 0} = {j}}
Implied(i, j) == IF problem.A[i][j] > 0 THEN problem.row[i]
                 ELSE [lo |-> -problem.row[i].hi, hi |-> -problem.row[i].lo]
WorkBound(v) ==
    IF v \notin Cols THEN problem.row[v - NCols]
    ELSE IF ~ problem.presolve THEN problem.col[v]
    ELSE [lo |-> Max({problem.col[v].lo} \cup {Implied(i, v).lo : i \in SingletonRows(v)}),
          hi |-> Min({problem.col[v].hi} \cup {Implied(i, v).hi : i \in SingletonRows(v)})]

(***************************************************************************)
(* Solves with the basis matrix and its transpose.                         *)
(***************************************************************************)
Ftran(b, r) == CHOOSE z \in [Rows -> Span] : Solves(problem.A, b, z, r)
Along(z, v) == Sum([i \in Rows |-> M(i, v) * z[i]], Rows)
Btran(b, c) == CHOOSE z \in [Rows -> Span] : \A k \in Rows : Along(z, b[k]) = c[k]

\* spx_recompute_xB(): the basic values from the nonbasic ones.
Recomputed(b, v) ==
    LET nonbasic == Vars \ {b[k] : k \in Rows}
        rhs == [i \in Rows |-> -Sum([j \in Vars |-> M(i, j) * v[j]], nonbasic)]
        z == Ftran(b, rhs)
    IN [j \in Vars |-> IF j \in nonbasic THEN v[j] ELSE z[CHOOSE k \in Rows : b[k] = j]]

Below(v, value) == Finite(lb[v]) /\ value < lb[v]
Above(v, value) == Finite(ub[v]) /\ value > ub[v]
Violation(v, value) == IF Below(v, value) THEN lb[v] - value
                       ELSE IF Above(v, value) THEN value - ub[v] ELSE 0
Infeasibility == Sum([k \in Rows |-> Violation(basis[k], xval[basis[k]])], Rows)

\* spx_build_cB() and spx_price().
BasicCost(one) ==
    [k \in Rows |-> LET v == basis[k] IN
        IF ~ one THEN Cost(v)
        ELSE IF Below(v, xval[v]) THEN -1 ELSE IF Above(v, xval[v]) THEN 1 ELSE 0]
Priced ==
    LET dual == Btran(basis, BasicCost(phase1)) IN
    [v \in Vars |-> IF v \in Basic THEN 0
                    ELSE (IF phase1 THEN 0 ELSE Cost(v)) - Along(dual, v)]

(***************************************************************************)
(* The entering variable.  Devex weights only rank the eligible ones, so   *)
(* in that mode any of them may be chosen.                                 *)
(***************************************************************************)
Eligible(d) ==
    {v \in Vars \ Basic :
        /\ lb[v] # ub[v]
        /\ \/ stat[v] # "UPPER" /\ d[v] < 0
           \/ stat[v] # "LOWER" /\ d[v] > 0}
Direction(d, v) == IF d[v] < 0 THEN 1 ELSE -1
Entering(d) ==
    LET E == Eligible(d) IN
    IF E = {} THEN {}
    ELSE CASE pricing = 1 -> {Min(E)}
           [] pricing = 2 -> {Min({v \in E : \A w \in E : Size(d[w]) <= Size(d[v])})}
           [] pricing = 0 -> E

(***************************************************************************)
(* The ratio test.  A basic variable that is infeasible in phase 1 has a   *)
(* one-sided effective bound: the one it is driven back to.                *)
(***************************************************************************)
Effective(k) ==
    LET v == basis[k] IN
    IF phase1 /\ Below(v, xval[v]) THEN [lo |-> -Infinite, hi |-> lb[v]]
    ELSE IF phase1 /\ Above(v, xval[v]) THEN [lo |-> ub[v], hi |-> Infinite]
    ELSE [lo |-> lb[v], hi |-> ub[v]]

Alpha(enter) == Ftran(basis, [i \in Rows |-> M(i, enter)])
Reach(k, delta) == IF delta > 0 THEN Effective(k).hi ELSE Effective(k).lo
\* Mutant: only upper bounds block.
BlockingAbove(delta) == {k \in Rows : delta[k] > 0 /\ Finite(Reach(k, delta[k]))}

Blocking(delta) == {k \in Rows : delta[k] # 0 /\ Finite(Reach(k, delta[k]))}
Room(k, delta) == Max({0, delta[k] * (Reach(k, delta[k]) - xval[basis[k]])})
Width(v) == IF Finite(lb[v]) /\ Finite(ub[v]) THEN ub[v] - lb[v] ELSE Infinite
Longest(mv) == Min({Width(mv.enter)} \cup {Room(k, mv.delta) : k \in Blocking(mv.delta)})

\* Mutant: the side of the ratio test is taken for the side of the variable.
PinnedBySide(k, delta) ==
    LET v == basis[k] IN
    IF lb[v] = ub[v] THEN [stat |-> "LOWER", xval |-> lb[v]]
    ELSE IF delta > 0 THEN [stat |-> "UPPER", xval |-> Effective(k).hi]
    ELSE [stat |-> "LOWER", xval |-> Effective(k).lo]

\* The bound the leaving variable is pinned to.
Pinned(k, delta) ==
    LET v == basis[k] IN
    IF lb[v] = ub[v] THEN [stat |-> "LOWER", xval |-> lb[v]]
    ELSE IF delta > 0
    THEN IF phase1 /\ Effective(k).hi = lb[v] THEN [stat |-> "LOWER", xval |-> lb[v]]
         ELSE [stat |-> "UPPER", xval |-> Effective(k).hi]
    ELSE IF phase1 /\ Effective(k).lo = ub[v] THEN [stat |-> "UPPER", xval |-> ub[v]]
         ELSE [stat |-> "LOWER", xval |-> Effective(k).lo]

(***************************************************************************)
(* Start.                                                                  *)
(***************************************************************************)
Init ==
    /\ problem \in Problems
    /\ lb = [v \in Vars |-> WorkBound(v).lo] /\ ub = [v \in Vars |-> WorkBound(v).hi]
    /\ basis = [k \in Rows |-> NCols + k]
    /\ stat = [v \in Vars |-> "BASIC"] /\ xval = [v \in Vars |-> 0]
    /\ phase1 = TRUE /\ pricing = 0 /\ stall = 0 /\ last_infeas = Infinite
    /\ iterations = 0 /\ age = 0 /\ drifted = FALSE
    /\ pc = "begin" /\ y = [i \in Rows |-> 0] /\ claim = "NONE" /\ result = "NOT_RUN"

\* Two singleton rows, or one and a bound, contradict each other.
SingletonInfeasible ==
    /\ pc = "begin" /\ \E j \in Cols : lb[j] > ub[j]
    /\ result' = "INFEASIBLE" /\ claim' = "INFEASIBLE" /\ pc' = "done"
    /\ UNCHANGED <<problem, spx, y>>

\* The logicals are basic, a structural is at its bound nearest zero.
NearestZero(v) ==
    IF Finite(lb[v]) /\ (Finite(ub[v]) => Size(lb[v]) <= Size(ub[v])) THEN "LOWER"
    ELSE IF Finite(ub[v]) THEN "UPPER" ELSE "FREE"
Seat(v) == CASE NearestZero(v) = "LOWER" -> lb[v] [] NearestZero(v) = "UPPER" -> ub[v]
             [] OTHER -> 0

Start ==
    /\ pc = "begin" /\ \A j \in Cols : lb[j] <= ub[j]
    /\ stat' = [v \in Vars |-> IF v \in Cols THEN NearestZero(v) ELSE "BASIC"]
    /\ xval' = Recomputed(basis, [v \in Vars |-> IF v \in Cols THEN Seat(v) ELSE 0])
    /\ phase1' = \E k \in Rows : Violation(basis[k], xval'[basis[k]]) > 0
    /\ pc' = "iterate"
    /\ UNCHANGED <<problem, lb, ub, basis, pricing, stall, last_infeas, iterations, age,
                   drifted, y, claim, result>>

(***************************************************************************)
(* The loop.                                                               *)
(***************************************************************************)
Conclude(r) == claim' = r /\ pc' = "publish" /\ UNCHANGED <<problem, spx, y, result>>

AtLimit == pc = "iterate" /\ iterations >= problem.limit /\ Conclude("ITERATION_LIMIT")

OutOfTime == pc = "iterate" /\ iterations < problem.limit /\ problem.disturbed /\ Conclude("TIME_LIMIT")

Due == pc = "iterate" /\ iterations < problem.limit /\ age >= RefactorInterval

Refactorize ==
    /\ Due
    /\ xval' = Recomputed(basis, xval) /\ age' = 0 /\ drifted' = FALSE
    /\ UNCHANGED <<problem, lb, ub, basis, stat, phase1, pricing, stall, last_infeas,
                   iterations, pc, y, claim, result>>

RefactorizationFails == Due /\ problem.disturbed /\ Conclude("NUMERIC_FAILURE")

\* The eta file loses precision: a basic value is off until the next factorization.
Drift ==
    /\ pc = "iterate" /\ problem.disturbed /\ age > 0 /\ ~ drifted
    /\ \E k \in Rows, e \in {-1, 1} : xval' = [xval EXCEPT ![basis[k]] = @ + e]
    /\ drifted' = TRUE
    /\ UNCHANGED <<problem, lb, ub, basis, stat, phase1, pricing, stall, last_infeas,
                   iterations, age, pc, y, claim, result>>

Turn == pc = "iterate" /\ iterations < problem.limit /\ ~ Due

\* Phase 2 starts from a fresh factorization.
BeginPhase2 ==
    /\ phase1' = FALSE /\ pricing' = 0 /\ stall' = 0 /\ last_infeas' = Infinite
    /\ xval' = Recomputed(basis, xval) /\ age' = 0 /\ drifted' = FALSE
    /\ UNCHANGED <<problem, lb, ub, basis, stat, iterations, pc, y, claim, result>>

EnterPhase2 == /\ Turn /\ phase1 /\ Infeasibility = 0
               /\ BeginPhase2

Price == Turn /\ ~ (phase1 /\ Infeasibility = 0)

DeclareInfeasible ==
    /\ Price /\ phase1 /\ Eligible(Priced) = {} /\ Infeasibility > Forgiven
    /\ Conclude("INFEASIBLE")

ForgiveResidual ==
    /\ Price /\ phase1 /\ Eligible(Priced) = {} /\ Infeasibility <= Forgiven
    /\ BeginPhase2

DeclareOptimal == Price /\ ~ phase1 /\ Eligible(Priced) = {} /\ Conclude("OPTIMAL")

\* An entering variable, its direction and the change of each basic variable.
Moves ==
    LET d == Priced IN
    {[enter |-> v, dir |-> Direction(d, v),
      delta |-> LET a == Alpha(v) IN [k \in Rows |-> -Direction(d, v) * a[k]]] : v \in Entering(d)}

DeclareUnbounded ==
    /\ Price
    /\ \E mv \in Moves :
        /\ Blocking(mv.delta) = {} /\ ~ Finite(Width(mv.enter))
        /\ Conclude(IF phase1 THEN "NUMERIC_FAILURE" ELSE "UNBOUNDED")

Moved(mv, step) ==
    [v \in Vars |-> IF v = mv.enter THEN xval[v] + mv.dir * step
                    ELSE IF v \in Basic
                    THEN xval[v] + step * mv.delta[CHOOSE k \in Rows : basis[k] = v]
                    ELSE xval[v]]

BoundFlip ==
    /\ Price
    /\ \E mv \in Moves :
        /\ Finite(Width(mv.enter)) /\ Longest(mv) = Width(mv.enter)
        /\ xval' = Moved(mv, Width(mv.enter))
        /\ stat' = [stat EXCEPT ![mv.enter] = IF @ = "LOWER" THEN "UPPER" ELSE "LOWER"]
        /\ iterations' = iterations + 1
        /\ UNCHANGED <<problem, lb, ub, basis, phase1, pricing, stall, last_infeas, age,
                       drifted, pc, y, claim, result>>

\* Devex, Dantzig after a stall, Bland after a longer one, Devex on progress.
Repriced(n) ==
    CASE n > StallBland /\ pricing = 2 -> 1
      [] n > StallDantzig /\ pricing = 0 -> 2
      [] n = 0 -> 0
      [] OTHER -> pricing

\* An update of the factors may be refused; they are then rebuilt.  Pinning a
\* variable that phase 2 found beyond its bound leaves the other values behind.
Pivot ==
    /\ Price
    /\ \E mv \in Moves : \E k \in Blocking(mv.delta) :
        LET step == Longest(mv) leaving == basis[k] pin == Pinned(k, mv.delta[k]) IN
        /\ Room(k, mv.delta) = step /\ step < Width(mv.enter)
        /\ xval' = [Moved(mv, step) EXCEPT ![leaving] = pin.xval]
        /\ stat' = [stat EXCEPT ![leaving] = pin.stat, ![mv.enter] = "BASIC"]
        /\ basis' = [basis EXCEPT ![k] = mv.enter]
        /\ age' \in {age + 1, RefactorInterval}
        /\ drifted' = (drifted \/ pin.xval # Moved(mv, step)[leaving])
        /\ iterations' = iterations + 1
        /\ UNCHANGED <<problem, lb, ub, phase1, pc, y, claim, result>>
        /\ last_infeas' = IF phase1 THEN Infeasibility' ELSE last_infeas
        /\ stall' = IF IF phase1 THEN Infeasibility' >= last_infeas ELSE step = 0
                    THEN Min({stall + 1, StallBland + 1}) ELSE 0
        /\ pricing' = Repriced(stall')

(***************************************************************************)
(* What is published.  Activities, reduced costs and residuals are         *)
(* recomputed from the caller's model.                                     *)
(***************************************************************************)
Product(a, p) == Sum([j \in Cols |-> a[j] * p[j]], Cols)
Activity(i) == Product(problem.A[i], xval)
Rc(j, dual) == problem.c[j] + Along(dual, j)
At(value, bound) == Finite(bound) /\ value = bound

\* Mutant: only a column between its bounds is looked at.
CarriesInside(i, j, dual) ==
    /\ i \in SingletonRows(j)
    /\ At(Activity(i), problem.row[i].lo) \/ At(Activity(i), problem.row[i].hi)
    /\ ~ At(xval[j], problem.col[j].lo) /\ ~ At(xval[j], problem.col[j].hi)

\* spx_repair_singleton_duals(): an active singleton row takes the reduced cost
\* of its column when no bound of the column can carry it.  The rows are visited
\* in order, so of several rows of one column the first active one takes it all.
Carries(i, j, dual) ==
    /\ i \in SingletonRows(j)
    /\ At(Activity(i), problem.row[i].lo) \/ At(Activity(i), problem.row[i].hi)
    /\ \/ ~ At(xval[j], problem.col[j].lo) /\ ~ At(xval[j], problem.col[j].hi)
       \/ At(xval[j], problem.col[j].lo) /\ Rc(j, dual) < 0
       \/ At(xval[j], problem.col[j].hi) /\ Rc(j, dual) > 0
Repaired(dual) ==
    [i \in Rows |->
        IF \E j \in Cols : Carries(i, j, dual) /\ \A r \in 1 .. i - 1 : ~ Carries(r, j, dual)
        THEN LET j == CHOOSE j \in Cols : Carries(i, j, dual)
             IN dual[i] - problem.A[i][j] * Rc(j, dual)
        ELSE dual[i]]

\* The sign a multiplier may have by the bounds its value is at: sk_verify().
Signed(value, bound, r) ==
    /\ r > 0 => At(value, bound.lo)
    /\ r < 0 => At(value, bound.hi)
Excess(value, bound) == {IF Finite(bound.lo) THEN bound.lo - value ELSE 0,
                         IF Finite(bound.hi) THEN value - bound.hi ELSE 0}
PrimalResidual ==
    Max({0} \cup (UNION {Excess(Activity(i), problem.row[i]) : i \in Rows})
            \cup (UNION {Excess(xval[j], problem.col[j]) : j \in Cols}))
Certified(dual) ==
    /\ PrimalResidual <= Forgiven
    /\ \A j \in Cols : Signed(xval[j], problem.col[j], Rc(j, dual))
    /\ \A i \in Rows : Signed(Activity(i), problem.row[i], -dual[i])

\* Mutant: the claim of the loop is believed.
UngatedResult(dual) == claim
GatedResult(dual) == IF claim = "OPTIMAL" /\ ~ Certified(dual) THEN "NUMERIC_FAILURE" ELSE claim

Publish ==
    /\ pc = "publish"
    /\ LET dual == Btran(basis, BasicCost(FALSE))
           public == [i \in Rows |-> -dual[i]]
       IN y' = IF claim = "OPTIMAL" THEN Repaired(public) ELSE public
    /\ result' = GatedResult(y')
    /\ pc' = "done"
    /\ UNCHANGED <<problem, spx, claim>>

Done == pc = "done" /\ UNCHANGED vars

Solving ==
    \/ SingletonInfeasible \/ Start
    \/ AtLimit \/ OutOfTime \/ Refactorize \/ RefactorizationFails \/ Drift
    \/ EnterPhase2 \/ DeclareInfeasible \/ ForgiveResidual \/ DeclareOptimal
    \/ DeclareUnbounded \/ BoundFlip \/ Pivot \/ Publish

Next == Solving \/ Done

Spec == Init /\ [][Next]_vars

(***************************************************************************)
(* Properties.                                                             *)
(***************************************************************************)
Results == {"OPTIMAL", "INFEASIBLE", "UNBOUNDED", "ITERATION_LIMIT", "TIME_LIMIT",
            "NUMERIC_FAILURE"}

\* Every variable keeps its type.
TypeOK ==
    /\ problem \in Problems
    /\ lb \in [Vars -> Int] /\ ub \in [Vars -> Int] /\ xval \in [Vars -> Int]
    /\ basis \in [Rows -> Vars] /\ stat \in [Vars -> {"BASIC", "LOWER", "UPPER", "FREE"}]
    /\ phase1 \in BOOLEAN /\ pricing \in 0 .. 2 /\ stall \in 0 .. StallBland + 1
    /\ last_infeas \in Nat /\ iterations \in 0 .. problem.limit
    /\ age \in 0 .. RefactorInterval /\ drifted \in BOOLEAN
    /\ pc \in {"begin", "iterate", "publish", "done"} /\ y \in [Rows -> Int]
    /\ claim \in Results \cup {"NONE"} /\ result \in Results \cup {"NOT_RUN"}

Running == pc \in {"iterate", "publish"}

\* The basis has no variable twice, its members are the ones marked basic, and
\* unless precision was lost the values solve the rows.
BasisExact ==
    Running =>
        /\ Cardinality(Basic) = NRows
        /\ \A v \in Vars : stat[v] = "BASIC" <=> v \in Basic
        /\ ~ drifted => \A i \in Rows : Activity(i) = xval[NCols + i]

\* A nonbasic variable sits at the bound its mark names, also after a phase-1
\* pivot, where the side of the ratio test is not the side of the variable.
NonbasicAtBound ==
    Running => \A v \in Vars \ Basic :
        xval[v] = CASE stat[v] = "LOWER" -> lb[v] [] stat[v] = "UPPER" -> ub[v] [] OTHER -> 0

\* An undisturbed step of phase 1 never adds infeasibility, and one of phase 2
\* never makes a feasible basis infeasible nor the objective worse.
Objective == Product(problem.c, xval)
StepsImprove ==
    [][pc = "iterate" /\ pc' = "iterate" /\ ~ drifted /\ ~ drifted' /\ (phase1 \/ Infeasibility = 0) =>
          /\ Infeasibility' <= Infeasibility
          /\ ~ phase1 => Objective' <= Objective]_vars

Points == [Cols -> Sample]
Within(v, b) == (Finite(b.lo) => b.lo <= v) /\ (Finite(b.hi) => v <= b.hi)
Satisfies(p) ==
    /\ \A j \in Cols : Within(p[j], problem.col[j])
    /\ \A i \in Rows : Within(Product(problem.A[i], p), problem.row[i])

\* No point satisfies the rows and bounds.
NoPoint == \A p \in Points : ~ Satisfies(p)

\* No multipliers bound the objective.
NoMultipliers ==
    \A d \in [Rows -> Sample] :
        \/ \E j \in Cols : \/ Rc(j, d) > 0 /\ ~ Finite(problem.col[j].lo)
                           \/ Rc(j, d) < 0 /\ ~ Finite(problem.col[j].hi)
        \/ \E i \in Rows : \/ d[i] < 0 /\ ~ Finite(problem.row[i].lo)
                           \/ d[i] > 0 /\ ~ Finite(problem.row[i].hi)

\* The point is feasible within the tolerance, and no feasible point beats it.
Unbeaten ==
    /\ PrimalResidual <= Forgiven
    /\ \A p \in Points : Satisfies(p) => Objective <= Product(problem.c, p)

\* The gate rejects no undisturbed optimum: the repair gives its multipliers the
\* signs sk_verify() asks for, when a column has one singleton row at most and
\* none if it is fixed.
OptimumAccepted ==
    claim = "OPTIMAL" /\ pc = "done" /\ ~ drifted /\ Infeasibility = 0
        /\ (\A j \in Cols : /\ Cardinality(SingletonRows(j)) <= 1
                            /\ SingletonRows(j) # {} => problem.col[j].lo # problem.col[j].hi)
    => result = "OPTIMAL"
=============================================================================

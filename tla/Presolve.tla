------------------------------ MODULE Presolve ------------------------------
(***************************************************************************)
(* presolve() and postsolve() of src/lp: passes of reductions over a row   *)
(* set and a column set, the reduced model they leave, and the expansion   *)
(* of a point of the reduced model into the caller's columns.              *)
(*                                                                         *)
(* Bounds are integers and coefficients are -1, 0 or 1, so that every      *)
(* implied bound is exact: the outward relaxation and the tolerances of    *)
(* the reductions are zero here, that of the infeasibility tests is the    *)
(* constant InfeasTol.  A side that is Infinity is open: as lo it is minus *)
(* infinity, as hi plus infinity.  Each visit of a row or a column by a    *)
(* loop is one action.                                                     *)
(***************************************************************************)
EXTENDS Integers, FiniteSets, Sums

CONSTANTS
    NRows, NCols,
    Problems,   \* the models a run starts from
    MaxPasses,  \* max_passes
    Infinity,   \* kInfinity, no number
    InfeasTol,  \* kInfeasTol: how much an infeasibility test forgives
    Sample      \* the values a column takes in the points properties range over

ASSUME SizeAssumption ==
    /\ NRows \in Nat \ {0} /\ NCols \in Nat \ {0} /\ MaxPasses \in Nat \ {0}
    /\ Infinity \notin Int /\ InfeasTol \in Nat /\ Sample \subseteq Int

Rows == 1 .. NRows
Cols == 1 .. NCols
Finite(v) == v \in Int
Interval == [lo : Int \cup {Infinity}, hi : Int \cup {Infinity}]

ASSUME ProblemAssumption ==
    \A q \in Problems :
        /\ q.A \in [Rows -> [Cols -> {-1, 0, 1}]]
        /\ q.rhs \in [Rows -> Int] /\ q.slack \in [Rows -> Interval]
        /\ q.bound \in [Cols -> Interval] /\ q.obj \in [Cols -> Int]

VARIABLES
    problem,       \* the caller's model
    range,         \* row_lo, row_hi
    bound,         \* col_lo, col_hi
    row_active, col_active,
    row_count,     \* active columns of an active row, kept by hand
    col_count,     \* active rows of an active column, kept by hand
    fixed_value,   \* of the columns removed
    pc, at,        \* the loop of the pass, and the row or column it visits
    pass, changed,
    status,
    x              \* what postsolve made of a solution of the reduced model

vars == <<problem, range, bound, row_active, col_active, row_count, col_count,
          fixed_value, pc, at, pass, changed, status, x>>

(***************************************************************************)
(* Models and points.                                                      *)
(***************************************************************************)
Minus(r, s) == IF Finite(s) THEN r - s ELSE Infinity

\* A x + s = rhs with s between the slack bounds, as a range of A x.
RowRange(rhs, slack) == [lo |-> Minus(rhs, slack.hi), hi |-> Minus(rhs, slack.lo)]
Original(i) == RowRange(problem.rhs[i], problem.slack[i])

Within(v, b) == (Finite(b.lo) => b.lo <= v) /\ (Finite(b.hi) => v <= b.hi)
CrossedBy(b, tol) == Finite(b.lo) /\ Finite(b.hi) /\ b.lo > b.hi + tol

Row(i, p, S) == Sum([j \in S |-> problem.A[i][j] * p[j]], S)
Cost(p) == Sum([j \in Cols |-> problem.obj[j] * p[j]], Cols)

Points == [Cols -> Sample]

Satisfies(p) ==
    /\ \A j \in Cols : Within(p[j], problem.bound[j])
    /\ \A i \in Rows : Within(Row(i, p, Cols), Original(i))

\* What the infeasibility tests forgive: a row missed by the tolerance, and a
\* value between the bounds of a column although they cross.
Misses(v, b, tol) == \/ Finite(b.lo) /\ v < b.lo - tol
                     \/ Finite(b.hi) /\ v > b.hi + tol
Between(v, b) == Within(v, b) \/ (Finite(b.lo) /\ Finite(b.hi) /\ b.hi <= v /\ v <= b.lo)
Acceptable(p) ==
    /\ \A j \in Cols : Between(p[j], problem.bound[j])
    /\ \A i \in Rows : ~ Misses(Row(i, p, Cols), Original(i), InfeasTol)

\* The points the reductions so far stand for: removed columns at their fixed
\* value, the others within the bounds and rows that are left.
InBox(p) ==
    /\ \A j \in Cols \ col_active : p[j] = fixed_value[j]
    /\ \A j \in col_active : Within(p[j], bound[j])
Stands(p) == InBox(p) /\ \A i \in row_active : Within(Row(i, p, col_active), range[i])

Support(i) == {j \in col_active : problem.A[i][j] # 0}

(***************************************************************************)
(* The constructor: no reduction yet.                                      *)
(***************************************************************************)
Init ==
    /\ problem \in Problems
    /\ range = [i \in Rows |-> Original(i)]
    /\ bound = problem.bound
    /\ row_active = Rows /\ col_active = Cols
    /\ row_count = [i \in Rows |-> Cardinality({j \in Cols : problem.A[i][j] # 0})]
    /\ col_count = [j \in Cols |-> Cardinality({i \in Rows : problem.A[i][j] # 0})]
    /\ fixed_value = [j \in Cols |-> 0]
    /\ pc = "fixed" /\ at = 1 /\ pass = 0 /\ changed = FALSE
    /\ status = "OK" /\ x = <<>>

(***************************************************************************)
(* The loops of a pass, in their order, and how they go on.                *)
(***************************************************************************)
Following == [fixed |-> "empty", empty |-> "rows", rows |-> "propagate", propagate |-> "close"]

Last(loop) == IF loop \in {"fixed", "empty"} THEN NCols ELSE NRows

\* The loop goes to its next row or column, or to the next loop.
GoOn ==
    /\ IF at < Last(pc) THEN at' = at + 1 /\ UNCHANGED pc
                        ELSE at' = 1 /\ pc' = Following[pc]
    /\ UNCHANGED <<problem, pass, status, x>>

Fail == /\ status' = "INFEASIBLE" /\ pc' = "done"
        /\ UNCHANGED <<problem, range, bound, row_active, col_active, row_count,
                       col_count, fixed_value, at, pass, changed, x>>

Skip == /\ GoOn
        /\ UNCHANGED <<range, bound, row_active, col_active, row_count, col_count,
                       fixed_value, changed>>

\* Mutant: the rows a fixed column touches keep its contribution.
FixColumnsUnsubstituted(S, value) ==
    /\ col_active' = col_active \ S
    /\ fixed_value' = [j \in Cols |-> IF j \in S THEN value[j] ELSE fixed_value[j]]
    /\ row_count' = [i \in Rows |-> IF i \in row_active
                                    THEN row_count[i] - Cardinality(Support(i) \cap S)
                                    ELSE row_count[i]]
    /\ UNCHANGED range

\* fix_column() of every column of S: substituted into the active rows.
FixColumns(S, value) ==
    LET moved(i, v) == IF Finite(v) THEN v - Row(i, value, S) ELSE v IN
    /\ col_active' = col_active \ S
    /\ fixed_value' = [j \in Cols |-> IF j \in S THEN value[j] ELSE fixed_value[j]]
    /\ row_count' = [i \in Rows |-> IF i \in row_active
                                    THEN row_count[i] - Cardinality(Support(i) \cap S)
                                    ELSE row_count[i]]
    /\ range' = [i \in Rows |-> IF i \in row_active
                                THEN [lo |-> moved(i, range[i].lo), hi |-> moved(i, range[i].hi)]
                                ELSE range[i]]

\* Mutant: a dropped row stays in the counts of its columns.
DropRowUncounted(i, columns) == row_active' = row_active \ {i} /\ UNCHANGED col_count

\* drop_row(), seen by the columns that are active when it is called.
DropRow(i, columns) ==
    /\ row_active' = row_active \ {i}
    /\ col_count' = [j \in Cols |-> IF j \in columns /\ problem.A[i][j] # 0
                                    THEN col_count[j] - 1 ELSE col_count[j]]

(***************************************************************************)
(* tighten_lower() and tighten_upper(): a derived bound that would cross   *)
(* the opposite one is refused, one that does not improve is ignored.      *)
(***************************************************************************)
TightenUpper(b, limit) ==
    IF Finite(limit) /\ (Finite(b.lo) => limit >= b.lo) /\ (Finite(b.hi) => limit < b.hi)
    THEN [b EXCEPT !.hi = limit] ELSE b

TightenLower(b, limit) ==
    IF Finite(limit) /\ (Finite(b.hi) => limit <= b.hi) /\ (Finite(b.lo) => limit > b.lo)
    THEN [b EXCEPT !.lo = limit] ELSE b

Tightened(b, limits) == TightenUpper(TightenLower(b, limits.lo), limits.hi)

(***************************************************************************)
(* Row activities: the extremes of a row over its active columns.          *)
(***************************************************************************)
\* The bound of column j that minimizes, or maximizes, its term in row i.
MinBound(i) == [j \in Cols |-> IF problem.A[i][j] > 0 THEN bound[j].lo ELSE bound[j].hi]
MaxBound(i) == [j \in Cols |-> IF problem.A[i][j] > 0 THEN bound[j].hi ELSE bound[j].lo]

Unbounded(i, end) == {j \in Support(i) : ~ Finite(end[j])}

\* An activity without a bound is Infinity.
Extreme(i, end) == IF Unbounded(i, end) # {} THEN Infinity ELSE Row(i, end, Support(i))
MinActivity(i) == Extreme(i, MinBound(i))
MaxActivity(i) == Extreme(i, MaxBound(i))

(***************************************************************************)
(* Fixed columns.                                                          *)
(***************************************************************************)
Visit(loop) == pc = loop /\ at \in (IF loop \in {"fixed", "empty"} THEN col_active ELSE row_active)

SkipRemoved ==
    /\ pc \in DOMAIN Following
    /\ at \notin (IF pc \in {"fixed", "empty"} THEN col_active ELSE row_active)
    /\ Skip

Closed(b) == Finite(b.lo) /\ Finite(b.hi) /\ b.hi <= b.lo

ColumnCrossed == Visit("fixed") /\ CrossedBy(bound[at], InfeasTol) /\ Fail

ColumnFixed ==
    /\ Visit("fixed")
    /\ Closed(bound[at]) /\ ~ CrossedBy(bound[at], InfeasTol)
    /\ FixColumns({at}, [j \in {at} |-> (bound[at].lo + bound[at].hi) \div 2])
    /\ changed' = TRUE
    /\ GoOn /\ UNCHANGED <<bound, row_active, col_count>>

ColumnOpen == Visit("fixed") /\ ~ Closed(bound[at]) /\ Skip

(***************************************************************************)
(* Empty columns: in no active row, by their counter.                      *)
(***************************************************************************)
\* The bound that is best for the objective; zero when nothing restricts it.
BestBound(j) ==
    LET b == bound[j] c == problem.obj[j] IN
    IF c > 0 THEN b.lo
    ELSE IF c < 0 THEN b.hi
    ELSE IF Finite(b.lo) THEN b.lo ELSE IF Finite(b.hi) THEN b.hi ELSE 0

EmptyColumnUnbounded ==
    /\ Visit("empty") /\ col_count[at] = 0
    /\ ~ Finite(BestBound(at))
    /\ status' = "UNBOUNDED" /\ pc' = "done"
    /\ UNCHANGED <<problem, range, bound, row_active, col_active, row_count,
                   col_count, fixed_value, at, pass, changed, x>>

EmptyColumn ==
    /\ Visit("empty") /\ col_count[at] = 0
    /\ Finite(BestBound(at))
    /\ FixColumns({at}, [j \in {at} |-> BestBound(at)])
    /\ changed' = TRUE
    /\ GoOn /\ UNCHANGED <<bound, row_active, col_count>>

ColumnUsed == Visit("empty") /\ col_count[at] # 0 /\ Skip

(***************************************************************************)
(* Rows.                                                                   *)
(***************************************************************************)
Dropped ==
    /\ DropRow(at, col_active)
    /\ changed' = TRUE
    /\ GoOn

RowCrossed == Visit("rows") /\ CrossedBy(range[at], InfeasTol) /\ Fail

Sound == ~ CrossedBy(range[at], InfeasTol)

EmptyRowViolated ==
    /\ Visit("rows") /\ Sound /\ row_count[at] = 0
    /\ Misses(0, range[at], InfeasTol)
    /\ Fail

EmptyRow ==
    /\ Visit("rows") /\ Sound /\ row_count[at] = 0
    /\ ~ Misses(0, range[at], InfeasTol)
    /\ Dropped
    /\ UNCHANGED <<range, bound, col_active, row_count, fixed_value>>

\* The row asks for more than its greatest activity, or for less than its least.
Unreachable ==
    \/ Finite(MinActivity(at)) /\ Finite(range[at].hi) /\ MinActivity(at) > range[at].hi + InfeasTol
    \/ Finite(MaxActivity(at)) /\ Finite(range[at].lo) /\ MaxActivity(at) < range[at].lo - InfeasTol

RowUnreachable == Visit("rows") /\ Sound /\ row_count[at] # 0 /\ Unreachable /\ Fail

\* A row with columns, whose activity can meet its bounds.
OpenRow == Visit("rows") /\ Sound /\ row_count[at] # 0 /\ ~ Unreachable

ImpliedBelow == Finite(range[at].lo) => Finite(MinActivity(at)) /\ MinActivity(at) >= range[at].lo
ImpliedAbove == Finite(range[at].hi) => Finite(MaxActivity(at)) /\ MaxActivity(at) <= range[at].hi

\* Mutant: one side of the row is enough.
RedundantOneSided == ImpliedBelow

Redundant == ImpliedBelow /\ ImpliedAbove

RedundantRow ==
    /\ OpenRow /\ Redundant /\ Dropped
    /\ UNCHANGED <<range, bound, col_active, row_count, fixed_value>>

ForcingAtUpper == Finite(range[at].hi) /\ MinActivity(at) = range[at].hi
ForcingAtLower == Finite(range[at].lo) /\ MaxActivity(at) = range[at].lo

\* The activity just reaches the row's bound: every column is pinned.
ForcingRow ==
    /\ OpenRow /\ ~ Redundant
    /\ ForcingAtUpper \/ ForcingAtLower
    /\ FixColumns(Support(at),
                  [j \in Support(at) |-> IF ForcingAtUpper THEN MinBound(at)[j] ELSE MaxBound(at)[j]])
    /\ DropRow(at, col_active \ Support(at))
    /\ changed' = TRUE
    /\ GoOn /\ UNCHANGED bound

(***************************************************************************)
(* A singleton row becomes bounds of its column.                           *)
(***************************************************************************)
Singleton == OpenRow /\ ~ Redundant /\ ~ ForcingAtUpper /\ ~ ForcingAtLower /\ row_count[at] = 1

Only == CHOOSE j \in Support(at) : TRUE

\* The bounds the row implies: those of the row, mirrored by a negative sign.
Implied == IF problem.A[at][Only] > 0 THEN range[at]
           ELSE [lo |-> Minus(0, range[at].hi), hi |-> Minus(0, range[at].lo)]

Absorbing == Tightened(bound[Only], Implied)

\* Both implied bounds were taken or were no news.
Absorbed == /\ Finite(Implied.lo) => Finite(Absorbing.lo) /\ Implied.lo <= Absorbing.lo
            /\ Finite(Implied.hi) => Finite(Absorbing.hi) /\ Implied.hi >= Absorbing.hi

SingletonRow ==
    /\ Singleton /\ Absorbed
    /\ bound' = [bound EXCEPT ![Only] = Absorbing]
    /\ Dropped
    /\ UNCHANGED <<range, col_active, row_count, fixed_value>>

\* The row stays, the bound it could give is kept.
SingletonKept ==
    /\ Singleton /\ ~ Absorbed
    /\ bound' = [bound EXCEPT ![Only] = Absorbing]
    /\ GoOn /\ UNCHANGED <<range, row_active, col_active, row_count, col_count,
                           fixed_value, changed>>

RowKept == /\ OpenRow /\ ~ Redundant /\ ~ ForcingAtUpper /\ ~ ForcingAtLower
           /\ row_count[at] > 1
           /\ Skip

(***************************************************************************)
(* Bound propagation: limits from one snapshot of the activity, applied    *)
(* after the row's scan, lower ones first.                                 *)
(***************************************************************************)
\* What the rest of row i contributes at least, or at most, beside column j.
Rest(i, j, end) == IF Unbounded(i, end) \subseteq {j} THEN Row(i, end, Support(i) \ {j}) ELSE Infinity
Limit(i, j, side, end) ==
    IF Finite(side) /\ Finite(Rest(i, j, end)) THEN problem.A[i][j] * (side - Rest(i, j, end))
    ELSE Infinity
FromUpper(i, j) == Limit(i, j, range[i].hi, MinBound(i))
FromLower(i, j) == Limit(i, j, range[i].lo, MaxBound(i))

\* Mutant: a negative coefficient does not turn the bound around.
ProposedUnsigned(i, j) == [lo |-> FromLower(i, j), hi |-> FromUpper(i, j)]

Proposed(i, j) == IF problem.A[i][j] > 0
                  THEN [lo |-> FromLower(i, j), hi |-> FromUpper(i, j)]
                  ELSE [lo |-> FromUpper(i, j), hi |-> FromLower(i, j)]

Propagate ==
    /\ Visit("propagate")
    /\ bound' = [j \in Cols |->
          IF j \in Support(at) THEN Tightened(bound[j], Proposed(at, j)) ELSE bound[j]]
    /\ changed' = (changed \/ bound' # bound)
    /\ GoOn /\ UNCHANGED <<range, row_active, col_active, row_count, col_count, fixed_value>>

AnotherPass == changed /\ pass + 1 < MaxPasses

\* The pass ends: another one, unless nothing changed or the cap is reached.
ClosePass ==
    /\ pc = "close"
    /\ IF AnotherPass
       THEN pc' = "fixed" /\ pass' = pass + 1 /\ changed' = FALSE
       ELSE pc' = "emit" /\ UNCHANGED <<pass, changed>>
    /\ UNCHANGED <<problem, range, bound, row_active, col_active, row_count, col_count,
                   fixed_value, at, status, x>>

(***************************************************************************)
(* The reduced model and the way back.                                     *)
(***************************************************************************)
\* A kept row as A x + s = rhs again, anchored at a finite bound.
Reencoded(r) ==
    IF Finite(r.hi)
    THEN [rhs |-> r.hi, slack |-> [lo |-> 0, hi |-> IF Finite(r.lo) THEN r.hi - r.lo ELSE Infinity]]
    ELSE IF Finite(r.lo)
    THEN [rhs |-> r.lo, slack |-> [lo |-> Infinity, hi |-> 0]]
    ELSE [rhs |-> 0, slack |-> [lo |-> Infinity, hi |-> Infinity]]

\* The sample points of the reduced model, in its own columns.
ReducedPoints ==
    {q \in [col_active -> Sample] :
        /\ \A j \in col_active : Within(q[j], bound[j])
        /\ \A i \in row_active :
              Within(Row(i, q, col_active),
                     RowRange(Reencoded(range[i]).rhs, Reencoded(range[i]).slack))}

Postsolve(q) == [j \in Cols |-> IF j \in col_active THEN q[j] ELSE fixed_value[j]]

\* The reduced model is handed out, solved, and its solution expanded.
Solve ==
    /\ pc = "emit"
    /\ x' \in {Postsolve(q) : q \in ReducedPoints} \cup {<<>>}
    /\ pc' = "done"
    /\ UNCHANGED <<problem, range, bound, row_active, col_active, row_count, col_count,
                   fixed_value, at, pass, changed, status>>

Done == pc = "done" /\ UNCHANGED vars

Next ==
    \/ SkipRemoved
    \/ ColumnCrossed \/ ColumnFixed \/ ColumnOpen
    \/ EmptyColumnUnbounded \/ EmptyColumn \/ ColumnUsed
    \/ RowCrossed \/ EmptyRowViolated \/ EmptyRow \/ RowUnreachable \/ RedundantRow
    \/ ForcingRow \/ SingletonRow \/ SingletonKept \/ RowKept
    \/ Propagate \/ ClosePass \/ Solve \/ Done

Spec == Init /\ [][Next]_vars

(***************************************************************************)
(* Properties.                                                             *)
(***************************************************************************)
\* Every variable keeps its type.
TypeOK ==
    /\ problem \in Problems
    /\ range \in [Rows -> Interval] /\ bound \in [Cols -> Interval]
    /\ row_active \subseteq Rows /\ col_active \subseteq Cols
    /\ row_count \in [Rows -> 0 .. NCols] /\ col_count \in [Cols -> 0 .. NRows]
    /\ fixed_value \in [Cols -> Int]
    /\ pc \in DOMAIN Following \cup {"close", "emit", "done"}
    /\ at \in 1 .. NRows + NCols /\ pass \in 0 .. MaxPasses - 1 /\ changed \in BOOLEAN
    /\ status \in {"OK", "INFEASIBLE", "UNBOUNDED"}
    /\ x = <<>> \/ x \in [Cols -> Int]

\* The counters that decide which rows and columns are empty, kept by hand in
\* fix_column() and drop_row(), agree with what is active.
CountsExact ==
    /\ \A i \in row_active : row_count[i] = Cardinality(Support(i))
    /\ \A j \in col_active :
          col_count[j] = Cardinality({i \in row_active : problem.A[i][j] # 0})

\* A reduction never adds a point: whatever the reductions so far stand for is
\* acceptable to the caller, one tolerance off in a row at most.  The tolerances of
\* several reductions do not add up, the failure the comments tell of bore3d.
NothingAdded == \A p \in Points : Stands(p) => Acceptable(p)

\* A reduction never loses the optimum: every point of the caller has one as
\* good among those the reductions stand for.
OptimumKept ==
    status = "OK" =>
        LET left == {q \in Points : Stands(q)} IN
        \A p \in Points \ left : Satisfies(p) => \E q \in left : Cost(q) <= Cost(p)

\* The expanded solution is feasible for the caller's rows and bounds: removed
\* rows hold by themselves, kept ones through their re-encoded slacks.
PostsolveFeasible == x # <<>> => Acceptable(x)

\* INFEASIBLE is concluded of models without a point only.
InfeasibleIsProven == status = "INFEASIBLE" => \A p \in Points : ~ Satisfies(p)

\* UNBOUNDED is concluded only when every feasible point has a better one next
\* to it, in the direction of the column that was found empty.
UnboundedIsProven ==
    status = "UNBOUNDED" =>
        \A p \in Points : Satisfies(p) =>
            \E d \in {-1, 1} : LET q == [p EXCEPT ![at] = p[at] + d]
                               IN Satisfies(q) /\ Cost(q) < Cost(p)

\* A derived bound never crosses the opposite one: the comments in presolve()
\* say that propagation can never manufacture an empty domain.
DomainsNotEmptied ==
    \A j \in col_active : ~ CrossedBy(problem.bound[j], 0) => ~ CrossedBy(bound[j], 0)

\* Between any two reductions the working model is in order: its counters agree
\* with what is active, and no derived bound has emptied a domain.
WorkingModelConsistent == TypeOK /\ CountsExact /\ DomainsNotEmptied

\* The reduced model has the caller's optimum: nothing is added, the best is kept.
SameOptimum == NothingAdded /\ OptimumKept

\* A verdict given without a solver, INFEASIBLE or UNBOUNDED, is proved.
VerdictIsProven == InfeasibleIsProven /\ UnboundedIsProven
=============================================================================

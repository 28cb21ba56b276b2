---------------------------- MODULE NativeSolve ----------------------------
(***************************************************************************)
(* sk_solve() of the C library: the choice of an engine, the simplex of    *)
(* module NativeSimplex for linear problems, and solve_continuous() for    *)
(* quadratic ones: closed forms, the enumeration of active sets, the       *)
(* first-order iteration, and the two corrections of its last point.       *)
(*                                                                         *)
(* A linear problem is solved in the data of NativeSimplex.  Of a          *)
(* quadratic one only the traits its guards read are kept, and of a point  *)
(* only what sk_verify() measures of it: its primal, its dual and its      *)
(* complementarity residual, in some unit.                                 *)
(***************************************************************************)
EXTENDS Sequences, SequencesExt, NativeSimplex

CONSTANTS
    Calls,          \* a problem, the engine asked for and the traits the guards read,
                    \* the rows that are equalities among them
    Patterns,       \* the active sets enumerated, at most
    ClockEvery,     \* 256: the patterns between two looks at the clock
    Budget,         \* maximum_iterations of the first-order loop
    CheckEvery,     \* check_every
    WorkSteps,      \* 4 * (max_active + 1)
    Measures,       \* the residuals a point may have
    Cold,           \* those of the point the first-order loop starts from
    Factor,         \* 100: the tolerances a verified residual may reach
    PolishBound     \* 1e-5, in the unit of the residuals

ASSUME SolveAssumption ==
    /\ Patterns \in Nat /\ ClockEvery \in Nat \ {0} /\ Budget \in Nat \ {0}
    /\ CheckEvery \in Nat \ {0} /\ WorkSteps \in Nat
    /\ \A call \in Calls : call.request.equalities \subseteq Rows

ASSUME MeasureAssumption ==
    /\ Measures \subseteq [primal : Nat, dual : Nat, comp : Nat] /\ Cold \in Measures
    /\ Factor \in Nat /\ PolishBound \in Nat
    /\ \A call \in Calls : call.request.primal_tol \in Nat /\ call.request.dual_tol \in Nat

VARIABLES
    request,
    stage,       \* where sk_solve() is
    answer,      \* the result or the error it returns
    late,        \* the time limit has passed on the clock of the present loop
    best,        \* the objective of the best certified pattern so far
    step,        \* pattern, iteration or correction step
    quality,     \* the residuals of the point (x, y) held
    saved,       \* those of orig_x, orig_y
    handed,      \* history: those of the point the first-order loop ended with
    converged,
    activity,    \* the point the row activities were computed of
    active,      \* the working set, in the order its members joined
    var_active, row_active

quadratic == <<best, step, quality, saved, handed, converged, activity, active, var_active, row_active>>
solveVars == <<vars, request, stage, answer, late, quadratic>>

NoBest == 9

\* The gate of sk_verify()'s callers: each residual within 100 tolerances.
IsVerified(q) == /\ q.primal <= Factor * request.primal_tol
                 /\ q.dual <= Factor * request.dual_tol
                 /\ q.comp <= Factor * request.dual_tol

\* qp_kkt_score(): the sum of the residuals.
Score(q) == q.primal + q.dual + q.comp

SolveInit ==
    /\ \E call \in Calls : problem = call.problem /\ request = call.request
    /\ Init
    /\ stage = "dispatch" /\ answer = "NONE" /\ late = FALSE
    /\ best = NoBest /\ step = 0 /\ quality = Cold /\ saved = Cold /\ handed = {}
    /\ converged = FALSE /\ activity = "x" /\ active = <<>> /\ var_active = {} /\ row_active = {}

\* The clock of the enumeration, or that of the first-order loop and what
\* follows it, passes the limit at some time.
ClockExpires ==
    /\ ~ late /\ request.timed /\ stage \notin {"dispatch", "simplex", "closed", "done"}
    /\ late' = TRUE
    /\ UNCHANGED <<vars, request, stage, answer, quadratic>>

Return(r) == /\ answer' = r /\ stage' = "done"
             /\ UNCHANGED <<vars, request, late, quadratic>>
GoTo(s) == /\ stage' = s /\ UNCHANGED <<vars, request, answer, late, quadratic>>

(***************************************************************************)
(* Dispatch.                                                               *)
(***************************************************************************)
\* interval_infeasible(): a row whose activity cannot meet its bounds.
Entries(i) == {j \in Cols : problem.A[i][j] # 0}
MinTerm(i) == [j \in Cols |-> IF problem.A[i][j] > 0 THEN problem.col[j].lo ELSE problem.col[j].hi]
MaxTerm(i) == [j \in Cols |-> IF problem.A[i][j] > 0 THEN problem.col[j].hi ELSE problem.col[j].lo]
Extreme(i, end) == Sum([j \in Cols |-> problem.A[i][j] * end[j]], Entries(i))
AllFinite(i, end) == \A j \in Entries(i) : Finite(end[j])

IntervalImpossible ==
    \/ \E j \in Cols : problem.col[j].lo > problem.col[j].hi
    \/ \E i \in Rows : \/ AllFinite(i, MaxTerm(i)) /\ problem.row[i].lo > Extreme(i, MaxTerm(i))
                       \/ AllFinite(i, MinTerm(i)) /\ problem.row[i].hi < Extreme(i, MinTerm(i))

Linear == request.kind = "LP"
Dispatching == stage = "dispatch"

RejectEngine == Dispatching /\ request.engine = "UNKNOWN" /\ Return("ERR_ARG")

IntervalInfeasible ==
    /\ Dispatching /\ request.engine # "UNKNOWN" /\ IntervalImpossible
    /\ Return("INFEASIBLE")

Admitted == Dispatching /\ request.engine # "UNKNOWN" /\ ~ IntervalImpossible

ToSimplex == Admitted /\ Linear /\ request.engine # "FIRST_ORDER" /\ GoTo("simplex")

\* The simplex has no quadratic objective.
QuadraticOnSimplex ==
    Admitted /\ request.kind = "QP" /\ request.engine = "SIMPLEX" /\ Return("ERR_UNSUPPORTED")

\* Hessians of at most 512 columns are tested, larger ones believed convex.
RejectIndefinite ==
    /\ Admitted /\ request.kind = "QP" /\ request.engine # "SIMPLEX"
    /\ request.tested /\ ~ request.convex
    /\ Return("ERR_UNSUPPORTED")

ToContinuous ==
    /\ Admitted
    /\ \/ Linear /\ request.engine = "FIRST_ORDER" /\ GoTo("iterate")
       \/ /\ request.kind = "QP" /\ request.engine # "SIMPLEX"
          /\ ~ (request.tested /\ ~ request.convex)
          /\ GoTo("closed")

\* Integers: the branch and bound of module NativeMilp.
ToMilp == /\ Admitted /\ request.kind = "MIP"
          /\ \E r \in {"OPTIMAL", "INFEASIBLE", "NODE_LIMIT"} : Return(r)

Simplex == /\ stage = "simplex" /\ pc # "done" /\ Solving
           /\ UNCHANGED <<request, stage, answer, late, quadratic>>

SimplexReturns == stage = "simplex" /\ pc = "done" /\ Return(result)

(***************************************************************************)
(* Quadratic problems with a closed form, and the enumeration of every     *)
(* choice of free, lower and upper for variables and rows.                 *)
(***************************************************************************)
\* A point is held that passed the gate.
HoldVerified ==
    /\ \E q \in Measures : IsVerified(q) /\ quality' = q
    /\ UNCHANGED <<best, step, saved, handed, converged, activity, active, var_active, row_active>>

\* The first-order loop starts, on a clock of its own.
BeginLoop ==
    /\ stage' = "iterate" /\ step' = 0 /\ best' = NoBest /\ late' = FALSE
    /\ UNCHANGED <<answer, quality, saved, handed, converged, activity, active, var_active,
                   row_active>>

\* A diagonal Hessian without rows: solved by columns, and the solution counts
\* only when it is verified; a flat column with an open side is unbounded.
DiagonalForm ==
    /\ stage = "closed" /\ request.form = "DIAGONAL"
    /\ \/ answer' = "OPTIMAL" /\ stage' = "done" /\ HoldVerified
       \/ answer' = "UNBOUNDED" /\ stage' = "done" /\ UNCHANGED quadratic
       \/ stage' = "enumerate" /\ UNCHANGED <<answer, quadratic>>
    /\ UNCHANGED <<vars, request, late>>

\* Free columns and equality rows only: one linear system, verified likewise.
EqualityForm ==
    /\ stage = "closed" /\ request.form = "EQUALITY"
    /\ \/ answer' = "OPTIMAL" /\ stage' = "done" /\ HoldVerified
       \/ stage' = "enumerate" /\ UNCHANGED <<answer, quadratic>>
    /\ UNCHANGED <<vars, request, late>>

NoClosedForm == stage = "closed" /\ request.form = "GENERAL" /\ GoTo("enumerate")

TooManyPatterns ==
    stage = "enumerate" /\ ~ request.small /\ BeginLoop /\ UNCHANGED <<vars, request>>

\* One pattern: no candidate, one that fails verification, or a verified one.
TryPattern ==
    /\ stage = "enumerate" /\ request.small /\ step < Patterns
    /\ ~ (step % ClockEvery = 0 /\ late)
    /\ step' = step + 1
    /\ \E obj \in {NoBest, 1, 2} : best' = Min({best, obj})
    /\ UNCHANGED <<vars, request, stage, answer, late, quality, saved, handed, converged,
                   activity, active, var_active, row_active>>

\* Out of time the best pattern is given up: a better one may not have been tried.
EnumerationTimesOut ==
    /\ stage = "enumerate" /\ request.small /\ step < Patterns
    /\ step % ClockEvery = 0 /\ late
    /\ BeginLoop /\ UNCHANGED <<vars, request>>

EnumerationEnds ==
    /\ stage = "enumerate" /\ request.small /\ step = Patterns
    /\ \/ /\ best # NoBest /\ answer' = "OPTIMAL" /\ stage' = "done"
          /\ HoldVerified /\ UNCHANGED late
       \/ BeginLoop
    /\ UNCHANGED <<vars, request>>

(***************************************************************************)
(* The first-order loop.  The row activities are of the over-relaxed point *)
(* until a check computes them of x.                                       *)
(***************************************************************************)
Checks(n) == n % CheckEvery = 0 \/ n = Budget

\* What a stable iterate must measure: rows within the tolerance, and the score
\* of a quadratic problem within a bound of its own, which is not the gate's.
Converges(q) ==
    /\ q.primal <= request.primal_tol
    /\ Linear \/ Score(q) <= Factor * (request.primal_tol + 2 * request.dual_tol)

Iterate ==
    /\ stage = "iterate" /\ step < Budget /\ ~ converged
    /\ step' = step + 1
    /\ \E q \in Measures, stable \in BOOLEAN :
          /\ quality' = q
          /\ IF late
             THEN converged' = FALSE /\ activity' = "x_bar" /\ stage' = "correct"
             ELSE /\ converged' = (Checks(step') /\ stable /\ Converges(q))
                  /\ activity' = IF Checks(step') THEN "x" ELSE "x_bar"
                  /\ stage' = IF converged' \/ step' = Budget THEN "correct" ELSE stage
    /\ handed' = IF stage' = "correct" THEN {quality'} ELSE handed
    /\ UNCHANGED <<vars, request, answer, late, best, saved, active, var_active, row_active>>

LinearSkipsCorrection == stage = "correct" /\ Linear /\ GoTo("classify")

(***************************************************************************)
(* The corrections of a quadratic problem's last point.                    *)
(***************************************************************************)
\* Mutant: a polished point is kept whatever it is worth.
PolishedAlways(q) == q

\* The polished point is kept when the sum of its residuals is smaller than
\* before, and small.
Polished(q) == IF Score(q) < Score(quality) /\ Score(q) <= PolishBound THEN q ELSE quality

\* Up to eight Newton steps on the active rows, of a nearly feasible point
\* unless every row is an equality.
Polish ==
    /\ stage = "correct" /\ ~ Linear
    /\ IF request.polished /\ (quality.primal <= PolishBound \/ request.equalities = Rows)
       THEN \E q \in Measures : quality' = Polished(q)
       ELSE UNCHANGED quality
    /\ stage' = "work"
    /\ UNCHANGED <<vars, request, answer, late, best, step, saved, handed, converged, activity,
                   active, var_active, row_active>>

(***************************************************************************)
(* The working set: the equalities always, the bounds of columns and rows  *)
(* that are active.  A bound of a column has no free coefficient, so that  *)
(* the system of a set with one is singular.                               *)
(***************************************************************************)
Equality(i) == [kind |-> "equality", index |-> i]
RowBound(i) == [kind |-> "row", index |-> i]
ColumnBound(j) == [kind |-> "column", index |-> j]

\* The constraints the point is at: every equality row, and some bounds.
AtBounds(columns, rows) == SetToSeq({ColumnBound(j) : j \in columns})
                           \o SetToSeq({Equality(i) : i \in request.equalities}
                                       \cup {RowBound(i) : i \in rows})

Flags(set) == /\ var_active' = {c.index : c \in {c \in ToSet(set) : c.kind = "column"}}
              /\ row_active' = {c.index : c \in {c \in ToSet(set) : c.kind # "column"}}

BeginWork ==
    /\ stage = "work"
    /\ IF quality.primal > Factor * request.primal_tol \/ ~ request.medium
       THEN stage' = "classify" /\ UNCHANGED <<saved, active, var_active, row_active>>
       ELSE /\ saved' = quality /\ stage' = "working"
            /\ \E columns \in SUBSET Cols, rows \in SUBSET (Rows \ request.equalities) :
                  active' = AtBounds(columns, rows)
            /\ Flags(active')
    /\ step' = 0
    /\ UNCHANGED <<vars, request, answer, late, best, quality, handed, converged, activity>>

Working == stage = "working" /\ step < WorkSteps
Removable == {k \in DOMAIN active : active[k].kind # "equality"}
Singular == \E k \in DOMAIN active : active[k].kind = "column"

\* Mutant: the flag of a constraint that leaves stays set.
LeavesFlagged(k) == active' = RemoveAt(active, k) /\ UNCHANGED <<var_active, row_active>>
Leaves(k) ==
    /\ active' = RemoveAt(active, k)
    /\ var_active' = IF active[k].kind = "column" THEN var_active \ {active[k].index} ELSE var_active
    /\ row_active' = IF active[k].kind = "row" THEN row_active \ {active[k].index} ELSE row_active

WorkUnchanged ==
    UNCHANGED <<vars, request, answer, late, best, saved, handed, converged, activity>>

IsLast(k) == \A m \in Removable : m <= k

\* A singular system: the inequality that joined last leaves.
DropLast ==
    /\ Working /\ (Singular \/ active # <<>>)
    /\ \E k \in Removable : IsLast(k) /\ Leaves(k)
    /\ step' = step + 1 /\ UNCHANGED <<stage, quality>> /\ WorkUnchanged

\* A zero step: the inequality with the worst multiplier leaves.
DropWorst ==
    /\ Working /\ ~ Singular
    /\ \E k \in Removable : Leaves(k)
    /\ step' = step + 1 /\ UNCHANGED <<stage, quality>> /\ WorkUnchanged

\* A step, blocked by a bound that joins, or full.
Blockers == {ColumnBound(j) : j \in Cols \ var_active}
            \cup {RowBound(i) : i \in Rows \ row_active}
Joins(c) == active' = Append(active, c) /\ Flags(active')
WorkStep ==
    /\ Working /\ ~ Singular
    /\ quality' \in Measures
    /\ \/ \E c \in Blockers : Joins(c)
       \/ UNCHANGED <<active, var_active, row_active>>
    /\ step' = step + 1 /\ UNCHANGED stage /\ WorkUnchanged

\* Mutant: the corrected point is not verified again.
CorrectedAlways(q) == q
Corrected(q) == IF IsVerified(q) THEN q ELSE saved

\* No multiplier is wrong, y is filled in, and the point passes the gate; or a
\* failure, there, at any step or when the steps are used up, and the point
\* before is restored.
EndWork ==
    /\ stage = "working"
    /\ \/ ~ Singular /\ step < WorkSteps /\ \E q \in Measures : quality' = Corrected(q)
       \/ quality' = saved
    /\ stage' = "classify"
    /\ UNCHANGED <<step, active, var_active, row_active>> /\ WorkUnchanged

(***************************************************************************)
(* The result of the first-order path.                                     *)
(***************************************************************************)
Flagged == converged \/ (~ Linear /\ IsVerified(quality))

\* Mutant: the flag of the loop is enough.
AcceptedByFlag == Flagged
Accepted == Flagged /\ (Linear \/ IsVerified(quality))

Classify ==
    /\ stage = "classify"
    /\ answer' = IF Accepted THEN "OPTIMAL" ELSE IF late THEN "TIME_LIMIT" ELSE "ITERATION_LIMIT"
    /\ stage' = "done"
    /\ activity' = IF Linear THEN activity ELSE "x"
    /\ UNCHANGED <<vars, request, late, best, step, quality, saved, handed, converged, active,
                   var_active, row_active>>

Finished == stage = "done" /\ UNCHANGED solveVars

Progress ==
    \/ RejectEngine \/ IntervalInfeasible \/ ToSimplex \/ QuadraticOnSimplex
    \/ RejectIndefinite \/ ToContinuous \/ ToMilp \/ Simplex \/ SimplexReturns
    \/ DiagonalForm \/ EqualityForm \/ NoClosedForm \/ TooManyPatterns \/ TryPattern \/ EnumerationTimesOut
    \/ EnumerationEnds \/ Iterate \/ LinearSkipsCorrection \/ Polish
    \/ BeginWork \/ DropLast \/ DropWorst \/ WorkStep \/ EndWork \/ Classify

SolveNext == Progress \/ ClockExpires \/ Finished

SolveSpec == SolveInit /\ [][SolveNext]_solveVars

(***************************************************************************)
(* Properties.                                                             *)
(***************************************************************************)
\* Every variable of the dispatch keeps its type.
SolveTypeOK ==
    /\ TypeOK
    /\ late \in BOOLEAN /\ converged \in BOOLEAN
    /\ stage \in {"dispatch", "simplex", "closed", "enumerate", "iterate", "correct",
                  "work", "working", "classify", "done"}
    /\ answer \in Results \cup {"NONE", "ERR_ARG", "ERR_UNSUPPORTED", "NODE_LIMIT"}
    /\ best \in {NoBest, 1, 2} /\ step \in Nat /\ quality \in Measures /\ saved \in Measures
    /\ handed \subseteq Measures /\ activity \in {"x", "x_bar"} /\ var_active \subseteq Cols /\ row_active \subseteq Rows

\* Whatever engine says so, an LP called INFEASIBLE has no point.
InfeasibleAnswered == answer = "INFEASIBLE" /\ Linear /\ ~ drifted => NoPoint

\* An LP is called UNBOUNDED only when no multipliers bound its objective.
UnboundedAnswered == answer = "UNBOUNDED" /\ Linear /\ ~ drifted => NoMultipliers

\* An LP is called OPTIMAL by the simplex of a point no other beats, whatever
\* precision was lost on the way, and by the first-order engine, which has no
\* certificate of it, of a point within the rows.
OptimumAnswered ==
    answer = "OPTIMAL" /\ Linear =>
        IF request.engine = "FIRST_ORDER" THEN quality.primal <= request.primal_tol ELSE Unbeaten

\* OPTIMAL is said of a convex quadratic problem's verified point only, however
\* the point was found and whatever the loop had flagged; Hessians too large for
\* the test are the exception.
OptimalIsVerified ==
    answer = "OPTIMAL" /\ request.kind = "QP" =>
        IsVerified(quality) /\ (request.tested => request.convex)

\* Tolerances under which a point the polish may keep is verified.
Mild == PolishBound <= Factor * request.primal_tol /\ PolishBound <= Factor * request.dual_tol

\* The loop, the polish, the working set and the result judge a quadratic
\* problem's point by four different tests.  Between them it ends up verified, or
\* no worse in sum than what the loop ended with; and, under mild tolerances, a
\* point that was verified when the loop ended is answered OPTIMAL.
LoopPointKept ==
    ~ Linear /\ stage \in {"work", "classify", "done"} =>
        \A q \in handed :
            /\ IsVerified(quality) \/ Score(quality) <= Score(q)
            /\ Mild /\ IsVerified(q) =>
                  IsVerified(quality) /\ (stage = "done" => answer = "OPTIMAL")

\* The working set holds every constraint once, within the space allocated for
\* it, its flags agree with it, and an equality never leaves it.
WorkingSetConsistent ==
    stage = "working" =>
        /\ Len(active) <= NCols + NRows /\ IsInjective(active)
        /\ var_active = {c.index : c \in {c \in ToSet(active) : c.kind = "column"}}
        /\ row_active = {c.index : c \in {c \in ToSet(active) : c.kind # "column"}}
        /\ \A i \in request.equalities : Equality(i) \in ToSet(active)

\* Unless time ran out, the residual reported is of the point reported, not of
\* the over-relaxed one.
ResidualIsOfPoint == answer \in {"OPTIMAL", "ITERATION_LIMIT"} => activity = "x"

\* The simplex carries basis, marks, values and bounds through pivots, flips and
\* refactorizations, in all of which they stay consistent.
BasisConsistent == SolveTypeOK /\ BasisExact /\ NonbasicAtBound

\* What sk_solve answers holds of the problem it was given: INFEASIBLE, UNBOUNDED
\* and the simplex's OPTIMAL of a linear one are proved, a quadratic optimum is
\* verified, a linear one of the first-order engine keeps the rows, and the
\* residual reported is of the point reported.
AnswerIsProven ==
    /\ InfeasibleAnswered /\ UnboundedAnswered /\ OptimumAnswered
    /\ OptimalIsVerified /\ ResidualIsOfPoint
=============================================================================

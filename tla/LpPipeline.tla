----------------------------- MODULE LpPipeline -----------------------------
(***************************************************************************)
(* solve_lp(): presolve, the simplex or the first-order method of module   *)
(* GpuPdlp or one as the fallback of the other, postsolve, and the check   *)
(* of the point against the caller's model.                                *)
(*                                                                         *)
(* Presolve and the simplex are modules of their own: here they return any *)
(* of their statuses.  Of a point only one thing is kept: whether          *)
(* postsolve makes it feasible for the caller's model.                     *)
(***************************************************************************)
EXTENDS GpuPdlp

CONSTANT Requests   \* method, use_presolve, and whether the rows left reach the threshold

ASSUME RequestsAssumption ==
    Requests \subseteq [method : {"SIMPLEX", "FIRST_ORDER", "HYBRID"}, use_presolve : BOOLEAN,
                        large : BOOLEAN]

VARIABLES
    request,
    stage,
    simplex,        \* the simplex's status, or NONE
    simplex_good,   \* its point is feasible for the caller's model
    pdlp,           \* NONE, FAILED or OK: pdlp_ok
    pdlp_good,
    status, source, \* the status of the solution and the engine its point is from
    fallback_used   \* first_order_fallback_used

engines == <<simplex, simplex_good, pdlp, pdlp_good>>
solution == <<status, source, fallback_used>>
lpVars == <<pdlpVars, request, stage, engines, solution>>

Proofs == {"INFEASIBLE", "UNBOUNDED"}
LpStatus == Proofs \cup {"OPTIMAL", "ITERATION_LIMIT", "NUMERICAL_FAILURE"}

LpInit ==
    /\ PdlpInit /\ request \in Requests
    /\ stage = "start" /\ simplex = "NONE" /\ simplex_good = FALSE
    /\ pdlp = "NONE" /\ pdlp_good = FALSE
    /\ status = "NUMERICAL_FAILURE" /\ source = "none" /\ fallback_used = FALSE

GoTo(s) == stage' = s /\ UNCHANGED <<pdlpVars, request, engines, solution>>
Settle(s, from) ==
    /\ status' = s /\ source' = from
    /\ stage' = IF s = "OPTIMAL" THEN "gate" ELSE "done"
    /\ UNCHANGED <<pdlpVars, request, engines>>

PresolveDecides ==
    /\ stage = "start" /\ request.use_presolve
    /\ \E s \in Proofs : Settle(s, "presolve")
    /\ UNCHANGED fallback_used

PresolveReduces == stage = "start" /\ request.use_presolve /\ GoTo("engine")
NoPresolve == stage = "start" /\ ~ request.use_presolve /\ GoTo("engine")

\* Nothing is left to optimize; the postsolved point still has to pass the gate.
EveryColumnFixed == /\ stage = "engine" /\ request.use_presolve
                    /\ Settle("OPTIMAL", "presolve") /\ UNCHANGED fallback_used

Leader == IF request.method = "FIRST_ORDER" \/ (request.method = "HYBRID" /\ request.large)
          THEN "pdlp" ELSE "simplex"
Lead == stage = "engine" /\ GoTo(Leader)

(***************************************************************************)
(* The first-order method.                                                 *)
(***************************************************************************)
PdlpRuns == stage = "pdlp" /\ pc # "done" /\ PdlpNext /\ UNCHANGED <<request, stage, engines, solution>>

\* As a candidate of HYBRID the point must be feasible for the caller's model.
Usable(good) == outcome = "converged" /\ (request.method = "HYBRID" => good)

AfterPdlp == IF request.method = "HYBRID" /\ pdlp' = "FAILED" /\ simplex = "NONE" THEN "simplex"
             ELSE "select"

PdlpReturns ==
    /\ stage = "pdlp" /\ pc = "done"
    /\ pdlp_good' \in BOOLEAN
    /\ pdlp' = IF Usable(pdlp_good') THEN "OK" ELSE "FAILED"
    /\ stage' = AfterPdlp
    /\ UNCHANGED <<pdlpVars, request, simplex, simplex_good, solution>>

\* No device, or a CUDA call that fails: nothing of the object is left, so that
\* the first call that can fail stands for all.
PdlpThrows ==
    /\ stage = "pdlp" /\ pc = "start"
    /\ pdlp' = "FAILED" /\ stage' = AfterPdlp
    /\ UNCHANGED <<pdlpVars, request, simplex, simplex_good, pdlp_good, solution>>

(***************************************************************************)
(* The simplex.  As the leader of HYBRID it has to optimize or to prove.   *)
(***************************************************************************)
\* Mutant: a proof is handed to the first-order method.
DecidedByOptimum(s) == s = "OPTIMAL"
Decided(s) == s \in Proofs \cup {"OPTIMAL"}

SimplexReturns ==
    /\ stage = "simplex"
    /\ simplex' \in LpStatus /\ simplex_good' \in BOOLEAN
    /\ stage' = IF request.method = "HYBRID" /\ ~ Decided(simplex') /\ pdlp = "NONE" THEN "pdlp"
                ELSE "select"
    /\ UNCHANGED <<pdlpVars, request, pdlp, pdlp_good, solution>>

\* Nothing catches what the simplex throws.
SimplexThrows == stage = "simplex" /\ GoTo("thrown")

(***************************************************************************)
(* The solution.                                                           *)
(***************************************************************************)
SelectPdlp ==
    /\ stage = "select" /\ pdlp = "OK"
    /\ fallback_used' = (request.method = "HYBRID" /\ ~ request.large)
    /\ Settle("OPTIMAL", "pdlp")

SelectSimplex ==
    /\ stage = "select" /\ pdlp # "OK" /\ simplex # "NONE"
    /\ Settle(simplex, "simplex") /\ UNCHANGED fallback_used

SelectNothing ==
    /\ stage = "select" /\ pdlp # "OK" /\ simplex = "NONE"
    /\ Settle("ITERATION_LIMIT", "none") /\ UNCHANGED fallback_used

\* Postsolve, and the residual of the point in the caller's model.
Gate ==
    /\ stage = "gate"
    /\ \E good \in IF source = "simplex" THEN {simplex_good}
                   ELSE IF source = "pdlp" THEN {pdlp_good} ELSE BOOLEAN :
          status' = IF good THEN "OPTIMAL" ELSE "NUMERICAL_FAILURE"
    /\ stage' = "done"
    /\ UNCHANGED <<pdlpVars, request, engines, source, fallback_used>>

Finished == stage \in {"done", "thrown"} /\ UNCHANGED lpVars

LpNext ==
    \/ PresolveDecides \/ PresolveReduces \/ NoPresolve \/ EveryColumnFixed \/ Lead
    \/ PdlpRuns \/ PdlpReturns \/ PdlpThrows \/ SimplexReturns \/ SimplexThrows
    \/ SelectPdlp \/ SelectSimplex \/ SelectNothing \/ Gate \/ Finished

LpSpec == LpInit /\ [][LpNext]_lpVars

(***************************************************************************)
(* Properties.                                                             *)
(***************************************************************************)
\* Every variable keeps its type.
LpTypeOK ==
    /\ PdlpTypeOK /\ request \in Requests
    /\ stage \in {"start", "engine", "pdlp", "simplex", "select", "gate", "done", "thrown"}
    /\ simplex \in LpStatus \cup {"NONE"} /\ pdlp \in {"NONE", "FAILED", "OK"}
    /\ simplex_good \in BOOLEAN /\ pdlp_good \in BOOLEAN /\ fallback_used \in BOOLEAN
    /\ status \in LpStatus /\ source \in {"none", "presolve", "pdlp", "simplex"}

\* A proof of the simplex is the answer, in whichever order the two methods ran.
ProofsAreKept == stage = "done" /\ simplex \in Proofs => status = simplex

\* The first-order answer is the point that converged, as it was evaluated; and
\* fallback_used says that the simplex had the instance before and failed.
AnswerConverged ==
    /\ stage = "done" /\ source = "pdlp" => outcome = "converged" /\ x_out = best.point
    /\ fallback_used => simplex \in {"ITERATION_LIMIT", "NUMERICAL_FAILURE"}

\* HYBRID gives up only when both methods were tried, with one exception: an
\* OPTIMAL of the simplex that the caller's model refuses.
BothWereTried ==
    stage = "done" /\ request.method = "HYBRID" /\ source # "presolve"
        /\ status \notin Proofs \cup {"OPTIMAL"} /\ simplex # "OPTIMAL"
    => simplex # "NONE" /\ pdlp # "NONE"

\* Whatever order blocks retire in and however far the host runs ahead, a launch
\* finds a clear ticket counter and the host decides on complete, fresh values.
StreamConsistent == LpTypeOK /\ TicketsAreClear /\ EvaluationsAreFresh

\* The point handed out as converged is the one whose residuals were measured,
\* through the read-back, the fallback and the selection.
ConvergedPointAnswered == ConvergedPointIsBest /\ AnswerConverged

\* HYBRID trades no proof for a guess and gives up only after both methods.
HybridIsComplete == ProofsAreKept /\ BothWereTried
=============================================================================

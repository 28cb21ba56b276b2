---------------------------- MODULE MilpContract ----------------------------
(***************************************************************************)
(* What solve_milp promises its caller: a sequence of incumbents, each a   *)
(* feasible point that beats the one before by more than the tolerance,    *)
(* and one final answer.  OPTIMAL and INFEASIBLE are claims about every    *)
(* feasible point; every other answer claims nothing.                      *)
(***************************************************************************)
EXTENDS MilpGap

CONSTANTS Feasible, Objective, NoPoint

VARIABLES best, verdict

Verdicts == {"OPTIMAL", "INFEASIBLE", "TIME_LIMIT", "NODE_LIMIT",
             "NUMERICAL_FAILURE", "UNBOUNDED_RELAXATION"}

Beats(p) == best = NoPoint \/ Objective[p] < Threshold(Objective[best])

Init == best = NoPoint /\ verdict = "NONE"

Improve ==
    /\ verdict = "NONE"
    /\ \E p \in Feasible : Beats(p) /\ best' = p
    /\ UNCHANGED verdict

Answer ==
    /\ verdict = "NONE"
    /\ verdict' \in Verdicts
    /\ verdict' = "OPTIMAL" => best # NoPoint /\ \A p \in Feasible : ~Beats(p)
    /\ verdict' = "INFEASIBLE" => Feasible = {}
    /\ UNCHANGED best

Next == Improve \/ Answer

Spec == Init /\ [][Next]_<<best, verdict>>

=============================================================================

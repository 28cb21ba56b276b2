--------------------------- MODULE BranchAndBound ---------------------------
(***************************************************************************)
(* The best-bound branch-and-bound loop of the C++ engine, solve_milp in   *)
(* src/milp/MilpSolver.cpp.  The loop is sequential; every call it makes   *)
(* that can answer in more than one way (the LP relaxation, the bound      *)
(* propagation, the cut separators, the heuristics) is a nondeterministic  *)
(* choice over the answers that call may give, and the wall clock runs     *)
(* beside the loop.                                                        *)
(*                                                                         *)
(* A node is the box its chain of bound changes materializes to, with the  *)
(* fields the queue orders by.  Objective values and bounds are integers   *)
(* in some unit, and Infinity stands for the infinite double.              *)
(***************************************************************************)
EXTENDS IntegerBoxes, MilpGap

CONSTANTS
    BoundValues,        \* the objective values a relaxation may return
    Infinity,
    NodeLimit,          \* options.node_limit, 0 for none
    TimeLimited,        \* options.time_limit_seconds > 0
    WarmStart,          \* options.warm_start_node_relaxations
    MaxPendingBases,    \* options.max_pending_warm_start_bases, 0 for none
    Features,           \* the optional cut rounds and heuristics switched on
    Faults,             \* the ways a relaxation may fail
    NoPoint, NoNode

AllFeatures == {"cuts", "gmi", "rounding", "slack", "rens", "pump", "dive"}

AllFaults == {"UNBOUNDED", "FAILURE", "REJECTED", "NONFINITE"}

ASSUME ObjectiveAssumption ==
    /\ Infinity \in Nat
    /\ \A p \in Feasible : -Infinity < Objective[p] /\ Objective[p] < Infinity
    /\ BoundValues \subseteq Int
    /\ \A v \in BoundValues : -Infinity < v /\ v < Infinity

ASSUME OptionAssumption ==
    /\ NodeLimit \in Nat
    /\ MaxPendingBases \in Nat
    /\ TimeLimited \in BOOLEAN
    /\ WarmStart \in BOOLEAN
    /\ Features \subseteq AllFeatures
    /\ Faults \subseteq AllFaults
    /\ NoPoint \notin Feasible

VARIABLES
    pc,          \* the stage of the loop body about to run
    open,        \* the priority queue of nodes
    active,      \* the node popped in this iteration
    box,         \* its bounds after rounding and propagation
    relaxation,  \* the answer of its LP
    incumbent,   \* the best point accepted so far
    status,      \* solution.status while the loop runs
    processed,   \* solution.nodes_processed, counted up to NodeLimit
    nextOrder,   \* next_node_order
    separated,   \* root_cuts_separated and root_gmi_separated
    rows,        \* how many times cut rows were appended to the workspace
    pending,     \* pending_basis: child order and row count of its basis
    scaled,      \* the row count node_scale was computed for, or none
    expired,     \* timed_out() would now answer true
    result       \* what the caller gets

vars == <<pc, open, active, box, relaxation, incumbent, status, processed,
          nextOrder, separated, rows, pending, scaled, expired, result>>

locals == <<active, box, relaxation>>
ledger == <<processed, nextOrder, separated, result>>
bases  == <<rows, pending, scaled>>

-----------------------------------------------------------------------------
(* Nodes, boxes and points *)

Node == [lower : [Columns -> Int], upper : [Columns -> Int],
         bound : Int, depth : Nat, order : Nat]

ASSUME NodeAssumption == NoNode \notin Node

Root == [lower |-> RootLower, upper |-> RootUpper,
         bound |-> -Infinity, depth |-> 0, order |-> 0]

\* Mutant: the queue pops the largest bound first.
PrecedesReversed(m, n) ==
    \/ m.bound > n.bound
    \/ m.bound = n.bound /\ m.depth < n.depth
    \/ m.bound = n.bound /\ m.depth = n.depth /\ m.order <= n.order

\* The queue's order: bound, then depth, then creation order.
Precedes(m, n) ==
    \/ m.bound < n.bound
    \/ m.bound = n.bound /\ m.depth < n.depth
    \/ m.bound = n.bound /\ m.depth = n.depth /\ m.order <= n.order

IsTop(n) == n \in open /\ \A m \in open : Precedes(n, m)

\* Mutant: any candidate no worse than the incumbent is accepted.
ImprovesOrEquals(p) ==
    incumbent = NoPoint \/ Objective[p] <= Objective[incumbent]

Improves(p) ==
    incumbent = NoPoint \/ Objective[p] < Threshold(Objective[incumbent])

\* No point of objective v or above can improve the incumbent.
Dominated(v) ==
    incumbent # NoPoint /\ v >= Threshold(Objective[incumbent])

\* consider_incumbent, for a point that passed the feasibility gate.
Consider(p) ==
    incumbent' = IF Improves(p) THEN p ELSE incumbent

NoRelaxation == [bound |-> 0, integral |-> FALSE, point |-> NoPoint]

-----------------------------------------------------------------------------
\* Mutant: solution.status keeps its default instead of being preset.
InitUnsetStatus ==
    /\ pc = "loop" /\ open = {Root} /\ active = NoNode /\ box = RootBox
    /\ relaxation = NoRelaxation /\ incumbent = NoPoint
    /\ status = "NUMERICAL_FAILURE"
    /\ processed = 0 /\ nextOrder = 1 /\ separated = {} /\ rows = 0
    /\ pending = {} /\ scaled = -1 /\ expired = FALSE
    /\ result = [status |-> "NONE", best_bound |-> 0]

Init ==
    /\ pc = "loop"
    /\ open = {Root}
    /\ active = NoNode
    /\ box = RootBox
    /\ relaxation = NoRelaxation
    /\ incumbent = NoPoint
    /\ status = "INFEASIBLE"
    /\ processed = 0
    /\ nextOrder = 1
    /\ separated = {}
    /\ rows = 0
    /\ pending = {}
    /\ scaled = -1
    /\ expired = FALSE
    /\ result = [status |-> "NONE", best_bound |-> 0]

(* How an iteration ends: the loop body's locals go out of scope. *)

\* Mutant: the finished node is still taken for the active one.
LeaveIterationKeeps ==
    /\ UNCHANGED active
    /\ box' = RootBox
    /\ relaxation' = NoRelaxation

LeaveIteration ==
    /\ active' = NoNode
    /\ box' = RootBox
    /\ relaxation' = NoRelaxation

\* `continue' without pushing anything: the node is done with.
Prune ==
    /\ pc' = "loop"
    /\ LeaveIteration
    /\ UNCHANGED <<open, status>>

\* Mutant: `continue' after a cut round without pushing the root again.
RequeueForgets ==
    /\ pc' = "loop"
    /\ LeaveIteration
    /\ UNCHANGED <<open, status>>

\* open.push(node); continue
Requeue ==
    /\ pc' = "loop"
    /\ open' = open \cup {active}
    /\ LeaveIteration
    /\ UNCHANGED status

\* solution.status = s; break, the node being neither in the queue nor done
Abandon(s) ==
    /\ pc' = "report"
    /\ LeaveIteration
    /\ status' = s
    /\ UNCHANGED open

\* open.push(node); solution.status = s; break
PushBack(s) ==
    /\ pc' = "report"
    /\ open' = open \cup {active}
    /\ LeaveIteration
    /\ status' = s

\* On to the next stage of the loop body.
Goto(stage) ==
    /\ pc' = stage
    /\ UNCHANGED <<open, active, box, relaxation, status>>

-----------------------------------------------------------------------------
(* The head of the loop *)

\* Mutant: the time limit is recorded but does not break out of the loop.
StopOnTimeContinues ==
    /\ pc = "loop" /\ open # {} /\ expired
    /\ status' = "TIME_LIMIT"
    /\ UNCHANGED <<pc, open, locals, incumbent, ledger, bases, expired>>

StopOnTime ==
    /\ pc = "loop" /\ open # {} /\ expired
    /\ pc' = "report"
    /\ status' = "TIME_LIMIT"
    /\ UNCHANGED <<open, locals, incumbent, ledger, bases, expired>>

StopOnNodes ==
    /\ pc = "loop" /\ open # {} /\ ~expired
    /\ NodeLimit > 0 /\ processed >= NodeLimit
    /\ pc' = "report"
    /\ status' = "NODE_LIMIT"
    /\ UNCHANGED <<open, locals, incumbent, ledger, bases, expired>>

\* The top of the queue becomes the active node, and its parent's basis
\* leaves the table the moment the node is popped.
Pop ==
    /\ pc = "loop" /\ ~expired
    /\ NodeLimit > 0 => processed < NodeLimit
    /\ \E n \in open :
          /\ IsTop(n)
          /\ active' = n
          /\ open' = open \ {n}
          /\ pending' = {e \in pending : e.order # n.order}
    /\ pc' = "screen"
    /\ processed' = IF NodeLimit > 0 THEN processed + 1 ELSE 0
    /\ UNCHANGED <<box, relaxation, status, incumbent, nextOrder, separated,
                   rows, scaled, expired, result>>

Exhausted ==
    /\ pc = "loop" /\ open = {}
    /\ pc' = "report"
    /\ UNCHANGED <<open, locals, status, incumbent, ledger, bases, expired>>

-----------------------------------------------------------------------------
(* Before the relaxation *)

PruneByInheritedBound ==
    /\ pc = "screen" /\ Dominated(active.bound)
    /\ Prune
    /\ UNCHANGED <<incumbent, ledger, bases, expired>>

\* Crossed bounds, a propagated row or the gcd test prove the node empty.
PruneByPropagation ==
    /\ pc = "screen" /\ ~Dominated(active.bound)
    /\ Points(active) = {}
    /\ Prune
    /\ UNCHANGED <<incumbent, ledger, bases, expired>>

Tighten ==
    /\ pc = "screen" /\ ~Dominated(active.bound)
    /\ pc' = "relax"
    /\ \E b \in Tightened(active, Feasible) : box' = b
    /\ UNCHANGED <<open, active, relaxation, status, incumbent, ledger, bases,
                   expired>>

-----------------------------------------------------------------------------
(* The relaxation *)

OutOfTimeBeforeRelaxation ==
    /\ pc = "relax" /\ expired
    /\ Abandon("TIME_LIMIT")
    /\ UNCHANGED <<incumbent, ledger, bases, expired>>

\* Nodes below the root go through a directly built Simplex with the Ruiz
\* factors node_scale, computed on first use.
ScaleOnce ==
    scaled' = IF active.depth > 0 /\ WarmStart /\ scaled = -1 THEN rows ELSE scaled

\* The LP gave up because the remaining budget it was handed ran out.
OutOfTimeInRelaxation ==
    /\ pc = "relax" /\ ~expired /\ TimeLimited
    /\ expired' = TRUE
    /\ ScaleOnce
    /\ Abandon("TIME_LIMIT")
    /\ UNCHANGED <<incumbent, ledger, rows, pending>>

RelaxationInfeasible ==
    /\ pc = "relax" /\ ~expired
    /\ Points(box) = {}
    /\ ScaleOnce
    /\ Prune
    /\ UNCHANGED <<incumbent, ledger, rows, pending, expired>>

RelaxationFails ==
    /\ pc = "relax" /\ ~expired
    /\ \/ "UNBOUNDED" \in Faults /\ Abandon("UNBOUNDED_RELAXATION")
       \/ "FAILURE" \in Faults /\ Abandon("NUMERICAL_FAILURE")
    /\ ScaleOnce
    /\ UNCHANGED <<incumbent, ledger, rows, pending, expired>>

\* What an OPTIMAL relaxation may return: a bound no worse than the parent's
\* that no feasible point of the box is below, at a fractional vertex, at a
\* feasible point, or (a numerical inconsistency) at an integral vertex that
\* is rejected once rounded: the original rows do not hold there, or its
\* objective has moved up to the threshold.
Relaxations ==
    {r \in [bound : BoundValues, integral : BOOLEAN,
            point : Points(box) \cup {NoPoint}] :
        /\ active.bound <= r.bound
        /\ \A p \in Points(box) : r.bound <= Objective[p]
        /\ \/ /\ ~r.integral /\ r.point = NoPoint
              /\ \E j \in Columns : box.lower[j] < box.upper[j]
           \/ /\ r.integral /\ r.point # NoPoint
              /\ Objective[r.point] = r.bound
           \/ /\ r.integral /\ r.point = NoPoint
              /\ "REJECTED" \in Faults}

\* Mutant: cuts are separated below the root instead of at it.
RelaxationOptimalDeepCuts ==
    /\ pc = "relax" /\ ~expired
    /\ \E r \in Relaxations : relaxation' = r
    /\ ScaleOnce
    /\ pc' = IF active.depth > 0 THEN "cuts" ELSE "bound"
    /\ UNCHANGED <<open, active, box, status, incumbent, ledger, rows, pending,
                   expired>>

RelaxationOptimal ==
    /\ pc = "relax" /\ ~expired
    /\ \E r \in Relaxations : relaxation' = r
    /\ ScaleOnce
    /\ pc' = IF active.depth = 0 THEN "cuts" ELSE "bound"
    /\ UNCHANGED <<open, active, box, status, incumbent, ledger, rows, pending,
                   expired>>

-----------------------------------------------------------------------------
(* Root cut rounds: one of rounding and cover cuts, then one of GMI cuts *)

CutRound(kind) == kind \in Features /\ kind \notin separated

AppendCuts ==
    /\ rows' = rows + 1
    /\ Requeue
    /\ UNCHANGED <<pending, scaled>>

SeparateRootCuts ==
    /\ pc = "cuts"
    /\ IF CutRound("cuts")
       THEN /\ separated' = separated \cup {"cuts"}
            /\ AppendCuts \/ (Goto("gmi") /\ UNCHANGED bases)
       ELSE Goto("gmi") /\ UNCHANGED <<separated, bases>>
    /\ UNCHANGED <<incumbent, processed, nextOrder, expired, result>>

SeparateRootGmi ==
    /\ pc = "gmi"
    /\ IF CutRound("gmi")
       THEN /\ separated' = separated \cup {"gmi"}
            /\ AppendCuts \/ (Goto("bound") /\ UNCHANGED bases)
       ELSE Goto("bound") /\ UNCHANGED <<separated, bases>>
    /\ UNCHANGED <<incumbent, processed, nextOrder, expired, result>>

-----------------------------------------------------------------------------
(* Pruning by the relaxation, and the candidate it proposes *)

PruneByRelaxation ==
    /\ pc = "bound" /\ Dominated(relaxation.bound)
    /\ Prune
    /\ UNCHANGED <<incumbent, ledger, bases, expired>>

AcceptIntegral ==
    /\ pc = "bound" /\ ~Dominated(relaxation.bound)
    /\ relaxation.integral /\ relaxation.point # NoPoint
    /\ Consider(relaxation.point)
    /\ Goto("repair")
    /\ UNCHANGED <<ledger, bases, expired>>

\* An integral vertex that the original rows reject is not branched on.
RejectIntegral ==
    /\ pc = "bound" /\ ~Dominated(relaxation.bound)
    /\ relaxation.integral /\ relaxation.point = NoPoint
    /\ Abandon("NUMERICAL_FAILURE")
    /\ UNCHANGED <<incumbent, ledger, bases, expired>>

RoundFractional ==
    /\ pc = "bound" /\ ~Dominated(relaxation.bound)
    /\ ~relaxation.integral
    /\ \/ \E p \in Points(box) : "rounding" \in Features /\ Consider(p)
       \/ UNCHANGED incumbent
    /\ Goto("repair")
    /\ UNCHANGED <<ledger, bases, expired>>

-----------------------------------------------------------------------------
(* Heuristics; each may find any feasible point of the box, or nothing *)

RunsRepair == active.depth = 0 /\ "slack" \in Features /\ ~expired

RepairSlack ==
    /\ pc = "repair"
    /\ \/ /\ RunsRepair
          /\ UNCHANGED incumbent \/ (\E p \in Points(box) : Consider(p))
          /\ Goto("repaired")
       \/ /\ ~RunsRepair
          /\ UNCHANGED incumbent
          /\ Goto("integral")
    /\ UNCHANGED <<ledger, bases, expired>>

CheckTimeAfterRepair ==
    /\ pc = "repaired"
    /\ IF expired THEN PushBack("TIME_LIMIT") ELSE Goto("integral")
    /\ UNCHANGED <<incumbent, ledger, bases, expired>>

FinishIntegral ==
    /\ pc = "integral"
    /\ IF relaxation.integral THEN Prune
       ELSE Goto(IF active.depth = 0 /\ incumbent = NoPoint THEN "rens" ELSE "dive")
    /\ UNCHANGED <<incumbent, ledger, bases, expired>>

Rens ==
    /\ pc = "rens"
    /\ \/ UNCHANGED incumbent
       \/ "rens" \in Features /\ \E p \in Points(box) : Consider(p)
    /\ Goto("pump")
    /\ UNCHANGED <<ledger, bases, expired>>

RunsPump == "pump" \in Features /\ incumbent = NoPoint

\* The clock is read after RENS, and at every iteration of the pump.
FeasibilityPump ==
    /\ pc = "pump"
    /\ \/ /\ expired \/ (TimeLimited /\ RunsPump)
          /\ expired' = TRUE
          /\ UNCHANGED incumbent
          /\ PushBack("TIME_LIMIT")
       \/ /\ ~expired
          /\ UNCHANGED incumbent \/ (RunsPump /\ \E p \in Points(box) : Consider(p))
          /\ Goto("dive")
          /\ UNCHANGED expired
    /\ UNCHANGED <<ledger, bases>>

\* The dive runs at the first three levels, while there is no incumbent.
RunsDive == active.depth <= 2 /\ incumbent = NoPoint /\ "dive" \in Features

\* It reads the clock at every depth.
Dive ==
    /\ pc = "dive"
    /\ \/ /\ RunsDive /\ TimeLimited
          /\ expired' = TRUE
          /\ UNCHANGED incumbent
          /\ PushBack("TIME_LIMIT")
       \/ /\ RunsDive => ~expired
          /\ UNCHANGED incumbent \/ (RunsDive /\ \E p \in Points(box) : Consider(p))
          /\ Goto("improve")
          /\ UNCHANGED expired
    /\ UNCHANGED <<ledger, bases>>

\* Every trial of attempt_local_improvement crosses the bounds it has just
\* fixed and is skipped, so only the clock check that follows it is left.
CheckTimeAfterImprovement ==
    /\ pc = "improve"
    /\ IF active.depth = 0 /\ incumbent # NoPoint /\ expired
       THEN PushBack("TIME_LIMIT")
       ELSE Goto("branch")
    /\ UNCHANGED <<incumbent, ledger, bases, expired>>

-----------------------------------------------------------------------------
(* Branching *)

BranchFails ==
    /\ pc = "branch" /\ "NONFINITE" \in Faults
    /\ Abandon("NUMERICAL_FAILURE")
    /\ UNCHANGED <<incumbent, ledger, bases, expired>>

\* Mutant: a child's bound is loosened by a safety margin.
ChildLoosened(n, l, u, b, k) ==
    [lower |-> l, upper |-> u, bound |-> b - 1, depth |-> n.depth + 1,
     order |-> k]

\* Mutant: a child's bound is rounded up past the relaxation's.
ChildRoundsUp(n, l, u, b, k) ==
    [lower |-> l, upper |-> u, bound |-> b + 1, depth |-> n.depth + 1,
     order |-> k]

\* A child of node n, created under the bound b of n's relaxation.
Child(n, l, u, b, k) ==
    [lower |-> l, upper |-> u, bound |-> b, depth |-> n.depth + 1, order |-> k]

\* retain_basis: the table takes a child's basis while it is below its cap.
Retain(table, k) ==
    IF MaxPendingBases = 0 \/ Cardinality(table) < MaxPendingBases
    THEN table \cup {[order |-> k, rows |-> rows]}
    ELSE table

\* Only the directly built Simplex exports the basis the children start from.
Branch ==
    /\ pc = "branch"
    /\ \E j \in Columns : \E v \in box.lower[j] .. (box.upper[j] - 1) :
          open' = open \cup
             {Child(active, active.lower, WithUpper(active, j, v),
                    relaxation.bound, nextOrder),
              Child(active, WithLower(active, j, v + 1), active.upper,
                    relaxation.bound, nextOrder + 1)}
    /\ pending' = IF active.depth > 0 /\ WarmStart
                  THEN Retain(Retain(pending, nextOrder), nextOrder + 1)
                  ELSE pending
    /\ nextOrder' = nextOrder + 2
    /\ pc' = "loop"
    /\ LeaveIteration
    /\ UNCHANGED <<status, incumbent, processed, separated, rows, scaled,
                   expired, result>>

-----------------------------------------------------------------------------
(* The report, and the clock *)

\* current_best_bound
IsBestBound(b) ==
    \/ \E n \in open : IsTop(n) /\ b = n.bound
    \/ open = {} /\ incumbent # NoPoint /\ b = Objective[incumbent]
    \/ open = {} /\ incumbent = NoPoint /\ b = Infinity

StopStatuses ==
    {"TIME_LIMIT", "NODE_LIMIT", "NUMERICAL_FAILURE", "UNBOUNDED_RELAXATION"}

FinalStatus ==
    IF status \in StopStatuses THEN status
    ELSE IF incumbent # NoPoint THEN "OPTIMAL" ELSE "INFEASIBLE"

Report ==
    /\ pc = "report"
    /\ \E b \in {n.bound : n \in open} \cup {Infinity} \cup
                {Objective[p] : p \in Feasible} :
          /\ IsBestBound(b)
          /\ result' = [status |-> FinalStatus, best_bound |-> b]
    /\ pc' = "done"
    /\ UNCHANGED <<open, locals, status, incumbent, processed, nextOrder,
                   separated, bases, expired>>

ClockExpires ==
    /\ TimeLimited /\ ~expired /\ pc # "done"
    /\ expired' = TRUE
    /\ UNCHANGED <<pc, open, locals, status, incumbent, ledger, bases>>

Done == pc = "done" /\ UNCHANGED vars

Step ==
    \/ StopOnTime \/ StopOnNodes \/ Pop \/ Exhausted
    \/ PruneByInheritedBound \/ PruneByPropagation \/ Tighten
    \/ OutOfTimeBeforeRelaxation \/ OutOfTimeInRelaxation
    \/ RelaxationInfeasible \/ RelaxationFails \/ RelaxationOptimal
    \/ SeparateRootCuts \/ SeparateRootGmi
    \/ PruneByRelaxation \/ AcceptIntegral \/ RejectIntegral \/ RoundFractional
    \/ RepairSlack \/ CheckTimeAfterRepair \/ FinishIntegral
    \/ Rens \/ FeasibilityPump \/ Dive \/ CheckTimeAfterImprovement
    \/ BranchFails \/ Branch
    \/ Report

Next == Step \/ ClockExpires \/ Done

Spec == Init /\ [][Next]_vars

\* The loop runs on its own thread and none of its steps blocks.
FairSpec == Spec /\ WF_vars(Step)

-----------------------------------------------------------------------------
(* Properties *)

Stages ==
    {"loop", "screen", "relax", "cuts", "gmi", "bound", "repair", "repaired",
     "integral", "rens", "pump", "dive", "improve", "branch", "report", "done"}

SearchTypeOK ==
    /\ pc \in Stages
    /\ open \subseteq Node
    /\ active \in Node \cup {NoNode}
    /\ active \in Node <=> pc \notin {"loop", "report", "done"}
    /\ box \in Box
    /\ relaxation \in [bound : Int, integral : BOOLEAN,
                       point : Feasible \cup {NoPoint}]
    /\ incumbent \in Feasible \cup {NoPoint}
    /\ status \in StopStatuses \cup {"INFEASIBLE"}

RecordsTypeOK ==
    /\ processed \in Nat /\ nextOrder \in Nat /\ rows \in Nat
    /\ separated \subseteq {"cuts", "gmi"}
    /\ pending \subseteq [order : Nat, rows : Nat]
    /\ scaled \in Nat \cup {-1}
    /\ expired \in BOOLEAN
    /\ result \in [status : StopStatuses \cup {"NONE", "OPTIMAL", "INFEASIBLE"},
                   best_bound : Int]

\* The type of every variable; a stage between Pop and the end of an
\* iteration has an active node, and no other stage has one.
TypeOK == SearchTypeOK /\ RecordsTypeOK

\* The nodes whose subtrees are still to be explored.
Held == open \cup (IF active = NoNode THEN {} ELSE {active})

\* Until the loop breaks with an error or a timeout, every feasible point of
\* the model lies in the box of a node that is queued or being processed, or
\* can no longer improve the incumbent: no prune, branch, cut round,
\* propagation or push-back of solve_milp ever loses one.
NothingLost ==
    status \in {"INFEASIBLE", "NODE_LIMIT"} =>
        \A p \in Feasible :
            Dominated(Objective[p]) \/ \E n \in Held : p \in Points(n)

\* The bound a node is queued under is below every feasible point of its box,
\* so pruning and ordering by the inherited bound is safe.
InheritedBoundValid ==
    \A n \in Held : \A p \in Points(n) : n.bound <= Objective[p]

\* The stages that hold a solved relaxation of the active node.
Solved == {"cuts", "gmi", "bound", "repair", "repaired", "integral", "rens",
           "pump", "dive", "improve", "branch"}

\* The box the LP works on lies within the active node's bounds, and
\* propagation kept all of its points.
BoxHolds ==
    pc \in Solved \cup {"relax"} =>
        /\ Points(active) \subseteq Points(box)
        /\ \A j \in Columns : /\ active.lower[j] <= box.lower[j]
                              /\ box.upper[j] <= active.upper[j]

\* The relaxation is below every point of that box and not below the bound
\* the node inherited; an integral one has been offered as an incumbent by
\* the time it is dropped.
RelaxationHolds ==
    pc \in Solved =>
        /\ active.bound <= relaxation.bound
        /\ \A p \in Points(box) : relaxation.bound <= Objective[p]
        /\ relaxation.integral /\ relaxation.point # NoPoint =>
              relaxation.bound = Objective[relaxation.point]
        /\ relaxation.integral /\ pc \in {"repair", "repaired", "integral"} =>
              Dominated(relaxation.bound)

\* Status and result say how far the loop has come: the preset status until
\* it breaks, an empty queue if it ran dry, the final answer at the end.
StatusHolds ==
    /\ pc \notin {"report", "done"} => status = "INFEASIBLE"
    /\ pc \in {"report", "done"} /\ status = "INFEASIBLE" => open = {}
    /\ pc # "done" => result.status = "NONE"
    /\ pc = "done" => result.status = FinalStatus /\ IsBestBound(result.best_bound)

\* What the loop maintains at every stage: strong enough to be inductive.
SearchInvariant ==
    /\ TypeOK
    /\ InheritedBoundValid
    /\ NothingLost
    /\ BoxHolds
    /\ RelaxationHolds
    /\ StatusHolds

\* solve_milp answers OPTIMAL only with an incumbent that no feasible point
\* beats by more than the objective tolerance, and INFEASIBLE only when the
\* model has no feasible point.
VerdictProven ==
    /\ result.status = "OPTIMAL" =>
          incumbent \in Feasible /\ \A p \in Feasible : Dominated(Objective[p])
    /\ result.status = "INFEASIBLE" => Feasible = {}

\* After a node limit, no feasible point that would improve the incumbent is
\* below the reported bound.
NodeLimitBoundHolds ==
    result.status = "NODE_LIMIT" =>
        \A p \in Feasible :
            result.best_bound <= Objective[p] \/ Dominated(Objective[p])

\* Every basis waiting in pending_basis, and the cached Ruiz factors, were
\* made for the rows the workspace has now: no cut is appended after the
\* first direct node solve.
BasesFitWorkspace ==
    /\ \A e \in pending : e.rows = rows
    /\ scaled \in {-1, rows}

\* pending_basis holds at most its cap, and only bases of nodes that are
\* still queued: none outlives the node it is for.
PendingMatchesQueue ==
    /\ MaxPendingBases > 0 => Cardinality(pending) <= MaxPendingBases
    /\ \A e \in pending : \E n \in open : n.order = e.order

\* The basis table may be used at any time: what waits in it belongs to a queued
\* node and fits the workspace that node will be solved in.
BasisTableUsable == BasesFitWorkspace /\ PendingMatchesQueue

\* The global dual bound, the least bound of a node still to be explored,
\* never goes down: a node enters the queue only under the bound of one that
\* was already held.
DualBoundNeverRetreats ==
    [][\A n \in Held' : \E m \in Held : m.bound <= n.bound]_vars

\* The loop ends whatever its relaxations and heuristics answer, and however
\* time runs out.
Termination == <>(pc = "done")

\* Without limits and failures, solve_milp answers, and answers correctly: the
\* cut rounds, requeues and prunes leave no way to go on for ever.
Decides ==
    <>(result.status = IF Feasible = {} THEN "INFEASIBLE" ELSE "OPTIMAL")

\* The search implements the contract of its caller.
Contract ==
    INSTANCE MilpContract WITH best <- incumbent, verdict <- result.status

ImplementsContract == Contract!Spec

=============================================================================

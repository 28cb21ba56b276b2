----------------------------- MODULE NativeMilp -----------------------------
(***************************************************************************)
(* The branch-and-bound driver of the C engine, sk_milp_solve in           *)
(* c/src/sk_milp.c: depth-first plunging into the cheaper child, and a     *)
(* heap of the siblings left behind to resume from when a plunge ends.     *)
(* As in BranchAndBound, what the relaxation, the propagation and the      *)
(* rounding heuristic answer is a nondeterministic choice.                 *)
(*                                                                         *)
(* Objective values are integers in some unit; the strict improvement      *)
(* slack 1e-12 of the code is below that unit.                             *)
(***************************************************************************)
EXTENDS IntegerBoxes

CONSTANTS
    Models,           \* the feasible sets a caller's model may have
    BoundValues,      \* the objective values a relaxation may return
    Infinity,         \* SK_INFINITY
    GapAbs,           \* o->mip_gap_abs
    GapPercent,       \* o->mip_gap_rel, in hundredths
    NodeLimit,        \* o->node_limit, 0 for none
    TimeLimited,      \* o->time_limit > 0
    Heuristics,       \* o->mip_heuristics
    HeuristicPeriod,  \* nodes between two rounding attempts, 64 in the code
    Faults,           \* the ways a relaxation may fail
    NoPoint, NoNode

ASSUME GapAssumption ==
    /\ GapAbs \in Nat /\ GapPercent \in Nat
    /\ Infinity \in Nat
    /\ Models \subseteq SUBSET Feasible
    /\ BoundValues \subseteq Int
    /\ \A p \in Feasible : Objective[p] < Infinity

ASSUME OptionAssumption ==
    /\ NodeLimit \in Nat
    /\ HeuristicPeriod \in Nat \ {0, 1}
    /\ TimeLimited \in BOOLEAN /\ Heuristics \in BOOLEAN
    /\ Faults \subseteq {"UNBOUNDED", "NUMERIC_FAILURE", "ITERATION_LIMIT", "REJECTED"}
    /\ NoPoint \notin Feasible

VARIABLES
    model,       \* the feasible points of the model in hand
    pc,          \* the stage of the driver
    heap,        \* the open nodes but the one in hand
    current,     \* the node in hand
    box,         \* nlow and nupp after propagation
    relaxation,  \* what the scratch solution M.ls holds
    incumbent,   \* M.incumbent
    nodes,       \* M.st.nodes
    rootBound,   \* M.st.root_bound
    final,       \* the result the driver will report
    expired,     \* the time limit has passed
    result,      \* what the caller gets
    failed       \* history: some relaxation failed, so that its node proves nothing

vars == <<model, pc, heap, current, box, relaxation, incumbent, nodes, rootBound,
          final, expired, result, failed>>

\* What no step of the search but a failing relaxation changes.
Known == <<model, failed>>

\* The feasible points of the model inside a box or a node.
Reach(b) == Points(b) \cap model

Node == [lower : [Columns -> Int], upper : [Columns -> Int], bound : Int]

ASSUME NodeAssumption == NoNode \notin Node

NoRelaxation == [bound |-> 0, integral |-> FALSE, point |-> NoPoint]

-----------------------------------------------------------------------------
(* The incumbent and what it rules out *)

Abs(v) == IF v < 0 THEN -v ELSE v

\* Mutant: the cutoff asks for a whole unit of improvement.
CutOffTooEarly(v) ==
    incumbent # NoPoint /\ v >= Objective[incumbent] - GapAbs - 1

\* v reaches cutoff = incumbent_obj - gap_abs
CutOff(v) == incumbent # NoPoint /\ v >= Objective[incumbent] - GapAbs

\* The gap between the incumbent and a bound b is within a tolerance.
Closed(b) ==
    /\ incumbent # NoPoint
    /\ LET inc == Objective[incumbent] IN
          \/ Abs(inc - b) <= GapAbs
          \/ 100 * Abs(inc - b) <= GapPercent * Abs(inc)

\* The points incumbent-driven objective propagation must keep.
Promising ==
    {p \in model : incumbent = NoPoint \/ Objective[p] <= Objective[incumbent] - GapAbs}

Improves(p) == incumbent = NoPoint \/ Objective[p] < Objective[incumbent]

Held == heap \cup (IF current = NoNode THEN {} ELSE {current})

\* Mutant: the gap test reads the node in hand instead of the weakest one.
IsWeakestInHand(b) == b = current.bound

\* b is the weakest open bound, including the node in hand.
IsWeakest(b) ==
    /\ \A n \in Held : b <= n.bound
    /\ \E n \in Held : b = n.bound

-----------------------------------------------------------------------------
(* How a stage ends *)

\* node_free(current); current = NULL; continue
Drop ==
    /\ pc' = "next"
    /\ current' = NoNode
    /\ box' = RootBox
    /\ relaxation' = NoRelaxation
    /\ UNCHANGED <<heap, final>>

\* node_free(current); current = NULL; final = r; break
Stop(r) ==
    /\ pc' = "finish"
    /\ current' = NoNode
    /\ box' = RootBox
    /\ relaxation' = NoRelaxation
    /\ final' = r
    /\ UNCHANGED heap

Init ==
    /\ model \in Models /\ failed = FALSE
    /\ pc = "root"
    /\ heap = {}
    /\ current = NoNode
    /\ box = RootBox
    /\ relaxation = NoRelaxation
    /\ incumbent = NoPoint
    /\ nodes = 0
    /\ rootBound = 0
    /\ final = "NOT_RUN"
    /\ expired = FALSE
    /\ result = [status |-> "NONE", dual_bound |-> 0]

-----------------------------------------------------------------------------
(* The root *)

RootPropagatedAway ==
    /\ pc = "root" /\ model = {}
    /\ Stop("INFEASIBLE")
    /\ UNCHANGED <<Known, incumbent, nodes, rootBound, expired, result>>

PropagateRoot ==
    /\ pc = "root"
    /\ pc' = "solve_root"
    /\ \E b \in Tightened(RootBox, model) : box' = b
    /\ UNCHANGED <<Known, heap, current, relaxation, incumbent, nodes, rootBound, final,
                   expired, result>>

RootOutOfTime ==
    /\ pc = "solve_root" /\ TimeLimited
    /\ expired' = TRUE
    /\ Stop("TIME_LIMIT")
    /\ UNCHANGED <<Known, incumbent, nodes, rootBound, result>>

RootUnsolved ==
    /\ pc = "solve_root" /\ ~expired
    /\ \/ Reach(box) = {} /\ Stop("INFEASIBLE") /\ UNCHANGED failed
       \/ (\E r \in Faults \ {"REJECTED"} : Stop(r)) /\ failed' = TRUE
    /\ UNCHANGED <<model, incumbent, nodes, rootBound, expired, result>>

\* The root relaxation is solved; its node carries its own value as bound and
\* no bound change.  The three rounding modes may find a first incumbent.
SolveRoot ==
    /\ pc = "solve_root" /\ ~expired
    /\ \E v \in BoundValues :
          /\ \A p \in Reach(box) : v <= Objective[p]
          /\ rootBound' = v
          /\ current' = [lower |-> RootLower, upper |-> RootUpper, bound |-> v]
    /\ incumbent' \in {NoPoint} \cup (IF Heuristics THEN Reach(box) ELSE {})
    /\ pc' = "next"
    /\ box' = RootBox
    /\ UNCHANGED <<Known, heap, relaxation, nodes, final, expired, result>>

-----------------------------------------------------------------------------
(* The head of the search loop *)

\* A plunge goes on with the node in hand; otherwise the heap gives one of
\* the nodes of least bound.
Take ==
    /\ pc = "next"
    /\ \/ current # NoNode /\ UNCHANGED <<heap, current>>
       \/ /\ current = NoNode
          /\ \E n \in heap : /\ \A m \in heap : n.bound <= m.bound
                             /\ current' = n
                             /\ heap' = heap \ {n}
    /\ pc' = "limits"
    /\ UNCHANGED <<Known, box, relaxation, incumbent, nodes, rootBound, final, expired,
                   result>>

Exhausted ==
    /\ pc = "next" /\ current = NoNode /\ heap = {}
    /\ Stop(IF incumbent # NoPoint THEN "OPTIMAL" ELSE "INFEASIBLE")
    /\ UNCHANGED <<Known, incumbent, nodes, rootBound, expired, result>>

StopOnTime ==
    /\ pc = "limits" /\ expired
    /\ Stop("TIME_LIMIT")
    /\ UNCHANGED <<Known, incumbent, nodes, rootBound, expired, result>>

AtNodeLimit == NodeLimit > 0 /\ nodes >= NodeLimit

\* Mutant: the node limit is recorded but does not break out of the loop.
StopOnNodesContinues ==
    /\ pc = "limits" /\ ~expired /\ AtNodeLimit
    /\ final' = "ITERATION_LIMIT"
    /\ UNCHANGED <<Known, pc, heap, current, box, relaxation, incumbent, nodes,
                   rootBound, expired, result>>

StopOnNodes ==
    /\ pc = "limits" /\ ~expired /\ AtNodeLimit
    /\ Stop("ITERATION_LIMIT")
    /\ UNCHANGED <<Known, incumbent, nodes, rootBound, expired, result>>

GapClosed == \E n \in Held : IsWeakest(n.bound) /\ Closed(n.bound)

StopOnGap ==
    /\ pc = "limits" /\ ~expired /\ ~AtNodeLimit
    /\ GapClosed
    /\ Stop("OPTIMAL")
    /\ UNCHANGED <<Known, incumbent, nodes, rootBound, expired, result>>

DropByBound ==
    /\ pc = "limits" /\ ~expired /\ ~AtNodeLimit /\ ~GapClosed
    /\ \/ CutOff(current.bound)
       \/ Reach(current) \cap Promising = {}
    /\ Drop
    /\ UNCHANGED <<Known, incumbent, nodes, rootBound, expired, result>>

Propagate ==
    /\ pc = "limits" /\ ~expired /\ ~AtNodeLimit /\ ~GapClosed
    /\ ~CutOff(current.bound)
    /\ pc' = "solve"
    /\ \E b \in Tightened(current, Promising) : box' = b
    /\ nodes' = nodes + 1
    /\ UNCHANGED <<Known, heap, current, relaxation, incumbent, rootBound, final,
                   expired, result>>

-----------------------------------------------------------------------------
(* The relaxation of a node *)

OutOfTime ==
    /\ pc = "solve" /\ TimeLimited
    /\ expired' = TRUE
    /\ Stop("TIME_LIMIT")
    /\ UNCHANGED <<Known, incumbent, nodes, rootBound, result>>

\* Every other answer but OPTIMAL drops the node: an infeasible box, and a
\* relaxation that failed.
DropUnsolved ==
    /\ pc = "solve" /\ ~expired
    /\ \/ Reach(box) = {} /\ UNCHANGED failed
       \/ Faults \ {"REJECTED"} # {} /\ failed' = TRUE
    /\ Drop
    /\ UNCHANGED <<model, incumbent, nodes, rootBound, expired, result>>

\* The value may lie below the bound of the node in hand: the root was bounded
\* after eight rounds of propagation and is solved again after four.
Solve ==
    /\ pc = "solve" /\ ~expired
    /\ \E v \in BoundValues :
          /\ \A p \in Reach(box) : v <= Objective[p]
          /\ \/ /\ \E j \in Columns : box.lower[j] < box.upper[j]
                /\ relaxation' = [bound |-> v, integral |-> FALSE, point |-> NoPoint]
                /\ UNCHANGED failed
             \/ \E p \in Reach(box) :
                /\ Objective[p] = v
                /\ relaxation' = [bound |-> v, integral |-> TRUE, point |-> p]
                /\ UNCHANGED failed
             \/ /\ "REJECTED" \in Faults
                /\ relaxation' = [bound |-> v, integral |-> TRUE, point |-> NoPoint]
                /\ failed' = TRUE
    /\ pc' = "decide"
    /\ UNCHANGED <<model, heap, current, box, incumbent, nodes, rootBound, final, expired,
                   result>>

DropByRelaxation ==
    /\ pc = "decide" /\ CutOff(relaxation.bound)
    /\ Drop
    /\ UNCHANGED <<Known, incumbent, nodes, rootBound, expired, result>>

\* An integral relaxation becomes the incumbent unless milp_accept's check of
\* the original model rejects it; the node is freed either way.
TakeIntegral ==
    /\ pc = "decide" /\ ~CutOff(relaxation.bound) /\ relaxation.integral
    /\ incumbent' = IF relaxation.point # NoPoint /\ Improves(relaxation.point)
                    THEN relaxation.point ELSE incumbent
    /\ Drop
    /\ UNCHANGED <<Known, nodes, rootBound, expired, result>>

\* What every HeuristicPeriod-th node finds by rounding its relaxation, fixing
\* the columns and solving again into the same scratch solution, if anything.
Roundings ==
    {NoPoint} \cup (IF Heuristics /\ nodes % HeuristicPeriod = 1 THEN Reach(box) ELSE {})

RoundRelaxation(q) ==
    incumbent' = IF q # NoPoint /\ Improves(q) THEN q ELSE incumbent

\* A value of a column, by its floor and its ceiling.
Between(v) == [floor |-> v, ceil |-> v + 1]

\* The scratch value of column j once rounding found q.
Scratch(relaxed, q, j) ==
    IF q = NoPoint THEN relaxed ELSE [floor |-> q[j], ceil |-> q[j]]

\* Mutant: the branch value is the one the rounding left in the scratch solution.
BranchValueAfter(relaxed, scratch) == scratch

\* branch_value is read of the relaxation that chose the column, and the
\* rounding puts that relaxation back when it is done.
BranchValue(relaxed, scratch) == relaxed

Plunge(a, b) == current' = a /\ heap' = heap \cup {b}

\* Mutant: a child is bounded a unit above the relaxation, as if the objective
\* took steps of a unit where a node need not.
ChildRoundedUp(l, u) == [lower |-> l, upper |-> u, bound |-> relaxation.bound + 1]

\* node_child: a node under the value of the relaxation that was branched on.
Child(l, u) == [lower |-> l, upper |-> u, bound |-> relaxation.bound]

Branch ==
    /\ pc = "decide" /\ ~CutOff(relaxation.bound) /\ ~relaxation.integral
    /\ \E q \in Roundings : \E j \in Columns : \E v \in box.lower[j] .. (box.upper[j] - 1) :
          LET at == BranchValue(Between(v), Scratch(Between(v), q, j))
              down == Child(current.lower, WithUpper(current, j, at.floor))
              up == Child(WithLower(current, j, at.ceil), current.upper)
          IN  /\ RoundRelaxation(q)
              /\ Plunge(down, up) \/ Plunge(up, down)
    /\ pc' = "next"
    /\ box' = RootBox
    /\ relaxation' = NoRelaxation
    /\ UNCHANGED <<Known, nodes, rootBound, final, expired, result>>

-----------------------------------------------------------------------------
(* The report *)

\* The bound reported: the least of the incumbent, the node still in hand
\* and the heap, or the root's bound while there is no incumbent.
ReportedBounds ==
    IF incumbent = NoPoint /\ final # "INFEASIBLE" THEN {rootBound}
    ELSE LET candidates == {n.bound : n \in Held} \cup
                 {IF incumbent # NoPoint THEN Objective[incumbent] ELSE Infinity}
         IN  {b \in candidates : \A c \in candidates : b <= c}

Report ==
    /\ pc = "finish"
    /\ \E b \in ReportedBounds :
          result' = [status |-> IF incumbent # NoPoint /\ final \notin
                                   {"OPTIMAL", "TIME_LIMIT", "ITERATION_LIMIT"}
                                THEN "GAP_LIMIT" ELSE final,
                     dual_bound |-> b]
    /\ pc' = "done"
    /\ UNCHANGED <<Known, heap, current, box, relaxation, incumbent, nodes, rootBound,
                   final, expired>>

ClockExpires ==
    /\ TimeLimited /\ ~expired /\ pc # "done"
    /\ expired' = TRUE
    /\ UNCHANGED <<Known, pc, heap, current, box, relaxation, incumbent, nodes,
                   rootBound, final, result>>

Done == pc = "done" /\ UNCHANGED vars

Step ==
    \/ RootPropagatedAway \/ PropagateRoot \/ RootOutOfTime \/ RootUnsolved
    \/ SolveRoot
    \/ Take \/ Exhausted \/ StopOnTime \/ StopOnNodes \/ StopOnGap
    \/ DropByBound \/ Propagate
    \/ OutOfTime \/ DropUnsolved \/ Solve
    \/ DropByRelaxation \/ TakeIntegral \/ Branch
    \/ Report

Next == Step \/ ClockExpires \/ Done

Spec == Init /\ [][Next]_vars

FairSpec == Spec /\ WF_vars(Step)

-----------------------------------------------------------------------------
(* Properties *)

\* The type of every variable.
TypeOK ==
    /\ model \in Models /\ failed \in BOOLEAN
    /\ pc \in {"root", "solve_root", "next", "limits", "solve", "decide",
               "finish", "done"}
    /\ heap \subseteq Node
    /\ current \in Node \cup {NoNode}
    /\ pc \in {"limits", "solve", "decide"} => current \in Node
    /\ pc \in {"root", "solve_root", "finish", "done"} => current = NoNode
    /\ box \in Box
    /\ relaxation \in [bound : Int, integral : BOOLEAN,
                       point : Feasible \cup {NoPoint}]
    /\ incumbent \in Feasible \cup {NoPoint}
    /\ nodes \in Nat
    /\ rootBound \in Int
    /\ final \in {"NOT_RUN", "OPTIMAL", "INFEASIBLE", "UNBOUNDED", "TIME_LIMIT",
                  "ITERATION_LIMIT", "NUMERIC_FAILURE"}
    /\ expired \in BOOLEAN
    /\ result \in [status : {"NONE", "OPTIMAL", "INFEASIBLE", "UNBOUNDED",
                             "TIME_LIMIT", "ITERATION_LIMIT", "GAP_LIMIT",
                             "NUMERIC_FAILURE"},
                   dual_bound : Int]

\* While the search runs and no relaxation failed, every feasible point lies in
\* a node in hand or on the heap, or is cut off by the incumbent: plunging,
\* backtracking, cutoffs and objective propagation lose none.
NothingLost ==
    (pc \notin {"root", "solve_root"} /\ final = "NOT_RUN" /\ ~failed) =>
        \A p \in model :
            \/ incumbent # NoPoint /\ Objective[p] >= Objective[incumbent] - GapAbs
            \/ \E n \in Held : p \in Points(n)

\* sk_milp.h says the result is OPTIMAL only when the gap closed: no feasible
\* point is below the incumbent by more than the requested gap.
OptimalOnlyWhenGapClosed ==
    result.status = "OPTIMAL" =>
        /\ incumbent # NoPoint
        /\ \A p \in model :
              Objective[p] < Objective[incumbent] => Closed(Objective[p])

\* The same of a search none of whose relaxations failed.
OptimalIsProven == ~failed => OptimalOnlyWhenGapClosed

\* A model is reported infeasible only when it has no feasible point, as long
\* as no relaxation failed.
InfeasibleIsProven == (result.status = "INFEASIBLE" /\ ~failed) => model = {}

\* A search no limit stopped and no failure marred gives a verdict: the model
\* has an optimum, or it has no feasible point.
DecidesUnlessStopped ==
    (pc = "done" /\ ~failed /\ final \notin {"TIME_LIMIT", "ITERATION_LIMIT"}) =>
        result.status = IF model = {} THEN "INFEASIBLE" ELSE "OPTIMAL"

\* A node carries a bound its parent's relaxation gave it, and is pruned by it
\* or reported as the dual bound long after, over other incumbents and other
\* propagations of its box: it never passes a feasible point of the node.
BoundsHold == \A n \in Held : \A p \in Reach(n) : n.bound <= Objective[p]

\* The driver finishes, whatever its relaxations answer and however a limit
\* cuts it off.
Termination == <>(pc = "done")

\* The limit test says that however the search is truncated, the dual bound
\* it reports never exceeds the true optimum.  Here: once a limit cuts the
\* search off and an incumbent is known.
TruncatedBoundValid ==
    (result.status \in {"TIME_LIMIT", "ITERATION_LIMIT"} /\ incumbent # NoPoint) =>
        \A p \in model : result.dual_bound <= Objective[p]

\* No feasible point is in two of the nodes held: a branch is at a fractional
\* value of its column, whatever a rounding solved in between.
NodesDisjoint ==
    /\ \A m, n \in heap : m # n => Points(m) \cap Points(n) = {}
    /\ current # NoNode => \A n \in heap : Points(current) \cap Points(n) = {}

\* The search invariant of the driver: no point is lost, and none searched twice.
SearchInvariant == TypeOK /\ NothingLost /\ NodesDisjoint

\* OPTIMAL and INFEASIBLE are proved, unless a relaxation failed on the way.
VerdictIsProven == OptimalIsProven /\ InfeasibleIsProven

\* The driver finishes, whatever its relaxations answer and however a limit cuts
\* it off; and it finishes with a verdict when nothing did.
Decides == <>(pc = "done" /\ DecidesUnlessStopped)
=============================================================================

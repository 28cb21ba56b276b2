------------------------ MODULE BranchAndBoundProofs ------------------------
(***************************************************************************)
(* Theorems about the branch-and-bound loop of solve_milp, for every model *)
(* and every setting of its options.                                       *)
(***************************************************************************)
EXTENDS BranchAndBound, FiniteSetTheorems, TLAPS

-----------------------------------------------------------------------------
(* The operators the loop is built from *)

\* The pruning threshold of an incumbent is never above the incumbent.
LEMMA ThresholdBelow ==
    ASSUME NEW v \in Int
    PROVE  Threshold(v) \in Int /\ Threshold(v) <= v
<1>1. Abs(v) \in Nat
  BY DEF Abs
<1>2. ObjectiveTolerance * (1 + Abs(v)) \in Nat
  BY <1>1, ToleranceAssumption
<1> QED
  BY <1>2 DEF Threshold

\* Propagation gives a smaller box, and one that keeps the points it has to.
LEMMA TightenedKeeps ==
    ASSUME NEW b, NEW keep, NEW c \in Tightened(b, keep)
    PROVE  /\ c \in Box
           /\ Points(b) \cap keep \subseteq Points(c)
           /\ \A j \in Columns : /\ b.lower[j] <= c.lower[j]
                                 /\ c.upper[j] <= b.upper[j]
<1>1. Span \subseteq Int
  BY BoxAssumption DEF Span
<1> QED
  BY <1>1 DEF Tightened, Shrunk, Box

\* What an OPTIMAL relaxation of the box returns.
LEMMA RelaxationsSound ==
    ASSUME NEW r \in Relaxations
    PROVE  /\ r \in [bound : Int, integral : BOOLEAN, point : Feasible \cup {NoPoint}]
           /\ active.bound <= r.bound
           /\ \A p \in Points(box) : r.bound <= Objective[p]
           /\ r.integral /\ r.point # NoPoint => r.bound = Objective[r.point]
  BY ObjectiveAssumption DEF Relaxations, Points

\* A child of a node is a node.
LEMMA ChildIsNode ==
    ASSUME NEW n \in Node, NEW b \in Int, NEW k \in Nat,
           NEW j \in Columns, NEW v \in Int
    PROVE  /\ Child(n, n.lower, WithUpper(n, j, v), b, k) \in Node
           /\ Child(n, WithLower(n, j, v), n.upper, b, k) \in Node
<1>1. WithUpper(n, j, v) \in [Columns -> Int] /\ WithLower(n, j, v) \in [Columns -> Int]
  BY DEF Node, WithUpper, WithLower
<1> QED
  BY <1>1 DEF Child, Node

-----------------------------------------------------------------------------
(* Type correctness *)

\* The bounds solve_milp starts from are a box.
LEMMA RootBoxType == RootBox \in Box
  BY BoxAssumption DEF RootBox, Box

\* The state solve_milp enters the loop in has the right types.
LEMMA TypeInit == Init => TypeOK
<1> SUFFICES ASSUME Init PROVE TypeOK
  OBVIOUS
<1>1. open \subseteq Node
  BY BoxAssumption, ObjectiveAssumption DEF Init, Root, Node
<1>2. SearchTypeOK
  BY <1>1, RootBoxType, NodeAssumption
  DEF SearchTypeOK, Init, NoRelaxation, Stages
<1>3. /\ processed \in Nat /\ nextOrder \in Nat /\ rows \in Nat
      /\ scaled \in Nat \cup {-1}
  BY DEF Init
<1>4. /\ separated \subseteq {"cuts", "gmi"}
      /\ pending \subseteq [order : Nat, rows : Nat]
  BY DEF Init
<1>5. expired \in BOOLEAN
  BY DEF Init
<1>6. result \in [status : StopStatuses \cup {"NONE", "OPTIMAL", "INFEASIBLE"},
                 best_bound : Int]
  BY DEF Init
<1> QED
  BY <1>2, <1>3, <1>4, <1>5, <1>6 DEF TypeOK, RecordsTypeOK

\* Branch splits the box at a value of one column.
LEMMA BranchSplits ==
    ASSUME TypeOK, Branch
    PROVE  \E j \in Columns, v \in Int :
              /\ box.lower[j] <= v /\ v + 1 <= box.upper[j]
              /\ open' = open \cup
                    {Child(active, active.lower, WithUpper(active, j, v),
                           relaxation.bound, nextOrder),
                     Child(active, WithLower(active, j, v + 1), active.upper,
                           relaxation.bound, nextOrder + 1)}
<1>1. \A j \in Columns : box.lower[j] \in Int /\ box.upper[j] \in Int
  BY DEF TypeOK, SearchTypeOK, Box
<1>2. \A j \in Columns : \A v \in box.lower[j] .. (box.upper[j] - 1) :
         v \in Int /\ box.lower[j] <= v /\ v + 1 <= box.upper[j]
  BY <1>1
<1> QED
  BY <1>2 DEF Branch

\* The ways a stage ends keep the types of the search's own state.
LEMMA EndsKeepTypes ==
    ASSUME TypeOK, incumbent' \in Feasible \cup {NoPoint},
           \/ Prune
           \/ Requeue /\ active \in Node
           \/ \E s \in StopStatuses : Abandon(s) \/ (PushBack(s) /\ active \in Node)
    PROVE  SearchTypeOK'
<1> USE RootBoxType, NodeAssumption
    DEF TypeOK, SearchTypeOK, LeaveIteration, NoRelaxation, Stages
<1>1. CASE Prune
  BY <1>1 DEF Prune
<1>2. CASE Requeue /\ active \in Node
  BY <1>2 DEF Requeue
<1>3. ASSUME NEW s \in StopStatuses, Abandon(s) PROVE SearchTypeOK'
  BY <1>3 DEF Abandon
<1>4. ASSUME NEW s \in StopStatuses, PushBack(s), active \in Node PROVE SearchTypeOK'
  BY <1>4 DEF PushBack
<1> QED
  BY <1>1, <1>2, <1>3, <1>4

\* The stages that work on an active node.
Working == Stages \ {"loop", "report", "done"}

\* Going on to the next stage keeps the types of the search's own state.
LEMMA GotoKeepsTypes ==
    ASSUME TypeOK, incumbent' \in Feasible \cup {NoPoint},
           pc \in Working, NEW stage \in Working, Goto(stage)
    PROVE  SearchTypeOK'
  BY DEF TypeOK, SearchTypeOK, Goto, Working, Stages

\* So does every step of the loop, and of the clock.
LEMMA TypeStep == TypeOK /\ [Next]_vars => TypeOK'
<1>1. ASSUME TypeOK, StopOnTime PROVE TypeOK'
  BY <1>1 DEF StopOnTime, TypeOK, SearchTypeOK, RecordsTypeOK, locals, ledger, bases, Stages, StopStatuses
<1>2. ASSUME TypeOK, StopOnNodes PROVE TypeOK'
  BY <1>2 DEF StopOnNodes, TypeOK, SearchTypeOK, RecordsTypeOK, locals, ledger, bases, Stages, StopStatuses
<1>3. ASSUME TypeOK, Pop PROVE TypeOK'
  BY <1>3, NodeAssumption DEF Pop, TypeOK, SearchTypeOK, RecordsTypeOK, Stages
<1>4. ASSUME TypeOK, Exhausted PROVE TypeOK'
  BY <1>4 DEF Exhausted, TypeOK, SearchTypeOK, RecordsTypeOK, locals, ledger, bases, Stages
<1>5. ASSUME TypeOK, PruneByInheritedBound PROVE TypeOK'
  <2>1. RecordsTypeOK'
    BY <1>5 DEF PruneByInheritedBound, TypeOK, RecordsTypeOK, ledger, bases
  <2>2. SearchTypeOK'
    BY <1>5, EndsKeepTypes DEF PruneByInheritedBound, TypeOK, SearchTypeOK
  <2> QED
    BY <2>1, <2>2 DEF TypeOK
<1>6. ASSUME TypeOK, PruneByPropagation PROVE TypeOK'
  <2>1. RecordsTypeOK'
    BY <1>6 DEF PruneByPropagation, TypeOK, RecordsTypeOK, ledger, bases
  <2>2. SearchTypeOK'
    BY <1>6, EndsKeepTypes DEF PruneByPropagation, TypeOK, SearchTypeOK
  <2> QED
    BY <2>1, <2>2 DEF TypeOK
<1>7. ASSUME TypeOK, Tighten PROVE TypeOK'
  BY <1>7, TightenedKeeps, NodeAssumption DEF Tighten, TypeOK, SearchTypeOK, RecordsTypeOK, ledger, bases, Stages
<1>8. ASSUME TypeOK, OutOfTimeBeforeRelaxation PROVE TypeOK'
  <2>1. RecordsTypeOK'
    BY <1>8 DEF OutOfTimeBeforeRelaxation, TypeOK, RecordsTypeOK, ledger, bases
  <2>2. SearchTypeOK'
    BY <1>8, EndsKeepTypes DEF OutOfTimeBeforeRelaxation, TypeOK, SearchTypeOK, StopStatuses
  <2> QED
    BY <2>1, <2>2 DEF TypeOK
<1>9. ASSUME TypeOK, OutOfTimeInRelaxation PROVE TypeOK'
  <2>1. RecordsTypeOK'
    BY <1>9 DEF OutOfTimeInRelaxation, TypeOK, RecordsTypeOK, ledger, ScaleOnce
  <2>2. SearchTypeOK'
    BY <1>9, EndsKeepTypes DEF OutOfTimeInRelaxation, TypeOK, SearchTypeOK, StopStatuses
  <2> QED
    BY <2>1, <2>2 DEF TypeOK
<1>10. ASSUME TypeOK, RelaxationInfeasible PROVE TypeOK'
  <2>1. RecordsTypeOK'
    BY <1>10 DEF RelaxationInfeasible, TypeOK, RecordsTypeOK, ledger, ScaleOnce
  <2>2. SearchTypeOK'
    BY <1>10, EndsKeepTypes DEF RelaxationInfeasible, TypeOK, SearchTypeOK, StopStatuses
  <2> QED
    BY <2>1, <2>2 DEF TypeOK
<1>11. ASSUME TypeOK, RelaxationFails PROVE TypeOK'
  <2>1. RecordsTypeOK'
    BY <1>11 DEF RelaxationFails, TypeOK, RecordsTypeOK, ledger, ScaleOnce
  <2>2. SearchTypeOK'
    BY <1>11, EndsKeepTypes DEF RelaxationFails, TypeOK, SearchTypeOK, StopStatuses
  <2> QED
    BY <2>1, <2>2 DEF TypeOK
<1>12. ASSUME TypeOK, RelaxationOptimal PROVE TypeOK'
  BY <1>12, RelaxationsSound, NodeAssumption DEF RelaxationOptimal, TypeOK, SearchTypeOK, RecordsTypeOK, ScaleOnce, ledger, Stages
<1>13. ASSUME TypeOK, SeparateRootCuts PROVE TypeOK'
  <2>1. CASE AppendCuts
    <3>1. separated' \subseteq {"cuts", "gmi"}
      BY <1>13 DEF SeparateRootCuts, TypeOK, RecordsTypeOK
    <3>2. rows' \in Nat /\ UNCHANGED <<pending, scaled>>
      BY <1>13, <2>1 DEF AppendCuts, TypeOK, RecordsTypeOK
    <3>3. RecordsTypeOK'
      BY <1>13, <3>1, <3>2 DEF SeparateRootCuts, TypeOK, RecordsTypeOK
    <3>4. SearchTypeOK'
      BY <1>13, <2>1, EndsKeepTypes DEF SeparateRootCuts, AppendCuts, TypeOK, SearchTypeOK
    <3> QED
      BY <3>3, <3>4 DEF TypeOK
  <2>2. CASE Goto("gmi") /\ UNCHANGED bases
    <3>1. RecordsTypeOK'
      BY <1>13, <2>2 DEF SeparateRootCuts, bases, TypeOK, RecordsTypeOK
    <3>2. SearchTypeOK'
      BY <1>13, <2>2, GotoKeepsTypes DEF SeparateRootCuts, TypeOK, SearchTypeOK, Working, Stages
    <3> QED
      BY <3>1, <3>2 DEF TypeOK
  <2> QED
    BY <1>13, <2>1, <2>2 DEF SeparateRootCuts
<1>14. ASSUME TypeOK, SeparateRootGmi PROVE TypeOK'
  <2>1. CASE AppendCuts
    <3>1. separated' \subseteq {"cuts", "gmi"}
      BY <1>14 DEF SeparateRootGmi, TypeOK, RecordsTypeOK
    <3>2. rows' \in Nat /\ UNCHANGED <<pending, scaled>>
      BY <1>14, <2>1 DEF AppendCuts, TypeOK, RecordsTypeOK
    <3>3. RecordsTypeOK'
      BY <1>14, <3>1, <3>2 DEF SeparateRootGmi, TypeOK, RecordsTypeOK
    <3>4. SearchTypeOK'
      BY <1>14, <2>1, EndsKeepTypes DEF SeparateRootGmi, AppendCuts, TypeOK, SearchTypeOK
    <3> QED
      BY <3>3, <3>4 DEF TypeOK
  <2>2. CASE Goto("bound") /\ UNCHANGED bases
    <3>1. RecordsTypeOK'
      BY <1>14, <2>2 DEF SeparateRootGmi, bases, TypeOK, RecordsTypeOK
    <3>2. SearchTypeOK'
      BY <1>14, <2>2, GotoKeepsTypes DEF SeparateRootGmi, TypeOK, SearchTypeOK, Working, Stages
    <3> QED
      BY <3>1, <3>2 DEF TypeOK
  <2> QED
    BY <1>14, <2>1, <2>2 DEF SeparateRootGmi
<1>15. ASSUME TypeOK, PruneByRelaxation PROVE TypeOK'
  <2>1. RecordsTypeOK'
    BY <1>15 DEF PruneByRelaxation, TypeOK, RecordsTypeOK, ledger, bases
  <2>2. SearchTypeOK'
    BY <1>15, EndsKeepTypes DEF PruneByRelaxation, TypeOK, SearchTypeOK
  <2> QED
    BY <2>1, <2>2 DEF TypeOK
<1>16. ASSUME TypeOK, AcceptIntegral PROVE TypeOK'
  <2>1. RecordsTypeOK'
    BY <1>16 DEF AcceptIntegral, TypeOK, RecordsTypeOK, ledger, bases
  <2>2. SearchTypeOK'
    BY <1>16, GotoKeepsTypes DEF AcceptIntegral, Consider, Points, TypeOK, SearchTypeOK, Working, Stages
  <2> QED
    BY <2>1, <2>2 DEF TypeOK
<1>17. ASSUME TypeOK, RejectIntegral PROVE TypeOK'
  <2>1. RecordsTypeOK'
    BY <1>17 DEF RejectIntegral, TypeOK, RecordsTypeOK, ledger, bases
  <2>2. SearchTypeOK'
    BY <1>17, EndsKeepTypes DEF RejectIntegral, TypeOK, SearchTypeOK, StopStatuses
  <2> QED
    BY <2>1, <2>2 DEF TypeOK
<1>18. ASSUME TypeOK, RoundFractional PROVE TypeOK'
  <2>1. RecordsTypeOK'
    BY <1>18 DEF RoundFractional, TypeOK, RecordsTypeOK, ledger, bases
  <2>2. SearchTypeOK'
    BY <1>18, GotoKeepsTypes DEF RoundFractional, Consider, Points, TypeOK, SearchTypeOK, Working, Stages
  <2> QED
    BY <2>1, <2>2 DEF TypeOK
<1>19. ASSUME TypeOK, RepairSlack PROVE TypeOK'
  <2>1. RecordsTypeOK'
    BY <1>19 DEF RepairSlack, TypeOK, RecordsTypeOK, ledger, bases
  <2>2. SearchTypeOK'
    BY <1>19, GotoKeepsTypes DEF RepairSlack, Consider, Points, TypeOK, SearchTypeOK, Working, Stages
  <2> QED
    BY <2>1, <2>2 DEF TypeOK
<1>20. ASSUME TypeOK, CheckTimeAfterRepair PROVE TypeOK'
  <2>1. RecordsTypeOK'
    BY <1>20 DEF CheckTimeAfterRepair, ledger, bases, TypeOK, RecordsTypeOK
  <2>2. incumbent' \in Feasible \cup {NoPoint}
    BY <1>20 DEF CheckTimeAfterRepair, Consider, Points, TypeOK, SearchTypeOK
  <2>3. CASE PushBack("TIME_LIMIT")
    BY <1>20, <2>1, <2>2, <2>3, EndsKeepTypes DEF CheckTimeAfterRepair, TypeOK, SearchTypeOK, StopStatuses
  <2>4. ASSUME NEW stage \in Working, Goto(stage) PROVE TypeOK'
    BY <1>20, <2>1, <2>2, <2>4, GotoKeepsTypes DEF CheckTimeAfterRepair, TypeOK, SearchTypeOK, Working, Stages
  <2> QED
    BY <1>20, <2>3, <2>4 DEF CheckTimeAfterRepair, Working, Stages
<1>21. ASSUME TypeOK, FinishIntegral PROVE TypeOK'
  <2>1. RecordsTypeOK'
    BY <1>21 DEF FinishIntegral, ledger, bases, TypeOK, RecordsTypeOK
  <2>2. incumbent' \in Feasible \cup {NoPoint}
    BY <1>21 DEF FinishIntegral, Consider, Points, TypeOK, SearchTypeOK
  <2>3. CASE Prune
    BY <1>21, <2>1, <2>2, <2>3, EndsKeepTypes DEF FinishIntegral, TypeOK, SearchTypeOK, StopStatuses
  <2>4. ASSUME NEW stage \in Working, Goto(stage) PROVE TypeOK'
    BY <1>21, <2>1, <2>2, <2>4, GotoKeepsTypes DEF FinishIntegral, TypeOK, SearchTypeOK, Working, Stages
  <2> QED
    BY <1>21, <2>3, <2>4 DEF FinishIntegral, Working, Stages
<1>22. ASSUME TypeOK, Rens PROVE TypeOK'
  <2>1. RecordsTypeOK'
    BY <1>22 DEF Rens, TypeOK, RecordsTypeOK, ledger, bases
  <2>2. SearchTypeOK'
    BY <1>22, GotoKeepsTypes DEF Rens, Consider, Points, TypeOK, SearchTypeOK, Working, Stages
  <2> QED
    BY <2>1, <2>2 DEF TypeOK
<1>23. ASSUME TypeOK, FeasibilityPump PROVE TypeOK'
  <2>1. RecordsTypeOK'
    BY <1>23 DEF FeasibilityPump, ledger, bases, TypeOK, RecordsTypeOK
  <2>2. incumbent' \in Feasible \cup {NoPoint}
    BY <1>23 DEF FeasibilityPump, Consider, Points, TypeOK, SearchTypeOK
  <2>3. CASE PushBack("TIME_LIMIT")
    BY <1>23, <2>1, <2>2, <2>3, EndsKeepTypes DEF FeasibilityPump, TypeOK, SearchTypeOK, StopStatuses
  <2>4. ASSUME NEW stage \in Working, Goto(stage) PROVE TypeOK'
    BY <1>23, <2>1, <2>2, <2>4, GotoKeepsTypes DEF FeasibilityPump, TypeOK, SearchTypeOK, Working, Stages
  <2> QED
    BY <1>23, <2>3, <2>4 DEF FeasibilityPump, Working, Stages
<1>24. ASSUME TypeOK, Dive PROVE TypeOK'
  <2>1. RecordsTypeOK'
    BY <1>24 DEF Dive, ledger, bases, TypeOK, RecordsTypeOK
  <2>2. incumbent' \in Feasible \cup {NoPoint}
    BY <1>24 DEF Dive, Consider, Points, TypeOK, SearchTypeOK
  <2>3. CASE PushBack("TIME_LIMIT")
    BY <1>24, <2>1, <2>2, <2>3, EndsKeepTypes DEF Dive, TypeOK, SearchTypeOK, StopStatuses
  <2>4. ASSUME NEW stage \in Working, Goto(stage) PROVE TypeOK'
    BY <1>24, <2>1, <2>2, <2>4, GotoKeepsTypes DEF Dive, TypeOK, SearchTypeOK, Working, Stages
  <2> QED
    BY <1>24, <2>3, <2>4 DEF Dive, Working, Stages
<1>25. ASSUME TypeOK, CheckTimeAfterImprovement PROVE TypeOK'
  <2>1. RecordsTypeOK'
    BY <1>25 DEF CheckTimeAfterImprovement, ledger, bases, TypeOK, RecordsTypeOK
  <2>2. incumbent' \in Feasible \cup {NoPoint}
    BY <1>25 DEF CheckTimeAfterImprovement, Consider, Points, TypeOK, SearchTypeOK
  <2>3. CASE PushBack("TIME_LIMIT")
    BY <1>25, <2>1, <2>2, <2>3, EndsKeepTypes DEF CheckTimeAfterImprovement, TypeOK, SearchTypeOK, StopStatuses
  <2>4. ASSUME NEW stage \in Working, Goto(stage) PROVE TypeOK'
    BY <1>25, <2>1, <2>2, <2>4, GotoKeepsTypes DEF CheckTimeAfterImprovement, TypeOK, SearchTypeOK, Working, Stages
  <2> QED
    BY <1>25, <2>3, <2>4 DEF CheckTimeAfterImprovement, Working, Stages
<1>26. ASSUME TypeOK, BranchFails PROVE TypeOK'
  <2>1. RecordsTypeOK'
    BY <1>26 DEF BranchFails, TypeOK, RecordsTypeOK, ledger, bases
  <2>2. SearchTypeOK'
    BY <1>26, EndsKeepTypes DEF BranchFails, TypeOK, SearchTypeOK, StopStatuses
  <2> QED
    BY <2>1, <2>2 DEF TypeOK
<1>27. ASSUME TypeOK, Branch PROVE TypeOK'
  <2>1. /\ active \in Node /\ relaxation.bound \in Int
        /\ nextOrder \in Nat /\ nextOrder + 1 \in Nat
    BY <1>27 DEF Branch, TypeOK, SearchTypeOK, RecordsTypeOK
  <2>2. PICK j \in Columns, v \in Int :
          open' = open \cup
             {Child(active, active.lower, WithUpper(active, j, v),
                    relaxation.bound, nextOrder),
              Child(active, WithLower(active, j, v + 1), active.upper,
                    relaxation.bound, nextOrder + 1)}
    BY <1>27, BranchSplits
  <2>3. /\ Child(active, active.lower, WithUpper(active, j, v),
                 relaxation.bound, nextOrder) \in Node
        /\ Child(active, WithLower(active, j, v + 1), active.upper,
                 relaxation.bound, nextOrder + 1) \in Node
    <3>1. v + 1 \in Int
      OBVIOUS
    <3> QED
      BY <2>1, <3>1, ChildIsNode
  <2>4. open' \subseteq Node
    BY <1>27, <2>2, <2>3 DEF TypeOK, SearchTypeOK
  <2>5. SearchTypeOK'
    BY <1>27, <2>4, RootBoxType, NodeAssumption
    DEF Branch, LeaveIteration, NoRelaxation, TypeOK, SearchTypeOK, Stages
  <2>6. pending' \subseteq [order : Nat, rows : Nat]
    BY <1>27 DEF Branch, Retain, TypeOK, RecordsTypeOK
  <2>7. RecordsTypeOK'
    BY <1>27, <2>6 DEF Branch, TypeOK, RecordsTypeOK
  <2> QED
    BY <2>5, <2>7 DEF TypeOK
<1>28. ASSUME TypeOK, Report PROVE TypeOK'
  <2>1. result' \in [status : StopStatuses \cup {"NONE", "OPTIMAL", "INFEASIBLE"},
                     best_bound : Int]
    BY <1>28, ObjectiveAssumption, BoxAssumption
    DEF Report, FinalStatus, Node, TypeOK, SearchTypeOK
  <2>2. RecordsTypeOK'
    BY <1>28, <2>1 DEF Report, bases, TypeOK, RecordsTypeOK
  <2>3. SearchTypeOK'
    BY <1>28 DEF Report, locals, TypeOK, SearchTypeOK, Stages
  <2> QED
    BY <2>2, <2>3 DEF TypeOK
<1>29. ASSUME TypeOK, ClockExpires PROVE TypeOK'
  BY <1>29 DEF ClockExpires, TypeOK, SearchTypeOK, RecordsTypeOK, locals, ledger, bases
<1>30. ASSUME TypeOK, Done PROVE TypeOK'
  BY <1>30 DEF Done, TypeOK, SearchTypeOK, RecordsTypeOK, vars
<1>31. ASSUME TypeOK, UNCHANGED vars PROVE TypeOK'
  BY <1>31 DEF vars, TypeOK, SearchTypeOK, RecordsTypeOK
<1> QED
  BY <1>1, <1>2, <1>3, <1>4, <1>5, <1>6, <1>7, <1>8, <1>9, <1>10, <1>11, <1>12, <1>13, <1>14, <1>15, <1>16, <1>17, <1>18, <1>19, <1>20, <1>21, <1>22, <1>23, <1>24, <1>25, <1>26, <1>27, <1>28, <1>29, <1>30, <1>31 DEF Next, Step

\* Every variable keeps its type, whatever answers the LP, the propagation
\* and the heuristics give and whenever the clock runs out.
THEOREM TypeCorrect == Spec => []TypeOK
<1>1. Init => TypeOK
  BY TypeInit
<1>2. TypeOK /\ [Next]_vars => TypeOK'
  BY TypeStep
<1> QED
  BY <1>1, <1>2, PTL DEF Spec

-----------------------------------------------------------------------------
(* What one step does to the incumbent and to the nodes held *)

\* The points of a box are feasible points, and these have objectives.
LEMMA PointsFacts ==
    /\ \A b : Points(b) \subseteq Feasible
    /\ \A p \in Feasible : Objective[p] \in Int
  BY BoxAssumption DEF Points

\* Whatever lies above a dominated value is dominated.
LEMMA DominatedAbove ==
    ASSUME TypeOK, NEW v \in Int, NEW w \in Int, Dominated(v), v <= w
    PROVE  Dominated(w)
<1>1. Threshold(Objective[incumbent]) \in Int
  BY ThresholdBelow, PointsFacts DEF Dominated, TypeOK, SearchTypeOK
<1> QED
  BY <1>1 DEF Dominated

\* A new incumbent dominates all that the old one did.
LEMMA DominatedKept ==
    ASSUME TypeOK, NEW v \in Int, Dominated(v),
           UNCHANGED incumbent \/ \E p \in Feasible : Consider(p)
    PROVE  Dominated(v)'
<1>1. CASE UNCHANGED incumbent
  BY <1>1 DEF Dominated
<1>2. ASSUME NEW p \in Feasible, Consider(p), incumbent' # incumbent
      PROVE  Dominated(v)'
  <2>1. incumbent' = p /\ Objective[p] < Threshold(Objective[incumbent])
    BY <1>2 DEF Consider, Improves, Dominated
  <2>2. /\ Objective[p] \in Int /\ Threshold(Objective[p]) \in Int
        /\ Threshold(Objective[p]) <= Objective[p]
    BY PointsFacts, ThresholdBelow
  <2>3. Threshold(Objective[incumbent]) \in Int
    BY ThresholdBelow, PointsFacts DEF Dominated, TypeOK, SearchTypeOK
  <2> QED
    BY <2>1, <2>2, <2>3, OptionAssumption DEF Dominated
<1> QED
  BY <1>1, <1>2

\* A point offered to consider_incumbent is dominated afterwards.
LEMMA ConsideredDominated ==
    ASSUME TypeOK, NEW p \in Feasible, Consider(p)
    PROVE  Dominated(Objective[p])'
<1>1. /\ Objective[p] \in Int /\ Threshold(Objective[p]) \in Int
      /\ Threshold(Objective[p]) <= Objective[p]
  BY PointsFacts, ThresholdBelow
<1>2. CASE Improves(p)
  BY <1>1, <1>2, OptionAssumption DEF Consider, Dominated
<1>3. CASE ~Improves(p)
  <2>1. /\ incumbent # NoPoint /\ incumbent' = incumbent
        /\ Threshold(Objective[incumbent]) \in Int
    BY <1>3, ThresholdBelow, PointsFacts
    DEF Improves, Consider, TypeOK, SearchTypeOK
  <2> QED
    BY <1>1, <1>3, <2>1 DEF Improves, Dominated
<1> QED
  BY <1>2, <1>3

\* The incumbent only ever changes through consider_incumbent.
LEMMA IncumbentStep ==
    ASSUME TypeOK, [Next]_vars
    PROVE  UNCHANGED incumbent \/ \E p \in Feasible : Consider(p)
<1>1. CASE \/ StopOnTime \/ StopOnNodes \/ Pop \/ Exhausted
           \/ PruneByInheritedBound \/ PruneByPropagation \/ Tighten
           \/ OutOfTimeBeforeRelaxation \/ OutOfTimeInRelaxation
           \/ RelaxationInfeasible \/ RelaxationFails \/ RelaxationOptimal
  BY <1>1 DEF StopOnTime, StopOnNodes, Pop, Exhausted, PruneByInheritedBound,
     PruneByPropagation, Tighten, OutOfTimeBeforeRelaxation,
     OutOfTimeInRelaxation, RelaxationInfeasible, RelaxationFails,
     RelaxationOptimal
<1>2. CASE \/ SeparateRootCuts \/ SeparateRootGmi \/ PruneByRelaxation
           \/ RejectIntegral \/ CheckTimeAfterRepair \/ FinishIntegral
           \/ CheckTimeAfterImprovement \/ BranchFails \/ Branch
           \/ Report \/ ClockExpires \/ Done \/ UNCHANGED vars
  BY <1>2 DEF SeparateRootCuts, SeparateRootGmi, PruneByRelaxation,
     RejectIntegral, CheckTimeAfterRepair, FinishIntegral,
     CheckTimeAfterImprovement, BranchFails, Branch, Report, ClockExpires,
     Done, vars
<1>3. CASE AcceptIntegral
  BY <1>3 DEF AcceptIntegral, TypeOK, SearchTypeOK
<1>4. CASE RoundFractional \/ RepairSlack \/ Rens \/ FeasibilityPump \/ Dive
  BY <1>4, PointsFacts DEF RoundFractional, RepairSlack, Rens, FeasibilityPump, Dive
<1> QED
  BY <1>1, <1>2, <1>3, <1>4 DEF Next, Step

\* Every step keeps the nodes held, or drops the active one when none of its
\* points can improve the incumbent, or breaks out of the loop with a status
\* that claims nothing, or branches.
LEMMA HeldStep ==
    ASSUME SearchInvariant, [Next]_vars
    PROVE  \/ Held' = Held
           \/ /\ Held' = open
              /\ \A p \in Points(active) : Dominated(Objective[p])'
           \/ /\ Held' = open
              /\ status' \notin {"INFEASIBLE", "NODE_LIMIT"}
           \/ Branch
<1> DEFINE Safe == \A p \in Points(active) : Dominated(Objective[p])'
<1>1. TypeOK
  BY DEF SearchInvariant
<1>2. \A b \in Int : (/\ Dominated(b)
                      /\ \A p \in Points(active) : b <= Objective[p]) => Safe
  BY <1>1, DominatedAbove, DominatedKept, IncumbentStep, PointsFacts
<1>3. ASSUME UNCHANGED <<open, active>> PROVE Held' = Held
  BY <1>3 DEF Held
<1>4. ASSUME Prune \/ \E s : Abandon(s) PROVE Held' = open
  BY <1>4 DEF Held, Prune, Abandon, LeaveIteration
<1>5. ASSUME active # NoNode, Requeue \/ \E s : PushBack(s) PROVE Held' = Held
  BY <1>5 DEF Held, Requeue, PushBack, LeaveIteration
<1>6. CASE \/ StopOnTime \/ StopOnNodes \/ Exhausted \/ Tighten
           \/ RelaxationOptimal \/ Report \/ ClockExpires \/ Done
           \/ UNCHANGED vars
  BY <1>3, <1>6 DEF StopOnTime, StopOnNodes, Exhausted, Tighten,
     RelaxationOptimal, Report, ClockExpires, Done, vars, locals
<1>7. CASE Pop
  BY <1>1, <1>7, NodeAssumption DEF Pop, Held, TypeOK, SearchTypeOK
<1>8. CASE \/ AcceptIntegral \/ RoundFractional \/ Rens
  BY <1>3, <1>8 DEF AcceptIntegral, RoundFractional, Rens, Goto
<1>9. CASE \/ OutOfTimeBeforeRelaxation \/ OutOfTimeInRelaxation
           \/ RelaxationFails \/ RejectIntegral \/ BranchFails
  BY <1>4, <1>9 DEF OutOfTimeBeforeRelaxation, OutOfTimeInRelaxation,
     RelaxationFails, RejectIntegral, BranchFails, Abandon
<1>10. CASE \/ SeparateRootCuts \/ SeparateRootGmi \/ RepairSlack
            \/ CheckTimeAfterRepair \/ FeasibilityPump \/ Dive
            \/ CheckTimeAfterImprovement
  <2>1. active # NoNode
    BY <1>1, <1>10, NodeAssumption
    DEF SeparateRootCuts, SeparateRootGmi, RepairSlack, CheckTimeAfterRepair,
        FeasibilityPump, Dive, CheckTimeAfterImprovement, TypeOK, SearchTypeOK
  <2>2. Requeue \/ (\E s : PushBack(s)) \/ (\E s : Goto(s))
    BY <1>10
    DEF SeparateRootCuts, SeparateRootGmi, RepairSlack, CheckTimeAfterRepair,
        FeasibilityPump, Dive, CheckTimeAfterImprovement, AppendCuts
  <2> QED
    BY <1>3, <1>5, <2>1, <2>2 DEF Goto
<1>11. CASE PruneByInheritedBound
  <2>1. active \in Held /\ active.bound \in Int
    BY <1>1, <1>11, NodeAssumption
    DEF PruneByInheritedBound, Held, TypeOK, SearchTypeOK, Node
  <2> QED
    BY <1>2, <1>4, <1>11, <2>1
    DEF PruneByInheritedBound, SearchInvariant, InheritedBoundValid
<1>12. CASE PruneByPropagation
  BY <1>4, <1>12 DEF PruneByPropagation
<1>13. CASE RelaxationInfeasible
  BY <1>4, <1>13 DEF RelaxationInfeasible, SearchInvariant, BoxHolds
<1>14. CASE PruneByRelaxation
  BY <1>1, <1>2, <1>4, <1>14
  DEF PruneByRelaxation, SearchInvariant, BoxHolds, RelaxationHolds, Solved,
      TypeOK, SearchTypeOK
<1>15. CASE FinishIntegral /\ relaxation.integral
  BY <1>1, <1>2, <1>4, <1>15
  DEF FinishIntegral, SearchInvariant, BoxHolds, RelaxationHolds, Solved,
      TypeOK, SearchTypeOK
<1>16. CASE FinishIntegral /\ ~relaxation.integral
  BY <1>3, <1>16 DEF FinishIntegral, Goto
<1> QED
  BY <1>6, <1>7, <1>8, <1>9, <1>10, <1>11, <1>12, <1>13, <1>14, <1>15, <1>16
  DEF Next, Step

-----------------------------------------------------------------------------
(* The inductive invariant *)

\* The two children of a node share out its points, and inherit the value of
\* the relaxation they were branched on.
LEMMA BranchShares ==
    ASSUME SearchInvariant, Branch
    PROVE  /\ Held' = open'
           /\ open \subseteq open'
           /\ \A n \in open' \ open :
                 n.bound = relaxation.bound /\ Points(n) \subseteq Points(active)
           /\ \A p \in Points(active) : \E n \in open' : p \in Points(n)
<1>1. /\ active \in Node /\ box \in Box
      /\ relaxation.bound \in Int /\ nextOrder \in Nat
  BY DEF Branch, SearchInvariant, TypeOK, SearchTypeOK, RecordsTypeOK
<1>2. PICK j \in Columns, v \in Int :
         /\ box.lower[j] <= v /\ v + 1 <= box.upper[j]
         /\ open' = open \cup
               {Child(active, active.lower, WithUpper(active, j, v),
                      relaxation.bound, nextOrder),
                Child(active, WithLower(active, j, v + 1), active.upper,
                      relaxation.bound, nextOrder + 1)}
  BY BranchSplits DEF SearchInvariant
<1> DEFINE down == Child(active, active.lower, WithUpper(active, j, v),
                         relaxation.bound, nextOrder)
           up == Child(active, WithLower(active, j, v + 1), active.upper,
                       relaxation.bound, nextOrder + 1)
<1>3. /\ active.lower \in [Columns -> Int] /\ active.upper \in [Columns -> Int]
      /\ box.lower[j] \in Int /\ box.upper[j] \in Int
  BY <1>1 DEF Node, Box
<1>4. /\ down.lower = active.lower
      /\ \A i \in Columns : down.upper[i] = IF i = j THEN v ELSE active.upper[i]
      /\ up.upper = active.upper
      /\ \A i \in Columns : up.lower[i] = IF i = j THEN v + 1 ELSE active.lower[i]
      /\ down.bound = relaxation.bound /\ up.bound = relaxation.bound
  BY <1>3 DEF Child, WithUpper, WithLower
<1>5. \A p \in Points(active) :
         /\ \A i \in Columns : /\ active.lower[i] <= p[i] /\ p[i] <= active.upper[i]
                               /\ p[i] \in Int
         /\ p \in Feasible
  BY BoxAssumption DEF Points
<1>6. \A p \in Points(active) : p \in Points(down) \/ p \in Points(up)
  <2> SUFFICES ASSUME NEW p \in Points(active)
               PROVE  p \in Points(down) \/ p \in Points(up)
    OBVIOUS
  <2>1. p[j] <= v \/ v + 1 <= p[j]
    BY <1>2, <1>5
  <2> QED
    BY <1>4, <1>5, <2>1 DEF Points
<1>7. Points(down) \subseteq Points(active) /\ Points(up) \subseteq Points(active)
  <2>1. v <= active.upper[j] /\ active.lower[j] <= v + 1
    BY <1>1, <1>2, <1>3 DEF Branch, SearchInvariant, BoxHolds, Solved, Node
  <2> QED
    BY <1>2, <1>3, <1>4, <2>1, BoxAssumption DEF Points
<1> QED
  BY <1>2, <1>4, <1>6, <1>7 DEF Branch, LeaveIteration, Held

\* Once the loop has broken only the report and the clock are left.
LEMMA AfterTheLoop ==
    ASSUME [Next]_vars, pc \in {"report", "done"}
    PROVE  /\ UNCHANGED <<open, active, box, relaxation, incumbent, status>>
           /\ \/ pc = "report" /\ Report
              \/ UNCHANGED <<pc, result>>
<1>1. CASE Report \/ ClockExpires \/ Done \/ UNCHANGED vars
  BY <1>1 DEF Report, ClockExpires, Done, vars, locals, ledger
<1>2. ~(\/ StopOnTime \/ StopOnNodes \/ Pop \/ Exhausted
        \/ PruneByInheritedBound \/ PruneByPropagation \/ Tighten
        \/ OutOfTimeBeforeRelaxation \/ OutOfTimeInRelaxation
        \/ RelaxationInfeasible \/ RelaxationFails \/ RelaxationOptimal
        \/ SeparateRootCuts \/ SeparateRootGmi)
  BY DEF StopOnTime, StopOnNodes, Pop, Exhausted, PruneByInheritedBound,
     PruneByPropagation, Tighten, OutOfTimeBeforeRelaxation,
     OutOfTimeInRelaxation, RelaxationInfeasible, RelaxationFails,
     RelaxationOptimal, SeparateRootCuts, SeparateRootGmi
<1>3. ~(\/ PruneByRelaxation \/ AcceptIntegral \/ RejectIntegral
        \/ RoundFractional \/ RepairSlack \/ CheckTimeAfterRepair
        \/ FinishIntegral \/ Rens \/ FeasibilityPump \/ Dive
        \/ CheckTimeAfterImprovement \/ BranchFails \/ Branch)
  BY DEF PruneByRelaxation, AcceptIntegral, RejectIntegral, RoundFractional,
     RepairSlack, CheckTimeAfterRepair, FinishIntegral, Rens, FeasibilityPump,
     Dive, CheckTimeAfterImprovement, BranchFails, Branch
<1> QED
  BY <1>1, <1>2, <1>3 DEF Next, Step

\* A status that claims nothing is never taken back.
LEMMA StatusStep ==
    ASSUME SearchInvariant, [Next]_vars,
           status' \in {"INFEASIBLE", "NODE_LIMIT"}
    PROVE  status \in {"INFEASIBLE", "NODE_LIMIT"}
<1>1. CASE pc \notin {"report", "done"}
  BY <1>1 DEF SearchInvariant, StatusHolds
<1>2. CASE pc \in {"report", "done"}
  BY <1>2, AfterTheLoop
<1> QED
  BY <1>1, <1>2

\* Requeueing and branching queue nodes under valid bounds only.
LEMMA InheritedBoundStep ==
    ASSUME SearchInvariant, [Next]_vars
    PROVE  InheritedBoundValid'
<1>1. CASE Held' = Held \/ Held' = open
  BY <1>1 DEF SearchInvariant, InheritedBoundValid, Held
<1>2. CASE Branch
  <2>1. \A p \in Points(active) : relaxation.bound <= Objective[p]
    BY <1>2 DEF Branch, SearchInvariant, BoxHolds, RelaxationHolds, Solved
  <2>2. open \subseteq Held
    BY DEF Held
  <2> QED
    BY <1>2, <2>1, <2>2, BranchShares DEF SearchInvariant, InheritedBoundValid
<1> QED
  BY <1>1, <1>2, HeldStep

\* A node leaves the tree only when none of its points matters any more.
LEMMA NothingLostStep ==
    ASSUME SearchInvariant, [Next]_vars
    PROVE  NothingLost'
<1> SUFFICES ASSUME status' \in {"INFEASIBLE", "NODE_LIMIT"},
                    NEW p \in Feasible, ~Dominated(Objective[p])'
             PROVE  \E n \in Held' : p \in Points(n)
  BY DEF NothingLost, Dominated
<1>1. ~Dominated(Objective[p])
  BY DominatedKept, IncumbentStep, PointsFacts DEF SearchInvariant
<1>2. status \in {"INFEASIBLE", "NODE_LIMIT"}
  BY StatusStep
<1>3. PICK n \in Held : p \in Points(n)
  BY <1>1, <1>2 DEF SearchInvariant, NothingLost
<1>4. CASE Held' = Held
  BY <1>3, <1>4
<1>5. CASE Held' = open /\ \A q \in Points(active) : Dominated(Objective[q])'
  BY <1>3, <1>5 DEF Held
<1>6. CASE Branch
  BY <1>3, <1>6, BranchShares DEF Held
<1> QED
  BY <1>4, <1>5, <1>6, HeldStep

\* The stages follow one another: the active node, its box and its relaxation
\* stay as they are from the stage that made them to the end of the iteration.
LEMMA StageStep ==
    ASSUME [Next]_vars, pc' \in Solved \cup {"relax"}
    PROVE  \/ Tighten /\ pc' = "relax"
           \/ RelaxationOptimal
           \/ /\ UNCHANGED <<active, box, relaxation>>
              /\ pc \in Solved \cup {"relax"}
              /\ pc' \in Solved => pc \in Solved
              /\ pc' \in {"repair", "repaired", "integral"} =>
                    \/ pc \in {"repair", "repaired", "integral"}
                    \/ AcceptIntegral
                    \/ RoundFractional
<1> USE DEF Solved
<1>1. CASE Tighten \/ RelaxationOptimal \/ ClockExpires \/ Done \/ UNCHANGED vars
  BY <1>1 DEF Tighten, ClockExpires, Done, vars, locals
<1>2. CASE SeparateRootCuts \/ SeparateRootGmi
  BY <1>2 DEF SeparateRootCuts, SeparateRootGmi, AppendCuts, Requeue, Goto
<1>3. CASE AcceptIntegral \/ RoundFractional \/ RepairSlack \/ Rens
  BY <1>3 DEF AcceptIntegral, RoundFractional, RepairSlack, Rens, Goto
<1>4. CASE CheckTimeAfterRepair \/ FinishIntegral
  BY <1>4 DEF CheckTimeAfterRepair, FinishIntegral, Prune, PushBack, Goto
<1>5. CASE FeasibilityPump \/ Dive \/ CheckTimeAfterImprovement
  BY <1>5 DEF FeasibilityPump, Dive, CheckTimeAfterImprovement, PushBack, Goto
<1>6. CASE \/ StopOnTime \/ StopOnNodes \/ Pop \/ Exhausted
           \/ PruneByInheritedBound \/ PruneByPropagation
           \/ OutOfTimeBeforeRelaxation \/ OutOfTimeInRelaxation
           \/ RelaxationInfeasible \/ RelaxationFails \/ PruneByRelaxation
           \/ RejectIntegral \/ BranchFails \/ Branch \/ Report
  BY <1>6 DEF StopOnTime, StopOnNodes, Pop, Exhausted, PruneByInheritedBound,
     PruneByPropagation, OutOfTimeBeforeRelaxation, OutOfTimeInRelaxation,
     RelaxationInfeasible, RelaxationFails, PruneByRelaxation, RejectIntegral,
     BranchFails, Branch, Report, Prune, Abandon
<1> QED
  BY <1>1, <1>2, <1>3, <1>4, <1>5, <1>6 DEF Next, Step

\* The box of the active node is made by Tighten and kept to the end.
LEMMA BoxHoldsStep ==
    ASSUME SearchInvariant, [Next]_vars
    PROVE  BoxHolds'
<1> SUFFICES ASSUME pc' \in Solved \cup {"relax"}
             PROVE  /\ Points(active)' \subseteq Points(box)'
                    /\ \A j \in Columns : /\ active'.lower[j] <= box'.lower[j]
                                          /\ box'.upper[j] <= active'.upper[j]
  BY DEF BoxHolds, Solved
<1>1. CASE Tighten
  BY <1>1, TightenedKeeps DEF Tighten, Points
<1>2. CASE pc \in Solved \cup {"relax"} /\ UNCHANGED <<active, box>>
  BY <1>2 DEF SearchInvariant, BoxHolds, Points
<1> QED
  BY <1>1, <1>2, StageStep DEF RelaxationOptimal

\* The relaxation is made by RelaxationOptimal and kept to the end; an
\* integral one has been considered before it is dropped.
LEMMA RelaxationHoldsStep ==
    ASSUME SearchInvariant, [Next]_vars
    PROVE  RelaxationHolds'
<1> SUFFICES ASSUME pc' \in Solved
             PROVE  RelaxationHolds'
  BY DEF RelaxationHolds
<1>1. CASE RelaxationOptimal
  BY <1>1, RelaxationsSound DEF RelaxationOptimal, RelaxationHolds, Points
<1>2. CASE pc \in Solved /\ UNCHANGED <<active, box, relaxation>>
  <2>1. /\ active.bound <= relaxation.bound
        /\ \A p \in Points(box) : relaxation.bound <= Objective[p]
        /\ relaxation.integral /\ relaxation.point # NoPoint =>
              relaxation.bound = Objective[relaxation.point]
    BY <1>2 DEF SearchInvariant, RelaxationHolds
  <2>2. ASSUME relaxation.integral, pc' \in {"repair", "repaired", "integral"}
        PROVE  Dominated(relaxation.bound)'
    <3>1. CASE AcceptIntegral
      BY <1>2, <2>1, <3>1, ConsideredDominated
      DEF AcceptIntegral, SearchInvariant, TypeOK, SearchTypeOK, Dominated
    <3>2. CASE pc \in {"repair", "repaired", "integral"}
      BY <1>2, <2>2, <3>2, DominatedKept, IncumbentStep
      DEF SearchInvariant, RelaxationHolds, TypeOK, SearchTypeOK, Dominated
    <3>3. ~RoundFractional
      BY <2>2 DEF RoundFractional
    <3> QED
      BY <2>2, <3>1, <3>2, <3>3, StageStep DEF Tighten, RelaxationOptimal
  <2> QED
    BY <1>2, <2>1, <2>2 DEF RelaxationHolds, Points, Dominated
<1> QED
  BY <1>1, <1>2, StageStep DEF Solved

\* While the loop runs it keeps its preset status and gives no result; it
\* breaks with a status of its own, or with an empty queue.
LEMMA LoopStep ==
    ASSUME [Next]_vars, pc \notin {"report", "done"}
    PROVE  /\ UNCHANGED result
           /\ pc' # "done"
           /\ \/ pc' # "report" /\ UNCHANGED status
              \/ pc' = "report" /\ status' \in StopStatuses
              \/ pc' = "report" /\ UNCHANGED status /\ open' = {}
<1> USE DEF ledger, StopStatuses
<1>1. CASE StopOnTime \/ StopOnNodes \/ Pop \/ Exhausted
  BY <1>1 DEF StopOnTime, StopOnNodes, Pop, Exhausted
<1>2. CASE \/ PruneByInheritedBound \/ PruneByPropagation \/ PruneByRelaxation
           \/ Tighten \/ OutOfTimeBeforeRelaxation \/ OutOfTimeInRelaxation
           \/ RelaxationInfeasible \/ RelaxationFails \/ RelaxationOptimal
  BY <1>2 DEF PruneByInheritedBound, PruneByPropagation, PruneByRelaxation,
     Tighten, OutOfTimeBeforeRelaxation, OutOfTimeInRelaxation,
     RelaxationInfeasible, RelaxationFails, RelaxationOptimal, Prune, Abandon
<1>3. CASE SeparateRootCuts \/ SeparateRootGmi
  BY <1>3 DEF SeparateRootCuts, SeparateRootGmi, AppendCuts, Requeue, Goto
<1>4. CASE \/ AcceptIntegral \/ RejectIntegral \/ RoundFractional
           \/ RepairSlack \/ Rens \/ BranchFails \/ Branch
  BY <1>4 DEF AcceptIntegral, RejectIntegral, RoundFractional, RepairSlack,
     Rens, BranchFails, Branch, Abandon, Goto
<1>5. CASE CheckTimeAfterRepair \/ FinishIntegral
  BY <1>5 DEF CheckTimeAfterRepair, FinishIntegral, Prune, PushBack, Goto
<1>6. CASE FeasibilityPump \/ Dive \/ CheckTimeAfterImprovement
  BY <1>6 DEF FeasibilityPump, Dive, CheckTimeAfterImprovement, PushBack, Goto
<1>7. CASE Report \/ ClockExpires \/ Done \/ UNCHANGED vars
  BY <1>7 DEF Report, ClockExpires, Done, vars
<1> QED
  BY <1>1, <1>2, <1>3, <1>4, <1>5, <1>6, <1>7 DEF Next, Step

\* The loop breaks with a status or an empty queue, and the report says so.
LEMMA StatusHoldsStep ==
    ASSUME SearchInvariant, [Next]_vars
    PROVE  StatusHolds'
<1>1. StatusHolds
  BY DEF SearchInvariant
<1>2. CASE pc \notin {"report", "done"}
  BY <1>1, <1>2, LoopStep DEF StatusHolds, StopStatuses
<1>3. CASE pc = "report" /\ Report
  <2>1. UNCHANGED <<open, status, incumbent>> /\ pc' = "done"
    BY <1>3 DEF Report
  <2>2. result'.status = FinalStatus /\ IsBestBound(result'.best_bound)
    BY <1>3 DEF Report
  <2> QED
    BY <1>1, <1>3, <2>1, <2>2
    DEF StatusHolds, FinalStatus, IsBestBound, IsTop
<1>4. CASE pc \in {"report", "done"} /\ UNCHANGED <<pc, result>>
  BY <1>1, <1>4, AfterTheLoop DEF StatusHolds, FinalStatus, IsBestBound, IsTop
<1> QED
  BY <1>2, <1>3, <1>4, AfterTheLoop

\* The invariant holds when the loop starts.
LEMMA InvariantInit == Init => SearchInvariant
<1> SUFFICES ASSUME Init PROVE SearchInvariant
  OBVIOUS
<1>1. TypeOK
  BY TypeInit
<1>2. Held = {Root}
  BY DEF Init, Held
<1>3. \A p \in Feasible : p \in Points(Root)
  BY BoxAssumption DEF Points, Root
<1>4. InheritedBoundValid
  BY <1>2, ObjectiveAssumption, PointsFacts DEF InheritedBoundValid, Root
<1>5. NothingLost
  BY <1>2, <1>3 DEF NothingLost
<1>6. BoxHolds /\ RelaxationHolds /\ StatusHolds
  BY DEF Init, BoxHolds, RelaxationHolds, StatusHolds, Solved
<1> QED
  BY <1>1, <1>4, <1>5, <1>6 DEF SearchInvariant

\* Every step keeps the whole invariant.
LEMMA InvariantStep == SearchInvariant /\ [Next]_vars => SearchInvariant'
<1> SUFFICES ASSUME SearchInvariant, [Next]_vars PROVE SearchInvariant'
  OBVIOUS
<1> QED
  BY TypeStep, InheritedBoundStep, NothingLostStep, BoxHoldsStep,
     RelaxationHoldsStep, StatusHoldsStep
  DEF SearchInvariant

-----------------------------------------------------------------------------
(* The theorems *)

\* The loop keeps its invariant, whatever answers its calls give.
THEOREM InvariantHolds == Spec => []SearchInvariant
<1>1. Init => SearchInvariant
  BY InvariantInit
<1>2. SearchInvariant /\ [Next]_vars => SearchInvariant'
  BY InvariantStep
<1> QED
  BY <1>1, <1>2, PTL DEF Spec

\* No prune, branch, cut round, propagation or push-back of solve_milp loses a
\* feasible point that could still improve the incumbent.
THEOREM SearchLosesNothing == Spec => []NothingLost
<1>1. SearchInvariant => NothingLost
  BY DEF SearchInvariant
<1> QED
  BY <1>1, InvariantHolds, PTL

\* The bound a node waits under is below every feasible point of its box.
THEOREM InheritedBoundsHold == Spec => []InheritedBoundValid
<1>1. SearchInvariant => InheritedBoundValid
  BY DEF SearchInvariant
<1> QED
  BY <1>1, InvariantHolds, PTL

\* An OPTIMAL answer is optimal within the tolerance, and an INFEASIBLE one is
\* given of infeasible models only.
THEOREM VerdictsProven == Spec => []VerdictProven
<1>1. SearchInvariant => VerdictProven
  <2> SUFFICES ASSUME SearchInvariant, result.status \in {"OPTIMAL", "INFEASIBLE"}
               PROVE  VerdictProven
    BY DEF VerdictProven
  <2>1. pc = "done" /\ result.status = FinalStatus
    BY DEF SearchInvariant, StatusHolds
  <2>2. status = "INFEASIBLE"
    BY <2>1 DEF FinalStatus, StopStatuses, SearchInvariant, TypeOK, SearchTypeOK
  <2>3. Held = {}
    BY <2>1, <2>2, NodeAssumption
    DEF Held, SearchInvariant, StatusHolds, TypeOK, SearchTypeOK
  <2>4. \A p \in Feasible : Dominated(Objective[p])
    BY <2>2, <2>3 DEF SearchInvariant, NothingLost
  <2> QED
    BY <2>1, <2>2, <2>4
    DEF VerdictProven, FinalStatus, Dominated, StopStatuses, SearchInvariant,
        TypeOK, SearchTypeOK
<1> QED
  BY <1>1, InvariantHolds, PTL

\* After a node limit the reported bound is below every feasible point that
\* would improve the incumbent.
THEOREM NodeLimitBounds == Spec => []NodeLimitBoundHolds
<1>1. SearchInvariant => NodeLimitBoundHolds
  <2> SUFFICES ASSUME SearchInvariant, result.status = "NODE_LIMIT",
                      NEW p \in Feasible, ~Dominated(Objective[p])
               PROVE  result.best_bound <= Objective[p]
    BY DEF NodeLimitBoundHolds
  <2>1. /\ pc = "done" /\ result.status = FinalStatus
        /\ IsBestBound(result.best_bound)
    BY DEF SearchInvariant, StatusHolds
  <2>2. status = "NODE_LIMIT" /\ Held = open
    BY <2>1, NodeAssumption
    DEF FinalStatus, Held, SearchInvariant, TypeOK, SearchTypeOK
  <2>3. PICK n \in open : p \in Points(n)
    BY <2>2 DEF SearchInvariant, NothingLost
  <2>4. n.bound <= Objective[p] /\ n.bound \in Int /\ Objective[p] \in Int
    BY <2>2, <2>3, PointsFacts
    DEF SearchInvariant, InheritedBoundValid, TypeOK, SearchTypeOK, Node
  <2>5. PICK top \in open : IsTop(top) /\ result.best_bound = top.bound
    BY <2>1, <2>3 DEF IsBestBound
  <2>6. top.bound <= n.bound /\ top.bound \in Int
    BY <2>3, <2>5 DEF IsTop, Precedes, SearchInvariant, TypeOK, SearchTypeOK, Node
  <2> QED
    BY <2>4, <2>5, <2>6
<1> QED
  BY <1>1, InvariantHolds, PTL

\* No step lowers the least bound of the nodes held.
THEOREM DualBoundMonotone == Spec => DualBoundNeverRetreats
<1>1. ASSUME SearchInvariant, [Next]_vars
      PROVE  \A n \in Held' : \E m \in Held : m.bound <= n.bound
  <2>1. \A n \in Held : n.bound <= n.bound
    BY <1>1, NodeAssumption DEF Held, SearchInvariant, TypeOK, SearchTypeOK, Node
  <2>2. CASE Held' \subseteq Held
    BY <2>1, <2>2
  <2>3. CASE Branch
    <3>1. active \in Held /\ active.bound <= relaxation.bound
      BY <1>1, <2>3, NodeAssumption
      DEF Branch, Held, SearchInvariant, TypeOK, SearchTypeOK, RelaxationHolds,
          Solved
    <3> QED
      BY <1>1, <2>1, <2>3, <3>1, BranchShares DEF Held
  <2> QED
    BY <1>1, <2>2, <2>3, HeldStep DEF Held
<1>2. SearchInvariant /\ [Next]_vars =>
        [\A n \in Held' : \E m \in Held : m.bound <= n.bound]_vars
  BY <1>1
<1> QED
  BY <1>2, InvariantHolds, PTL DEF Spec, DualBoundNeverRetreats

\* The loop implements the contract of its caller: incumbents that only get
\* better, and one answer, with a proof behind OPTIMAL and INFEASIBLE.
THEOREM LoopImplementsContract == Spec => ImplementsContract
<1>1. Init => Contract!Init
  BY DEF Init, Contract!Init
<1>2. ASSUME SearchInvariant, [Next]_vars,
             VerdictProven', StatusHolds', TypeOK'
      PROVE  [Contract!Next]_<<incumbent, result.status>>
  <2>1. CASE pc \notin {"report", "done"}
    <3>1. UNCHANGED result /\ result.status = "NONE"
      BY <1>2, <2>1, LoopStep DEF SearchInvariant, StatusHolds
    <3>2. ASSUME NEW p \in Feasible, Consider(p), incumbent' # incumbent
          PROVE  Contract!Improve
      <4>1. incumbent' = p /\ Improves(p)
        BY <3>2 DEF Consider
      <4> QED
        BY <3>1, <4>1
        DEF Improves, Threshold, Abs, Contract!Improve, Contract!Beats,
            Contract!Threshold, Contract!Abs
    <3> QED
      BY <1>2, <3>1, <3>2, IncumbentStep DEF SearchInvariant, Contract!Next
  <2>2. CASE Report
    <3>1. /\ result.status = "NONE" /\ UNCHANGED incumbent
          /\ pc' = "done" /\ result'.status \in Contract!Verdicts
      BY <1>2, <2>2 DEF Report, FinalStatus, StopStatuses, SearchInvariant,
         StatusHolds, Contract!Verdicts
    <3>2. result'.status = "INFEASIBLE" => Feasible = {}
      BY <1>2 DEF VerdictProven
    <3>3. ASSUME result'.status = "OPTIMAL"
          PROVE  incumbent # NoPoint /\ \A p \in Feasible : ~Contract!Beats(p)
      <4>1. /\ incumbent \in Feasible
            /\ \A p \in Feasible : Objective[p] >= Threshold(Objective[incumbent])
        BY <1>2, <3>1, <3>3 DEF VerdictProven, Dominated
      <4>2. /\ Threshold(Objective[incumbent]) \in Int
            /\ \A p \in Feasible : Objective[p] \in Int
        BY <4>1, ThresholdBelow, PointsFacts
      <4>3. \A p \in Feasible : ~(Objective[p] < Threshold(Objective[incumbent]))
        BY <4>1, <4>2
      <4> QED
        BY <4>1, <4>3, OptionAssumption
        DEF Contract!Beats, Contract!Threshold, Contract!Abs, Threshold, Abs
    <3> QED
      BY <3>1, <3>2, <3>3 DEF Contract!Next, Contract!Answer
  <2>3. CASE UNCHANGED <<pc, result>> /\ UNCHANGED incumbent
    BY <2>3
  <2> QED
    BY <1>2, <2>1, <2>2, <2>3, AfterTheLoop
<1>3. SearchInvariant /\ SearchInvariant' /\ VerdictProven' /\ [Next]_vars
        => [Contract!Next]_<<incumbent, result.status>>
  BY <1>2 DEF SearchInvariant
<1> QED
  BY <1>1, <1>3, InvariantHolds, VerdictsProven, PTL
  DEF Spec, ImplementsContract, Contract!Spec

-----------------------------------------------------------------------------
(* The basis table *)

\* While the root is held it is held alone: nothing waits in the basis table
\* and no scaling has been cached, so its cut rounds may still append rows.
RootAlone ==
    \A n \in Held : n.depth = 0 => Held = {n} /\ pending = {} /\ scaled = -1

\* What the loop keeps of its queue and of the table beside it.
TableInv ==
    /\ IsFiniteSet(pending)
    /\ active \notin open
    /\ RootAlone
    /\ pc \in {"cuts", "gmi"} => active.depth = 0
    /\ BasisTableUsable

\* Cuts are separated of the root alone.
LEMMA CutStage ==
    ASSUME TypeOK, TableInv, [Next]_vars, pc' \in {"cuts", "gmi"}
    PROVE  active'.depth = 0
<1>1. CASE RelaxationOptimal
  BY <1>1 DEF RelaxationOptimal
<1>2. CASE SeparateRootCuts \/ ClockExpires \/ Done \/ UNCHANGED vars
  BY <1>2 DEF SeparateRootCuts, AppendCuts, Requeue, Goto, ClockExpires, Done, vars,
     locals, TableInv
<1>3. ~(\/ StopOnTime \/ StopOnNodes \/ Pop \/ Exhausted
        \/ PruneByInheritedBound \/ PruneByPropagation \/ Tighten
        \/ OutOfTimeBeforeRelaxation \/ OutOfTimeInRelaxation
        \/ RelaxationInfeasible \/ RelaxationFails \/ SeparateRootGmi)
  BY DEF StopOnTime, StopOnNodes, Pop, Exhausted, PruneByInheritedBound,
     PruneByPropagation, Tighten, OutOfTimeBeforeRelaxation,
     OutOfTimeInRelaxation, RelaxationInfeasible, RelaxationFails,
     SeparateRootGmi, AppendCuts, Requeue, Goto, Prune, Abandon
<1>4. ~(\/ PruneByRelaxation \/ AcceptIntegral \/ RejectIntegral
        \/ RoundFractional \/ RepairSlack \/ CheckTimeAfterRepair
        \/ FinishIntegral \/ Rens \/ FeasibilityPump \/ Dive
        \/ CheckTimeAfterImprovement \/ BranchFails \/ Branch \/ Report)
  BY DEF PruneByRelaxation, AcceptIntegral, RejectIntegral, RoundFractional,
     RepairSlack, CheckTimeAfterRepair, FinishIntegral, Rens, FeasibilityPump,
     Dive, CheckTimeAfterImprovement, BranchFails, Branch, Report, Prune,
     Abandon, PushBack, Goto
<1> QED
  BY <1>1, <1>2, <1>3, <1>4 DEF Next, Step

\* Every step but Pop and Branch leaves the queue and the table alone, caching
\* the scaling of a node below the root at most, or pushes the active node back,
\* appending cuts to the rows in the cut rounds at most.
LEMMA TableStep ==
    ASSUME TypeOK, [Next]_vars
    PROVE  \/ /\ UNCHANGED <<open, pending, rows>>
              /\ active' \in {active, NoNode}
              /\ \/ UNCHANGED scaled
                 \/ active \in Node /\ active.depth > 0 /\ scaled = -1 /\ scaled' = rows
           \/ /\ open' = open \cup {active} /\ active \in Node /\ active' = NoNode
              /\ UNCHANGED <<pending, scaled>>
              /\ UNCHANGED rows \/ (pc \in {"cuts", "gmi"} /\ rows' \in Nat)
           \/ Pop
           \/ Branch
<1> USE DEF locals, ledger, bases
<1>1. CASE \/ StopOnTime \/ StopOnNodes \/ Exhausted \/ Tighten \/ Report
           \/ ClockExpires \/ Done \/ UNCHANGED vars
  BY <1>1 DEF StopOnTime, StopOnNodes, Exhausted, Tighten, Report, ClockExpires,
     Done, vars
<1>2. CASE \/ PruneByInheritedBound \/ PruneByPropagation \/ PruneByRelaxation
           \/ OutOfTimeBeforeRelaxation \/ RejectIntegral \/ BranchFails
  BY <1>2 DEF PruneByInheritedBound, PruneByPropagation, PruneByRelaxation,
     OutOfTimeBeforeRelaxation, RejectIntegral, BranchFails, Prune, Abandon,
     LeaveIteration
<1>3. CASE \/ OutOfTimeInRelaxation \/ RelaxationInfeasible \/ RelaxationFails
           \/ RelaxationOptimal
  <2>1. /\ UNCHANGED <<open, pending, rows>> /\ active' \in {active, NoNode}
        /\ ScaleOnce /\ pc = "relax"
    BY <1>3 DEF OutOfTimeInRelaxation, RelaxationInfeasible, RelaxationFails,
       RelaxationOptimal, Prune, Abandon, LeaveIteration
  <2>2. active \in Node
    BY <2>1 DEF TypeOK, SearchTypeOK
  <2> QED
    BY <2>1, <2>2 DEF ScaleOnce
<1>4. CASE \/ SeparateRootCuts \/ SeparateRootGmi
  <2>1. active \in Node /\ rows + 1 \in Nat
    BY <1>4 DEF SeparateRootCuts, SeparateRootGmi, TypeOK, SearchTypeOK, RecordsTypeOK
  <2> QED
    BY <1>4, <2>1 DEF SeparateRootCuts, SeparateRootGmi, AppendCuts, Requeue,
       Goto, LeaveIteration
<1>5. CASE AcceptIntegral \/ RoundFractional \/ RepairSlack \/ Rens
  BY <1>5 DEF AcceptIntegral, RoundFractional, RepairSlack, Rens, Goto
<1>6. CASE \/ CheckTimeAfterRepair \/ FinishIntegral \/ FeasibilityPump \/ Dive
           \/ CheckTimeAfterImprovement
  <2>1. active \in Node
    BY <1>6 DEF CheckTimeAfterRepair, FinishIntegral, FeasibilityPump, Dive,
       CheckTimeAfterImprovement, TypeOK, SearchTypeOK
  <2> QED
    BY <1>6, <2>1 DEF CheckTimeAfterRepair, FinishIntegral, FeasibilityPump, Dive,
       CheckTimeAfterImprovement, Prune, PushBack, Goto, LeaveIteration
<1> QED
  BY <1>1, <1>2, <1>3, <1>4, <1>5, <1>6 DEF Next, Step

\* What retain_basis adds to the table, and the cap it keeps.
LEMMA RetainKeeps ==
    ASSUME NEW table, IsFiniteSet(table), NEW k \in Nat,
           MaxPendingBases > 0 => Cardinality(table) <= MaxPendingBases
    PROVE  /\ IsFiniteSet(Retain(table, k))
           /\ Retain(table, k) \subseteq table \cup {[order |-> k, rows |-> rows]}
           /\ MaxPendingBases > 0 => Cardinality(Retain(table, k)) <= MaxPendingBases
<1> DEFINE e == [order |-> k, rows |-> rows]
<1>1. /\ IsFiniteSet(table \cup {e})
      /\ \/ Cardinality(table \cup {e}) = Cardinality(table)
         \/ Cardinality(table \cup {e}) = Cardinality(table) + 1
      /\ Cardinality(table) \in Nat
  BY FS_AddElement, FS_CardinalityType
<1> QED
  BY <1>1, OptionAssumption DEF Retain

\* The children of the active node are queued under its own depth plus one, and
\* the bases retained for them under their orders.
LEMMA BranchQueues ==
    ASSUME TypeOK, TableInv, Branch
    PROVE  /\ active \in Node /\ active' = NoNode /\ open \subseteq open'
           /\ UNCHANGED <<rows, scaled>>
           /\ \A n \in open' : n \in open \/ n.depth > 0
           /\ IsFiniteSet(pending')
           /\ MaxPendingBases > 0 => Cardinality(pending') <= MaxPendingBases
           /\ \A e \in pending' : \/ e \in pending
                                  \/ e.rows = rows /\ \E n \in open' : n.order = e.order
<1>1. active \in Node /\ nextOrder \in Nat
  BY DEF Branch, TypeOK, SearchTypeOK, RecordsTypeOK
<1>2. PICK j \in Columns, v \in Int :
         open' = open \cup
            {Child(active, active.lower, WithUpper(active, j, v),
                   relaxation.bound, nextOrder),
             Child(active, WithLower(active, j, v + 1), active.upper,
                   relaxation.bound, nextOrder + 1)}
  BY BranchSplits
<1>3. /\ \A n \in open' : n \in open \/ n.depth = active.depth + 1
      /\ \E n \in open' : n.order = nextOrder
      /\ \E n \in open' : n.order = nextOrder + 1
  <2> DEFINE down == Child(active, active.lower, WithUpper(active, j, v),
                           relaxation.bound, nextOrder)
             up == Child(active, WithLower(active, j, v + 1), active.upper,
                         relaxation.bound, nextOrder + 1)
  <2>1. /\ down.depth = active.depth + 1 /\ down.order = nextOrder
        /\ up.depth = active.depth + 1 /\ up.order = nextOrder + 1
    BY DEF Child
  <2>2. open' = open \cup {down, up}
    BY <1>2
  <2> HIDE DEF down, up
  <2> QED
    BY <2>1, <2>2
<1>4. active.depth + 1 > 0
  BY <1>1 DEF Node
<1> DEFINE first == Retain(pending, nextOrder)
<1>5. /\ IsFiniteSet(pending)
      /\ MaxPendingBases > 0 => Cardinality(pending) <= MaxPendingBases
  BY DEF TableInv, BasisTableUsable, PendingMatchesQueue
<1>6. /\ IsFiniteSet(first)
      /\ first \subseteq pending \cup {[order |-> nextOrder, rows |-> rows]}
      /\ MaxPendingBases > 0 => Cardinality(first) <= MaxPendingBases
  BY <1>1, <1>5, RetainKeeps
<1> HIDE DEF first
<1>7. nextOrder + 1 \in Nat
  BY <1>1
<1>8. /\ IsFiniteSet(Retain(first, nextOrder + 1))
      /\ Retain(first, nextOrder + 1)
            \subseteq first \cup {[order |-> nextOrder + 1, rows |-> rows]}
      /\ MaxPendingBases > 0 => Cardinality(Retain(first, nextOrder + 1)) <= MaxPendingBases
  BY <1>6, <1>7, RetainKeeps
<1>9. pending' = pending \/ pending' = Retain(first, nextOrder + 1)
  BY DEF Branch, first
<1>10. \A e \in pending' : \/ e \in pending
                           \/ e.rows = rows /\ e.order \in {nextOrder, nextOrder + 1}
  BY <1>6, <1>8, <1>9
<1>11. \A e \in pending' : \/ e \in pending
                           \/ e.rows = rows /\ \E n \in open' : n.order = e.order
  BY <1>3, <1>10
<1> QED
  BY <1>1, <1>2, <1>3, <1>4, <1>5, <1>8, <1>9, <1>11 DEF Branch, LeaveIteration

\* The queue and the table match when the loop starts.
LEMMA TableInit == Init => TableInv
<1> SUFFICES ASSUME Init PROVE TableInv
  OBVIOUS
<1>1. pending = {} /\ scaled = -1 /\ Held = {Root} /\ active \notin open
  BY NodeAssumption, TypeInit DEF Init, Held, TypeOK, SearchTypeOK
<1>2. IsFiniteSet(pending) /\ Cardinality(pending) = 0
  BY <1>1, FS_EmptySet
<1> QED
  BY <1>1, <1>2, OptionAssumption
  DEF Init, TableInv, RootAlone, BasisTableUsable, BasesFitWorkspace, PendingMatchesQueue

\* Every step keeps them matched.
LEMMA TableInvStep == TypeOK /\ TypeOK' /\ TableInv /\ [Next]_vars => TableInv'
<1> SUFFICES ASSUME TypeOK, TypeOK', TableInv, [Next]_vars PROVE TableInv'
  OBVIOUS
<1> USE DEF BasisTableUsable, BasesFitWorkspace, PendingMatchesQueue
<1>1. pc' \in {"cuts", "gmi"} => active'.depth = 0
  BY CutStage
<1>2. NoNode \notin open' /\ NoNode \notin open
  BY NodeAssumption DEF TypeOK, SearchTypeOK
<1>3. active \in Node => active \in Held /\ active # NoNode
  BY NodeAssumption DEF Held
<1>4. ASSUME UNCHANGED <<open, pending, rows>>, active' \in {active, NoNode},
             \/ UNCHANGED scaled
             \/ active \in Node /\ active.depth > 0 /\ scaled = -1 /\ scaled' = rows
      PROVE  TableInv'
  <2>1. Held' \subseteq Held
    BY <1>4 DEF Held
  <2>2. UNCHANGED scaled \/ \A n \in Held : n.depth # 0
    <3>1. ASSUME active \in Node, active.depth > 0, NEW n \in Held, n.depth = 0
          PROVE  FALSE
      BY <1>3, <3>1 DEF TableInv, RootAlone, Node
    <3> QED
      BY <1>4, <3>1
  <2>3. RootAlone'
    <3> SUFFICES ASSUME NEW n \in Held', n.depth = 0
                 PROVE  Held' = {n} /\ pending' = {} /\ scaled' = -1
      BY DEF RootAlone
    <3>1. n \in Held /\ Held = {n} /\ pending = {} /\ scaled = -1
      BY <2>1 DEF TableInv, RootAlone
    <3> QED
      BY <1>4, <2>1, <2>2, <3>1
  <2> QED
    BY <1>1, <1>2, <1>4, <2>3 DEF TableInv
<1>5. ASSUME open' = open \cup {active}, active \in Node, active' = NoNode,
             UNCHANGED <<pending, scaled>>,
             UNCHANGED rows \/ (pc \in {"cuts", "gmi"} /\ rows' \in Nat)
      PROVE  TableInv'
  <2>1. Held' = Held
    BY <1>3, <1>5 DEF Held
  <2>2. RootAlone'
    BY <1>5, <2>1 DEF TableInv, RootAlone
  <2>3. pc \in {"cuts", "gmi"} => pending = {} /\ scaled = -1
    BY <1>3, <1>5 DEF TableInv, RootAlone
  <2> QED
    BY <1>1, <1>2, <1>5, <2>2, <2>3 DEF TableInv
<1>6. CASE Pop
  <2>1. PICK n \in open :
           /\ active' = n /\ open' = open \ {n}
           /\ pending' = {e \in pending : e.order # n.order}
           /\ UNCHANGED <<rows, scaled>> /\ pc = "loop"
    BY <1>6 DEF Pop
  <2>2. active = NoNode /\ Held' = Held
    BY <1>2, <2>1 DEF Held, TypeOK, SearchTypeOK
  <2>3. pending' \subseteq pending
    BY <2>1
  <2>4. IsFiniteSet(pending') /\ Cardinality(pending') <= Cardinality(pending)
    BY <2>3, FS_Subset DEF TableInv
  <2>5. MaxPendingBases > 0 => Cardinality(pending') <= MaxPendingBases
    BY <2>4, FS_CardinalityType, OptionAssumption DEF TableInv
  <2>6. RootAlone'
    BY <2>1, <2>2, <2>3 DEF TableInv, RootAlone
  <2>7. \A e \in pending' : \E m \in open' : m.order = e.order
    BY <2>1 DEF TableInv
  <2> QED
    BY <1>1, <2>1, <2>3, <2>4, <2>5, <2>6, <2>7 DEF TableInv
<1>7. CASE Branch
  <2>1. \A n \in open : n.depth # 0
    <3> SUFFICES ASSUME NEW n \in open, n.depth = 0 PROVE FALSE
      OBVIOUS
    <3>1. Held = {n} /\ active \in Held
      BY <1>3, <1>7, BranchQueues DEF TableInv, RootAlone, Held
    <3> QED
      BY <3>1 DEF TableInv
  <2>2. Held' = open' /\ \A n \in Held' : n.depth # 0
    <3>1. \A n \in open' : n \in Node
      BY DEF TypeOK, SearchTypeOK
    <3> QED
      BY <1>7, <2>1, <3>1, BranchQueues DEF Held, Node
  <2>3. RootAlone'
    BY <2>2 DEF RootAlone
  <2>4. \A e \in pending' : e.rows = rows' /\ \E n \in open' : n.order = e.order
    BY <1>7, BranchQueues DEF TableInv
  <2> QED
    BY <1>1, <1>2, <1>7, <2>3, <2>4, BranchQueues DEF TableInv
<1> QED
  BY <1>4, <1>5, <1>6, <1>7, TableStep

\* What waits in pending_basis belongs to a queued node, within the cap, and was
\* made, as the cached scaling was, for the rows the workspace has now: no cut is
\* appended once a node below the root has been scaled or has left a basis.
THEOREM BasisTableStaysUsable == Spec => []BasisTableUsable
<1>1. TableInv => BasisTableUsable
  BY DEF TableInv
<1> QED
  BY <1>1, TableInit, TableInvStep, TypeCorrect, PTL DEF Spec

=============================================================================

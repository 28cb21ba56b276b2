-------------------------- MODULE NativeMilpProofs --------------------------
(***************************************************************************)
(* Theorems about sk_milp_solve, the branch-and-bound driver of the C      *)
(* engine, for every model and every setting of its options.               *)
(***************************************************************************)
EXTENDS NativeMilp, TLAPS

-----------------------------------------------------------------------------
(* The inductive invariant *)

\* The bounds in nlow and nupp lie within the node's and hold each of its
\* points that could still improve the incumbent; those of the root hold all.
BoxHolds ==
    /\ pc = "solve_root" => model \subseteq Points(box)
    /\ pc \in {"solve", "decide"} =>
          /\ Reach(current) \cap Promising \subseteq Points(box)
          /\ \A j \in Columns : /\ current.lower[j] <= box.lower[j]
                                /\ box.upper[j] <= current.upper[j]

\* What M.ls holds when the node is decided: a bound on the node's box, reached
\* by an integral relaxation, unless the check of the original model rejected it.
RelaxationHolds ==
    pc = "decide" =>
        /\ \A p \in Reach(box) : relaxation.bound <= Objective[p]
        /\ relaxation.integral /\ relaxation.point # NoPoint =>
              /\ relaxation.point \in model
              /\ Objective[relaxation.point] = relaxation.bound
        /\ relaxation.integral /\ relaxation.point = NoPoint => failed

\* There is neither a node nor an incumbent until the root relaxation is solved,
\* and the incumbent is a point of the model in hand.
TreeShape ==
    /\ pc \in {"root", "solve_root"} => heap = {} /\ incumbent = NoPoint
    /\ incumbent # NoPoint => incumbent \in model

\* No feasible point is below the incumbent by more than the requested gap.
GapProven ==
    /\ incumbent # NoPoint
    /\ \A p \in model : Objective[p] < Objective[incumbent] => Closed(Objective[p])

\* The result sk_milp_solve has made up its mind to report is one it can prove,
\* or says that a limit or a failure cut the search off; the status given to
\* the caller is made from it.
FinalHolds ==
    /\ final = "NOT_RUN" <=> pc \notin {"finish", "done"}
    /\ ~failed =>
          /\ final \in {"NOT_RUN", "OPTIMAL", "INFEASIBLE", "TIME_LIMIT", "ITERATION_LIMIT"}
          /\ final = "OPTIMAL" => GapProven
          /\ final = "INFEASIBLE" => model = {}
    /\ pc # "done" => result.status = "NONE"
    /\ pc = "done" =>
          result.status = IF incumbent # NoPoint /\ final \notin
                             {"OPTIMAL", "TIME_LIMIT", "ITERATION_LIMIT"}
                          THEN "GAP_LIMIT" ELSE final

\* What the driver keeps at every step.
DriverInv ==
    /\ TypeOK
    /\ NothingLost
    /\ NodesDisjoint
    /\ BoundsHold
    /\ BoxHolds
    /\ RelaxationHolds
    /\ TreeShape
    /\ FinalHolds

-----------------------------------------------------------------------------
(* The operators the driver is built from *)

\* The points of a box are feasible points, and these have objectives.
LEMMA PointFacts ==
    /\ \A b : Points(b) \subseteq Feasible
    /\ \A p \in Feasible : Objective[p] \in Int
    /\ Models \subseteq SUBSET Feasible
  BY BoxAssumption, GapAssumption DEF Points

\* A node or a box holds the model's points within its bounds.
LEMMA RootBoxHolds == RootBox \in Box /\ Points(RootBox) = Feasible
  BY BoxAssumption DEF RootBox, Box, Points

\* Propagation gives a smaller box, and one that keeps the points it has to.
LEMMA TightenedKeeps ==
    ASSUME NEW b, NEW keep, NEW c \in Tightened(b, keep)
    PROVE  /\ c \in Box
           /\ Points(b) \cap keep \subseteq Points(c)
           /\ \A j \in Columns : /\ b.lower[j] <= c.lower[j]
                                 /\ c.upper[j] <= b.upper[j]
<1>1. Span \subseteq Int
  BY BoxAssumption DEF Span
<1> QED
  BY <1>1 DEF Tightened, Shrunk, Box

\* The absolute value of an integer, on either side of zero.
LEMMA AbsFacts ==
    ASSUME NEW v \in Int
    PROVE  /\ Abs(v) \in Nat
           /\ v >= 0 => Abs(v) = v
  BY DEF Abs

\* Whatever lies above a cut-off value is cut off.
LEMMA CutOffAbove ==
    ASSUME TypeOK, NEW v \in Int, NEW w \in Int, CutOff(v), v <= w
    PROVE  CutOff(w)
  BY PointFacts, GapAssumption DEF CutOff, TypeOK

\* A point outside the reach of objective propagation is cut off.
LEMMA UnpromisingCutOff ==
    ASSUME TypeOK, NEW p \in model, p \notin Promising
    PROVE  CutOff(Objective[p])
  BY PointFacts, GapAssumption DEF CutOff, Promising, TypeOK

\* The gap of a value between the incumbent and a bound is no wider than the
\* bound's.
LEMMA ClosedBetween ==
    ASSUME TypeOK, NEW b \in Int, NEW v \in Int, Closed(b),
           b <= v, v < Objective[incumbent]
    PROVE  Closed(v)
<1> DEFINE inc == Objective[incumbent]
           slack == GapPercent * Abs(inc)
<1>1. incumbent # NoPoint /\ inc \in Int
  BY PointFacts DEF Closed, TypeOK
<1>2. slack \in Int
  BY <1>1, AbsFacts, GapAssumption
<1>3. Abs(inc - b) = inc - b /\ Abs(inc - v) = inc - v /\ inc - v <= inc - b
  BY <1>1, AbsFacts
<1>4. inc - b <= GapAbs \/ 100 * (inc - b) <= slack
  BY <1>3 DEF Closed
<1> HIDE DEF inc, slack
<1>5. inc - v <= GapAbs \/ 100 * (inc - v) <= slack
  BY <1>1, <1>2, <1>3, <1>4, GapAssumption
<1> QED
  BY <1>1, <1>3, <1>5 DEF Closed, inc, slack

\* A value within the absolute gap of the incumbent closes it.
LEMMA CutOffClosed ==
    ASSUME TypeOK, NEW v \in Int, CutOff(v), v < Objective[incumbent]
    PROVE  Closed(v)
<1>1. incumbent # NoPoint /\ Objective[incumbent] \in Int
  BY PointFacts DEF CutOff, TypeOK
<1>2. Abs(Objective[incumbent] - v) = Objective[incumbent] - v
  BY <1>1, AbsFacts
<1>3. Objective[incumbent] - v <= GapAbs
  BY <1>1, GapAssumption DEF CutOff
<1> QED
  BY <1>1, <1>2, <1>3 DEF Closed

-----------------------------------------------------------------------------
(* Type correctness *)

\* The driver starts in a state of the right types.
LEMMA TypeInit == Init => TypeOK
<1> SUFFICES ASSUME Init PROVE TypeOK
  OBVIOUS
<1>1. relaxation \in [bound : Int, integral : BOOLEAN, point : Feasible \cup {NoPoint}]
  BY DEF Init, NoRelaxation
<1>2. box \in Box
  BY RootBoxHolds DEF Init
<1>3. result \in [status : {"NONE", "OPTIMAL", "INFEASIBLE", "UNBOUNDED", "TIME_LIMIT",
                           "ITERATION_LIMIT", "GAP_LIMIT", "NUMERIC_FAILURE"},
                 dual_bound : Int]
  BY DEF Init
<1>4. failed \in BOOLEAN /\ expired \in BOOLEAN
  BY DEF Init
<1>5. heap \subseteq Node /\ current = NoNode
  BY DEF Init
<1> QED
  BY <1>1, <1>2, <1>3, <1>4, <1>5 DEF Init, TypeOK

\* What an end of a stage leaves alone, and the types it keeps.
LEMMA EndsKeepTypes ==
    ASSUME TypeOK, failed' \in BOOLEAN, UNCHANGED <<model, nodes, rootBound, result>>,
           expired' \in BOOLEAN, incumbent' \in Feasible \cup {NoPoint},
           \/ Drop
           \/ \E r \in {"OPTIMAL", "INFEASIBLE", "UNBOUNDED", "TIME_LIMIT",
                        "ITERATION_LIMIT", "NUMERIC_FAILURE"} : Stop(r)
    PROVE  TypeOK'
<1>1. CASE Drop
  BY <1>1, RootBoxHolds DEF Drop, NoRelaxation, TypeOK
<1>2. ASSUME NEW r \in {"OPTIMAL", "INFEASIBLE", "UNBOUNDED", "TIME_LIMIT",
                        "ITERATION_LIMIT", "NUMERIC_FAILURE"}, Stop(r)
      PROVE TypeOK'
  BY <1>2, RootBoxHolds DEF Stop, NoRelaxation, TypeOK
<1> QED
  BY <1>1, <1>2

\* A child of a node is a node.
LEMMA ChildIsNode ==
    ASSUME TypeOK, current \in Node, NEW j \in Columns, NEW v \in Int, NEW w \in Int
    PROVE  /\ Child(current.lower, WithUpper(current, j, v)) \in Node
           /\ Child(WithLower(current, j, w), current.upper) \in Node
<1>1. /\ WithUpper(current, j, v) \in [Columns -> Int]
      /\ WithLower(current, j, w) \in [Columns -> Int]
  BY DEF Node, WithUpper, WithLower
<1>2. relaxation.bound \in Int
  BY DEF TypeOK
<1> QED
  BY <1>1, <1>2 DEF Child, Node

\* Branch splits the box at a value of one column; one child is plunged into
\* and the other waits on the heap.
LEMMA BranchSplits ==
    ASSUME TypeOK, Branch
    PROVE  \E j \in Columns, v \in Int :
              /\ box.lower[j] <= v /\ v + 1 <= box.upper[j]
              /\ LET down == Child(current.lower, WithUpper(current, j, v))
                     up == Child(WithLower(current, j, v + 1), current.upper)
                 IN  Plunge(down, up) \/ Plunge(up, down)
<1>1. \A j \in Columns : box.lower[j] \in Int /\ box.upper[j] \in Int
  BY DEF TypeOK, Box
<1>2. PICK q \in Roundings, j \in Columns :
         \E v \in box.lower[j] .. (box.upper[j] - 1) :
            LET at == BranchValue(Between(v), Scratch(Between(v), q, j))
                down == Child(current.lower, WithUpper(current, j, at.floor))
                up == Child(WithLower(current, j, at.ceil), current.upper)
            IN  Plunge(down, up) \/ Plunge(up, down)
  BY DEF Branch
<1>3. PICK v \in box.lower[j] .. (box.upper[j] - 1) :
         LET down == Child(current.lower, WithUpper(current, j, v))
             up == Child(WithLower(current, j, v + 1), current.upper)
         IN  Plunge(down, up) \/ Plunge(up, down)
  BY <1>2 DEF BranchValue, Between
<1>4. v \in Int /\ box.lower[j] <= v /\ v + 1 <= box.upper[j]
  BY <1>1
<1> QED
  BY <1>3, <1>4

\* The rounding at a branch leaves the incumbent, or finds a better point of the
\* box.
LEMMA BranchRounds ==
    ASSUME Branch
    PROVE  \/ UNCHANGED incumbent
           \/ incumbent' \in Reach(box) /\ Improves(incumbent')
<1>1. PICK q \in Roundings : RoundRelaxation(q)
  BY DEF Branch
<1>2. q = NoPoint \/ q \in Reach(box)
  BY DEF Roundings
<1> QED
  BY <1>1, <1>2 DEF RoundRelaxation

\* Every step of the driver and of the clock keeps the types.
LEMMA TypeStep ==
    ASSUME TypeOK, FinalHolds, [Next]_vars
    PROVE  TypeOK'
<1>1. CASE RootPropagatedAway \/ Exhausted \/ StopOnTime \/ StopOnNodes \/ StopOnGap
  BY <1>1, EndsKeepTypes
  DEF RootPropagatedAway, Exhausted, StopOnTime, StopOnNodes, StopOnGap, Known, TypeOK
<1>2. CASE RootOutOfTime \/ OutOfTime
  BY <1>2, EndsKeepTypes DEF RootOutOfTime, OutOfTime, Known, TypeOK
<1>3. CASE RootUnsolved
  BY <1>3, EndsKeepTypes, OptionAssumption DEF RootUnsolved, TypeOK
<1>4. CASE DropByBound \/ DropUnsolved \/ DropByRelaxation
  BY <1>4, EndsKeepTypes DEF DropByBound, DropUnsolved, DropByRelaxation, Known, TypeOK
<1>5. CASE TakeIntegral
  BY <1>5, EndsKeepTypes DEF TakeIntegral, Known, TypeOK
<1>6. CASE PropagateRoot
  BY <1>6, TightenedKeeps DEF PropagateRoot, Known, TypeOK
<1>7. CASE SolveRoot
  <2>1. current' \in Node /\ rootBound' \in Int
    BY <1>7, BoxAssumption, GapAssumption DEF SolveRoot, Node
  <2>2. incumbent' \in Feasible \cup {NoPoint}
    BY <1>7, PointFacts DEF SolveRoot, Reach
  <2> QED
    BY <1>7, <2>1, <2>2, RootBoxHolds DEF SolveRoot, Known, TypeOK
<1>8. CASE Take
  BY <1>8 DEF Take, Known, TypeOK
<1>9. CASE Propagate
  BY <1>9, TightenedKeeps DEF Propagate, Known, TypeOK
<1>10. CASE Solve
  <2>1. relaxation' \in [bound : Int, integral : BOOLEAN, point : Feasible \cup {NoPoint}]
    <3>1. PICK v \in BoundValues :
             \/ relaxation' = [bound |-> v, integral |-> FALSE, point |-> NoPoint]
             \/ \E p \in Reach(box) :
                   relaxation' = [bound |-> v, integral |-> TRUE, point |-> p]
             \/ relaxation' = [bound |-> v, integral |-> TRUE, point |-> NoPoint]
      BY <1>10 DEF Solve
    <3>2. v \in Int /\ Reach(box) \subseteq Feasible
      BY PointFacts, GapAssumption DEF Reach
    <3>3. ASSUME NEW b \in BOOLEAN, NEW p \in Feasible \cup {NoPoint},
                 relaxation' = [bound |-> v, integral |-> b, point |-> p]
          PROVE  relaxation' \in [bound : Int, integral : BOOLEAN,
                                 point : Feasible \cup {NoPoint}]
      BY <3>2, <3>3
    <3> QED
      BY <3>1, <3>2, <3>3
  <2>2. failed' \in BOOLEAN
    BY <1>10 DEF Solve, TypeOK
  <2> QED
    BY <1>10, <2>1, <2>2 DEF Solve, TypeOK
<1>11. CASE Branch
  <2>1. current \in Node
    BY <1>11 DEF Branch, TypeOK
  <2>2. incumbent' \in Feasible \cup {NoPoint}
    BY <1>11, BranchRounds, PointFacts DEF Reach, TypeOK
  <2>3. PICK j \in Columns, v \in Int :
           LET down == Child(current.lower, WithUpper(current, j, v))
               up == Child(WithLower(current, j, v + 1), current.upper)
           IN  Plunge(down, up) \/ Plunge(up, down)
    BY <1>11, BranchSplits
  <2>4. v + 1 \in Int
    OBVIOUS
  <2>5. current' \in Node /\ heap' \subseteq Node
    BY <2>1, <2>3, <2>4, ChildIsNode DEF Plunge, TypeOK
  <2> QED
    BY <1>11, <2>2, <2>5, RootBoxHolds DEF Branch, NoRelaxation, Known, TypeOK
<1>12. CASE Report
  <2>1. \A b \in ReportedBounds : b \in Int
    BY PointFacts, GapAssumption DEF ReportedBounds, Held, Node, TypeOK
  <2>2. final # "NOT_RUN"
    BY <1>12 DEF Report, FinalHolds
  <2>3. result' \in [status : {"NONE", "OPTIMAL", "INFEASIBLE", "UNBOUNDED", "TIME_LIMIT",
                               "ITERATION_LIMIT", "GAP_LIMIT", "NUMERIC_FAILURE"},
                     dual_bound : Int]
    BY <1>12, <2>1, <2>2 DEF Report, TypeOK
  <2> QED
    BY <1>12, <2>3 DEF Report, Known, TypeOK
<1>13. CASE ClockExpires \/ Done \/ UNCHANGED vars
  BY <1>13 DEF ClockExpires, Done, vars, Known, TypeOK
<1> QED
  BY <1>1, <1>2, <1>3, <1>4, <1>5, <1>6, <1>7, <1>8, <1>9, <1>10, <1>11, <1>12, <1>13
  DEF Next, Step

-----------------------------------------------------------------------------
(* What one step does to the incumbent and to the nodes held *)

\* The model in hand is one the caller may have, a set of feasible points.
LEMMA ModelPoints ==
    ASSUME TypeOK
    PROVE  model \subseteq Feasible /\ \A p \in model : Objective[p] \in Int
  BY PointFacts DEF TypeOK

\* The model never changes, and a failure is never forgotten.
LEMMA KnownStep ==
    ASSUME [Next]_vars
    PROVE  model' = model /\ (~failed' => ~failed)
<1>1. CASE \/ RootPropagatedAway \/ PropagateRoot \/ RootOutOfTime \/ SolveRoot
           \/ Take \/ Exhausted \/ StopOnTime \/ StopOnNodes \/ StopOnGap
           \/ DropByBound \/ Propagate \/ OutOfTime
           \/ DropByRelaxation \/ TakeIntegral \/ Branch
           \/ Report \/ ClockExpires \/ Done \/ UNCHANGED vars
  BY <1>1 DEF RootPropagatedAway, PropagateRoot, RootOutOfTime, SolveRoot, Take,
     Exhausted, StopOnTime, StopOnNodes, StopOnGap, DropByBound, Propagate,
     OutOfTime, DropByRelaxation, TakeIntegral, Branch, Report, ClockExpires,
     Done, vars, Known
<1>2. CASE RootUnsolved \/ DropUnsolved \/ Solve
  BY <1>2 DEF RootUnsolved, DropUnsolved, Solve
<1> QED
  BY <1>1, <1>2 DEF Next, Step

\* The incumbent only ever gives way to a better point of the model.
LEMMA IncumbentStep ==
    ASSUME DriverInv, [Next]_vars
    PROVE  UNCHANGED incumbent \/ (incumbent' \in model /\ Improves(incumbent'))
<1>1. CASE \/ RootPropagatedAway \/ PropagateRoot \/ RootOutOfTime \/ RootUnsolved
           \/ Take \/ Exhausted \/ StopOnTime \/ StopOnNodes \/ StopOnGap
           \/ DropByBound \/ Propagate \/ OutOfTime \/ DropUnsolved \/ Solve
           \/ DropByRelaxation
           \/ Report \/ ClockExpires \/ Done \/ UNCHANGED vars
  BY <1>1 DEF RootPropagatedAway, PropagateRoot, RootOutOfTime, RootUnsolved, Take,
     Exhausted, StopOnTime, StopOnNodes, StopOnGap, DropByBound, Propagate,
     OutOfTime, DropUnsolved, Solve, DropByRelaxation, Report, ClockExpires,
     Done, vars
<1>2. CASE SolveRoot
  BY <1>2 DEF SolveRoot, Reach, Improves, DriverInv, TreeShape
<1>3. CASE TakeIntegral
  BY <1>3 DEF TakeIntegral, DriverInv, RelaxationHolds
<1>4. CASE Branch
  BY <1>4, BranchRounds DEF Reach
<1> QED
  BY <1>1, <1>2, <1>3, <1>4 DEF Next, Step

\* A new incumbent cuts off all that the old one did.
LEMMA CutOffKept ==
    ASSUME DriverInv, [Next]_vars, NEW v \in Int, CutOff(v)
    PROVE  CutOff(v)'
<1>1. /\ incumbent # NoPoint /\ incumbent \in Feasible
      /\ Objective[incumbent] \in Int /\ v >= Objective[incumbent] - GapAbs
  BY PointFacts DEF CutOff, DriverInv, TypeOK
<1>2. CASE UNCHANGED incumbent
  BY <1>1, <1>2 DEF CutOff
<1>3. CASE incumbent' \in model /\ Improves(incumbent')
  <2>1. /\ incumbent' \in Feasible /\ Objective[incumbent'] \in Int
        /\ Objective[incumbent'] < Objective[incumbent]
    BY <1>1, <1>3, ModelPoints DEF Improves, DriverInv
  <2>2. incumbent' # NoPoint
    BY <2>1, OptionAssumption
  <2> QED
    BY <1>1, <2>1, <2>2, GapAssumption DEF CutOff
<1> QED
  BY <1>2, <1>3, IncumbentStep

\* The points of a node are cut off when a value below those of its box is, for
\* propagation has put no promising point outside the box.
LEMMA BoxCutOff ==
    ASSUME DriverInv, pc \in {"solve", "decide"}, NEW v \in Int,
           \A p \in Reach(box) : v <= Objective[p],
           CutOff(v) \/ Reach(box) = {}
    PROVE  \A p \in Reach(current) : CutOff(Objective[p])
<1> SUFFICES ASSUME NEW p \in Reach(current) PROVE CutOff(Objective[p])
  OBVIOUS
<1>1. p \in model /\ Objective[p] \in Int
  BY ModelPoints DEF Reach, DriverInv
<1>2. CASE p \in Promising
  <2>1. p \in Reach(box)
    BY <1>2 DEF Reach, DriverInv, BoxHolds
  <2> QED
    BY <1>1, <2>1, CutOffAbove DEF DriverInv
<1>3. CASE p \notin Promising
  BY <1>1, <1>3, UnpromisingCutOff DEF DriverInv
<1> QED
  BY <1>2, <1>3

\* An integral relaxation that has been taken, or turned down for a better
\* incumbent, cuts off its own value.
LEMMA IntegralCutOff ==
    ASSUME DriverInv, TakeIntegral, [Next]_vars, ~failed,
           NEW v \in Int, relaxation.bound = v
    PROVE  CutOff(v)'
<1>1. /\ relaxation.point \in model /\ relaxation.point # NoPoint
      /\ Objective[relaxation.point] = v /\ relaxation.point \in Feasible
  BY PointFacts DEF TakeIntegral, DriverInv, RelaxationHolds, TypeOK
<1>2. CASE Improves(relaxation.point)
  BY <1>1, <1>2, GapAssumption DEF TakeIntegral, CutOff
<1>3. CASE ~Improves(relaxation.point)
  <2>1. /\ incumbent' = incumbent /\ incumbent # NoPoint
        /\ Objective[incumbent] \in Int
        /\ v >= Objective[incumbent]
    BY <1>1, <1>3, PointFacts DEF TakeIntegral, Improves, DriverInv, TypeOK
  <2> QED
    BY <1>1, <2>1, GapAssumption DEF CutOff
<1> QED
  BY <1>2, <1>3

\* Every step keeps the nodes held, or drops the one in hand when its points
\* are cut off or a relaxation has failed, or ends the search, or plants the
\* root, or branches.
LEMMA HeldStep ==
    ASSUME DriverInv, [Next]_vars
    PROVE  \/ Held' = Held /\ (final = "NOT_RUN" \/ final' # "NOT_RUN")
           \/ Held' = heap /\ final' # "NOT_RUN"
           \/ /\ Held' = heap
              /\ ~failed' => \A p \in Reach(current) : CutOff(Objective[p])'
              /\ current # NoNode /\ final = "NOT_RUN"
           \/ SolveRoot
           \/ Branch
<1> DEFINE Gone == ~failed' => \A p \in Reach(current) : CutOff(Objective[p])'
<1>1. TypeOK /\ ~(pc \in {"finish", "done"} /\ final = "NOT_RUN")
  BY DEF DriverInv, FinalHolds
<1>2. (\A p \in Reach(current) : CutOff(Objective[p])) => Gone
  BY CutOffKept, ModelPoints DEF DriverInv, Reach
<1>3. ASSUME UNCHANGED <<heap, current, final>>
      PROVE  Held' = Held /\ (final = "NOT_RUN" \/ final' # "NOT_RUN")
  BY <1>3 DEF Held
<1>4. ASSUME NEW r, Stop(r), r # "NOT_RUN" PROVE Held' = heap /\ final' # "NOT_RUN"
  BY <1>4 DEF Held, Stop
<1>5. ASSUME Drop PROVE Held' = heap
  BY <1>5 DEF Held, Drop
<1>6. pc \in {"limits", "solve", "decide"} =>
         /\ current # NoNode /\ final = "NOT_RUN"
         /\ current \in Node /\ current \in Held /\ current.bound \in Int
  BY NodeAssumption DEF DriverInv, TypeOK, FinalHolds, Held, Node
<1>7. CASE \/ PropagateRoot \/ Propagate \/ Solve \/ Report
           \/ ClockExpires \/ Done \/ UNCHANGED vars
  BY <1>3, <1>7 DEF PropagateRoot, Propagate, Solve, Report, ClockExpires, Done, vars
<1>8. CASE \/ RootPropagatedAway \/ RootOutOfTime \/ RootUnsolved \/ Exhausted
           \/ StopOnTime \/ StopOnNodes \/ StopOnGap \/ OutOfTime
  BY <1>4, <1>8, OptionAssumption
  DEF RootPropagatedAway, RootOutOfTime, RootUnsolved, Exhausted, StopOnTime,
      StopOnNodes, StopOnGap, OutOfTime
<1>9. CASE Take
  BY <1>1, <1>9, NodeAssumption DEF Take, Held, TypeOK
<1>10. CASE DropByBound
  <2>1. \A p \in Reach(current) : CutOff(Objective[p])
    <3> SUFFICES ASSUME NEW p \in Reach(current) PROVE CutOff(Objective[p])
      OBVIOUS
    <3>1. p \in model /\ Objective[p] \in Int
      BY <1>1, ModelPoints DEF Reach
    <3>2. CASE CutOff(current.bound)
      BY <1>1, <1>6, <1>10, <3>1, <3>2, CutOffAbove DEF DropByBound, DriverInv, BoundsHold
    <3>3. CASE Reach(current) \cap Promising = {}
      BY <1>1, <3>1, <3>3, UnpromisingCutOff
    <3> QED
      BY <1>10, <3>2, <3>3 DEF DropByBound
  <2> QED
    BY <1>2, <1>5, <1>6, <1>10, <2>1 DEF DropByBound
<1>11. CASE DropUnsolved
  <2>1. Gone
    <3>1. CASE Reach(box) = {}
      <4>1. \A p \in Reach(current) : CutOff(Objective[p])
        BY <1>11, <3>1, BoxCutOff DEF DropUnsolved
      <4> QED
        BY <1>2, <4>1
    <3>2. CASE failed' = TRUE
      BY <3>2
    <3> QED
      BY <1>11, <3>1, <3>2 DEF DropUnsolved
  <2> QED
    BY <1>5, <1>6, <1>11, <2>1 DEF DropUnsolved
<1>12. CASE DropByRelaxation
  <2>1. /\ relaxation.bound \in Int
        /\ \A p \in Reach(box) : relaxation.bound <= Objective[p]
    BY <1>12 DEF DropByRelaxation, DriverInv, RelaxationHolds, TypeOK
  <2>2. \A p \in Reach(current) : CutOff(Objective[p])
    BY <1>12, <2>1, BoxCutOff DEF DropByRelaxation
  <2> QED
    BY <1>2, <1>5, <1>6, <1>12, <2>2 DEF DropByRelaxation
<1>13. CASE TakeIntegral
  <2>1. ASSUME ~failed', NEW p \in Reach(current) PROVE CutOff(Objective[p])'
    <3>1. p \in model /\ Objective[p] \in Int /\ relaxation.bound \in Int
      BY <1>1, ModelPoints DEF Reach, TypeOK
    <3>2. CASE p \in Promising
      <4>1. relaxation.bound <= Objective[p]
        BY <1>13, <3>2 DEF TakeIntegral, Reach, DriverInv, BoxHolds, RelaxationHolds
      <4>2. PICK v \in Int : relaxation.bound = v
        BY <3>1
      <4>3. CutOff(v)' /\ TypeOK'
        BY <1>1, <1>13, <2>1, <4>2, IntegralCutOff, KnownStep, TypeStep DEF DriverInv
      <4>4. incumbent' # NoPoint /\ Objective[incumbent'] \in Int
        BY <4>3, PointFacts DEF CutOff, TypeOK
      <4> QED
        BY <3>1, <4>1, <4>2, <4>3, <4>4, GapAssumption DEF CutOff
    <3>3. CASE p \notin Promising
      BY <1>1, <3>1, <3>3, UnpromisingCutOff, CutOffKept
    <3> QED
      BY <3>2, <3>3
  <2> QED
    BY <1>5, <1>6, <1>13, <2>1 DEF TakeIntegral
<1> QED
  BY <1>7, <1>8, <1>9, <1>10, <1>11, <1>12, <1>13 DEF Next, Step

\* Only the root relaxation leads out of the root with the search still on.
LEMMA PcOutOfRoot ==
    ASSUME [Next]_vars, pc \in {"root", "solve_root"}
    PROVE  \/ SolveRoot
           \/ pc' = "finish" /\ final' # "NOT_RUN" /\ UNCHANGED <<heap, incumbent>>
           \/ /\ pc' \in {"root", "solve_root"}
              /\ UNCHANGED <<heap, incumbent, final, model, result>>
<1>1. CASE PropagateRoot \/ ClockExpires \/ UNCHANGED vars
  BY <1>1 DEF PropagateRoot, ClockExpires, vars, Known
<1>2. CASE RootPropagatedAway \/ RootOutOfTime \/ RootUnsolved
  BY <1>2, OptionAssumption DEF RootPropagatedAway, RootOutOfTime, RootUnsolved, Stop
<1>3. ~(\/ Take \/ Exhausted \/ StopOnTime \/ StopOnNodes \/ StopOnGap
        \/ DropByBound \/ Propagate \/ OutOfTime \/ DropUnsolved \/ Solve
        \/ DropByRelaxation \/ TakeIntegral \/ Branch \/ Report \/ Done)
  BY DEF Take, Exhausted, StopOnTime, StopOnNodes, StopOnGap, DropByBound,
     Propagate, OutOfTime, DropUnsolved, Solve, DropByRelaxation, TakeIntegral,
     Branch, Report, Done
<1> QED
  BY <1>1, <1>2, <1>3 DEF Next, Step

-----------------------------------------------------------------------------
(* The steps keep the invariant *)

\* The node planted on the root relaxation holds every point of the model under
\* a valid bound, and is the only one.
LEMMA RootPlanted ==
    ASSUME DriverInv, SolveRoot
    PROVE  /\ Held' = {current'}
           /\ \A p \in model : p \in Points(current') /\ current'.bound <= Objective[p]
<1>1. heap' = {} /\ model \subseteq Points(box)
  BY DEF SolveRoot, DriverInv, TreeShape, BoxHolds
<1>2. PICK v \in BoundValues :
         /\ \A p \in Reach(box) : v <= Objective[p]
         /\ current' = [lower |-> RootLower, upper |-> RootUpper, bound |-> v]
  BY DEF SolveRoot
<1>3. current' # NoNode
  <2>1. current' \in Node
    BY <1>2, BoxAssumption, GapAssumption DEF Node
  <2> QED
    BY <2>1, NodeAssumption
<1>4. \A p \in model : p \in Reach(box) /\ p \in Points(current')
  BY <1>1, <1>2, ModelPoints, BoxAssumption DEF Reach, Points, DriverInv
<1> QED
  BY <1>1, <1>2, <1>3, <1>4 DEF Held

\* The two children of a node share out its points, and inherit the value of
\* the relaxation they were branched on.
LEMMA BranchShares ==
    ASSUME DriverInv, Branch
    PROVE  /\ heap \subseteq Held'
           /\ \A n \in Held' \ heap :
                 n.bound = relaxation.bound /\ Points(n) \subseteq Points(current)
           /\ \A p \in Points(current) : \E n \in Held' : p \in Points(n)
           /\ \E a, b \in Node :
                 /\ current' = a /\ heap' = heap \cup {b}
                 /\ Points(a) \subseteq Points(current) /\ Points(b) \subseteq Points(current)
                 /\ Points(a) \cap Points(b) = {}
<1>1. current \in Node /\ box \in Box /\ relaxation.bound \in Int
  BY DEF Branch, DriverInv, TypeOK
<1>2. PICK j \in Columns, v \in Int :
         /\ box.lower[j] <= v /\ v + 1 <= box.upper[j]
         /\ LET down == Child(current.lower, WithUpper(current, j, v))
                up == Child(WithLower(current, j, v + 1), current.upper)
            IN  Plunge(down, up) \/ Plunge(up, down)
  BY BranchSplits DEF DriverInv
<1> DEFINE down == Child(current.lower, WithUpper(current, j, v))
           up == Child(WithLower(current, j, v + 1), current.upper)
<1>3. /\ current.lower \in [Columns -> Int] /\ current.upper \in [Columns -> Int]
      /\ box.lower[j] \in Int /\ box.upper[j] \in Int
  BY <1>1 DEF Node, Box
<1>4. /\ down.lower = current.lower
      /\ \A i \in Columns : down.upper[i] = IF i = j THEN v ELSE current.upper[i]
      /\ up.upper = current.upper
      /\ \A i \in Columns : up.lower[i] = IF i = j THEN v + 1 ELSE current.lower[i]
      /\ down.bound = relaxation.bound /\ up.bound = relaxation.bound
  BY <1>3 DEF Child, WithUpper, WithLower
<1>5. down # NoNode /\ up # NoNode
  <2>1. v + 1 \in Int
    OBVIOUS
  <2> QED
    BY <1>1, <2>1, ChildIsNode, NodeAssumption DEF DriverInv
<1>6. Held' = heap \cup {down, up}
  BY <1>2, <1>5 DEF Plunge, Held
<1>7. \A p \in Points(current) : p \in Points(down) \/ p \in Points(up)
  <2> SUFFICES ASSUME NEW p \in Points(current)
               PROVE  p \in Points(down) \/ p \in Points(up)
    OBVIOUS
  <2>1. /\ p \in Feasible
        /\ \A i \in Columns : /\ current.lower[i] <= p[i] /\ p[i] <= current.upper[i]
                              /\ p[i] \in Int
    BY BoxAssumption DEF Points
  <2>2. p[j] <= v \/ v + 1 <= p[j]
    BY <1>2, <2>1
  <2> QED
    BY <1>4, <2>1, <2>2 DEF Points
<1>8. Points(down) \subseteq Points(current) /\ Points(up) \subseteq Points(current)
  <2>1. v <= current.upper[j] /\ current.lower[j] <= v + 1
    BY <1>1, <1>2, <1>3 DEF Branch, DriverInv, BoxHolds, Node
  <2> QED
    BY <1>2, <1>3, <1>4, <2>1, BoxAssumption DEF Points
<1>9. Points(down) \cap Points(up) = {}
  <2> SUFFICES ASSUME NEW p \in Points(down), p \in Points(up) PROVE FALSE
    OBVIOUS
  <2>1. p[j] <= v /\ v + 1 <= p[j] /\ p[j] \in Int
    BY <1>4, BoxAssumption DEF Points
  <2> QED
    BY <2>1
<1>10. \E a, b \in Node :
          /\ current' = a /\ heap' = heap \cup {b}
          /\ Points(a) \subseteq Points(current) /\ Points(b) \subseteq Points(current)
          /\ Points(a) \cap Points(b) = {}
  <2>1. v + 1 \in Int
    OBVIOUS
  <2>2. down \in Node /\ up \in Node
    BY <1>1, <2>1, ChildIsNode DEF DriverInv
  <2> QED
    BY <1>2, <1>8, <1>9, <2>2 DEF Plunge
<1> QED
  BY <1>4, <1>6, <1>7, <1>8, <1>10

\* The relaxation that is branched on is a bound on all of its node's points.
LEMMA BranchBoundValid ==
    ASSUME DriverInv, Branch, NEW p \in Reach(current)
    PROVE  relaxation.bound <= Objective[p]
<1>1. p \in model /\ Objective[p] \in Int /\ relaxation.bound \in Int
  BY ModelPoints DEF Reach, DriverInv, TypeOK
<1>2. CASE p \in Promising
  BY <1>2 DEF Branch, Reach, DriverInv, BoxHolds, RelaxationHolds
<1>3. CASE p \notin Promising
  BY <1>1, <1>3, UnpromisingCutOff, CutOffAbove DEF Branch, DriverInv
<1> QED
  BY <1>2, <1>3

\* Nodes are queued under valid bounds only.
LEMMA BoundsStep ==
    ASSUME DriverInv, [Next]_vars
    PROVE  BoundsHold'
<1>1. model' = model
  BY KnownStep
<1>2. CASE Held' = Held \/ Held' = heap
  BY <1>1, <1>2 DEF DriverInv, BoundsHold, Reach, Held
<1>3. CASE SolveRoot
  BY <1>1, <1>3, RootPlanted DEF BoundsHold, Reach
<1>4. CASE Branch
  <2>1. heap \subseteq Held
    BY DEF Held
  <2> QED
    BY <1>1, <1>4, <2>1, BranchShares, BranchBoundValid
    DEF DriverInv, BoundsHold, Reach
<1> QED
  BY <1>2, <1>3, <1>4, HeldStep

\* A branch is the only step that makes nodes out of one, and its two children
\* have no point in common.
LEMMA DisjointStep ==
    ASSUME DriverInv, [Next]_vars
    PROVE  NodesDisjoint'
<1>1. CASE UNCHANGED <<heap, current>> \/ (heap' = heap /\ current' = NoNode)
  BY <1>1 DEF NodesDisjoint, DriverInv, Points
<1>2. CASE Take
  BY <1>2 DEF Take, NodesDisjoint, DriverInv, Points
<1>3. CASE SolveRoot
  BY <1>3 DEF SolveRoot, NodesDisjoint, DriverInv, TreeShape
<1>4. CASE Branch
  <2>1. current # NoNode
    BY <1>4, NodeAssumption DEF Branch, DriverInv, TypeOK
  <2>2. \A n \in heap : Points(current) \cap Points(n) = {}
    BY <2>1 DEF NodesDisjoint, DriverInv
  <2>3. PICK a, b \in Node :
           /\ current' = a /\ heap' = heap \cup {b}
           /\ Points(a) \subseteq Points(current) /\ Points(b) \subseteq Points(current)
           /\ Points(a) \cap Points(b) = {}
    BY <1>4, BranchShares
  <2>4. \A n \in heap : Points(a) \cap Points(n) = {} /\ Points(b) \cap Points(n) = {}
    BY <2>2, <2>3
  <2>5. \A m, n \in heap \cup {b} : m # n => Points(m) \cap Points(n) = {}
    BY <2>4 DEF NodesDisjoint, DriverInv
  <2>6. \A n \in heap \cup {b} : Points(a) \cap Points(n) = {}
    BY <2>3, <2>4
  <2> QED
    BY <2>3, <2>5, <2>6 DEF NodesDisjoint, Points
<1>5. CASE \/ RootPropagatedAway \/ RootOutOfTime \/ RootUnsolved \/ Exhausted
           \/ StopOnTime \/ StopOnNodes \/ StopOnGap \/ OutOfTime
           \/ DropByBound \/ DropUnsolved \/ DropByRelaxation \/ TakeIntegral
  BY <1>1, <1>5
  DEF RootPropagatedAway, RootOutOfTime, RootUnsolved, Exhausted, StopOnTime,
      StopOnNodes, StopOnGap, OutOfTime, DropByBound, DropUnsolved,
      DropByRelaxation, TakeIntegral, Stop, Drop
<1>6. CASE \/ PropagateRoot \/ Propagate \/ Solve \/ Report
           \/ ClockExpires \/ Done \/ UNCHANGED vars
  BY <1>1, <1>6 DEF PropagateRoot, Propagate, Solve, Report, ClockExpires, Done, vars
<1> QED
  BY <1>2, <1>3, <1>4, <1>5, <1>6 DEF Next, Step

\* A node leaves the tree only when none of its points matters any more.
LEMMA NothingLostStep ==
    ASSUME DriverInv, [Next]_vars
    PROVE  NothingLost'
<1> SUFFICES ASSUME pc' \notin {"root", "solve_root"}, final' = "NOT_RUN", ~failed',
                    NEW p \in model, ~CutOff(Objective[p])'
             PROVE  \E n \in Held' : p \in Points(n)
  BY KnownStep DEF NothingLost, CutOff
<1>1. p \in Feasible /\ ~CutOff(Objective[p])
  BY CutOffKept, ModelPoints DEF DriverInv
<1>2. CASE SolveRoot
  BY <1>2, RootPlanted
<1>3. CASE pc \in {"root", "solve_root"} /\ ~SolveRoot
  BY <1>3, PcOutOfRoot
<1>4. CASE pc \notin {"root", "solve_root"} /\ final = "NOT_RUN"
  <2>1. PICK n \in Held : p \in Points(n)
    BY <1>1, <1>4, KnownStep DEF DriverInv, NothingLost, CutOff
  <2>2. CASE Held' = Held
    BY <2>1, <2>2
  <2>3. CASE Held' = heap /\ \A q \in Reach(current) : CutOff(Objective[q])'
    BY <2>1, <2>3 DEF Held, Reach
  <2>4. CASE Branch
    BY <2>1, <2>4, BranchShares DEF Held
  <2> QED
    BY <1>2, <2>2, <2>3, <2>4, HeldStep
<1> QED
  BY <1>2, <1>3, <1>4, HeldStep DEF Branch, DriverInv, FinalHolds

\* There is no tree before the root's relaxation, and every incumbent is a point
\* of the model.
LEMMA TreeShapeStep ==
    ASSUME DriverInv, [Next]_vars
    PROVE  TreeShape'
<1>1. incumbent' # NoPoint => incumbent' \in model'
  BY IncumbentStep, KnownStep DEF DriverInv, TreeShape
<1>2. pc' \in {"root", "solve_root"} => pc \in {"root", "solve_root"}
  <2>1. CASE \/ RootPropagatedAway \/ PropagateRoot \/ RootOutOfTime \/ RootUnsolved
             \/ SolveRoot \/ Exhausted \/ StopOnTime \/ StopOnNodes \/ StopOnGap
             \/ OutOfTime
    BY <2>1 DEF RootPropagatedAway, PropagateRoot, RootOutOfTime, RootUnsolved,
       SolveRoot, Exhausted, StopOnTime, StopOnNodes, StopOnGap, OutOfTime, Stop
  <2>2. CASE \/ Take \/ DropByBound \/ Propagate \/ DropUnsolved \/ Solve
             \/ DropByRelaxation \/ TakeIntegral \/ Branch
             \/ Report \/ ClockExpires \/ Done \/ UNCHANGED vars
    BY <2>2 DEF Take, DropByBound, Propagate, DropUnsolved, Solve,
       DropByRelaxation, TakeIntegral, Branch, Report, ClockExpires, Done, vars, Drop
  <2> QED
    BY <2>1, <2>2 DEF Next, Step
<1>3. ASSUME pc' \in {"root", "solve_root"}
      PROVE  heap' = {} /\ incumbent' = NoPoint
  BY <1>2, <1>3, PcOutOfRoot DEF SolveRoot, DriverInv, TreeShape
<1> QED
  BY <1>1, <1>3 DEF TreeShape

\* The stages of a node follow one another: the node in hand and its box stay as
\* they are from Propagate to the decision, its relaxation from Solve.
LEMMA StageStep ==
    ASSUME [Next]_vars, pc' \in {"solve", "decide"}
    PROVE  \/ Propagate
           \/ Solve
           \/ UNCHANGED <<pc, current, box, relaxation, incumbent, model, failed>>
<1>1. CASE ClockExpires \/ Done \/ UNCHANGED vars
  BY <1>1 DEF ClockExpires, Done, vars, Known
<1>2. ~(\/ RootPropagatedAway \/ PropagateRoot \/ RootOutOfTime \/ RootUnsolved
        \/ SolveRoot \/ Exhausted \/ StopOnTime \/ StopOnNodes \/ StopOnGap
        \/ OutOfTime)
  BY DEF RootPropagatedAway, PropagateRoot, RootOutOfTime, RootUnsolved,
     SolveRoot, Exhausted, StopOnTime, StopOnNodes, StopOnGap, OutOfTime, Stop
<1>3. ~(\/ Take \/ DropByBound \/ DropUnsolved \/ DropByRelaxation
        \/ TakeIntegral \/ Branch \/ Report)
  BY DEF Take, DropByBound, DropUnsolved, DropByRelaxation, TakeIntegral,
     Branch, Report, Drop
<1> QED
  BY <1>1, <1>2, <1>3 DEF Next, Step

\* The box of a node is made by Propagate and kept until the node is decided.
LEMMA BoxHoldsStep ==
    ASSUME DriverInv, [Next]_vars
    PROVE  BoxHolds'
<1>1. ASSUME pc' = "solve_root" PROVE model' \subseteq Points(box')
  <2>1. CASE PropagateRoot
    <3>1. Points(RootBox) \cap model \subseteq Points(box')
      BY <2>1, TightenedKeeps DEF PropagateRoot
    <3> QED
      BY <2>1, <3>1, RootBoxHolds, ModelPoints DEF PropagateRoot, Known, DriverInv
  <2>2. CASE UNCHANGED <<pc, box, model>>
    BY <1>1, <2>2 DEF DriverInv, BoxHolds
  <2>3. PropagateRoot \/ UNCHANGED <<pc, box, model>>
    <3>1. CASE ClockExpires \/ Done \/ UNCHANGED vars
      BY <3>1 DEF ClockExpires, Done, vars, Known
    <3>2. ~(\/ RootPropagatedAway \/ RootOutOfTime \/ RootUnsolved
            \/ SolveRoot \/ Exhausted \/ StopOnTime \/ StopOnNodes \/ StopOnGap
            \/ OutOfTime)
      BY <1>1 DEF RootPropagatedAway, RootOutOfTime, RootUnsolved,
         SolveRoot, Exhausted, StopOnTime, StopOnNodes, StopOnGap, OutOfTime, Stop
    <3>3. ~(\/ Take \/ DropByBound \/ Propagate \/ DropUnsolved \/ Solve
            \/ DropByRelaxation \/ TakeIntegral \/ Branch \/ Report)
      BY <1>1 DEF Take, DropByBound, Propagate, DropUnsolved, Solve,
         DropByRelaxation, TakeIntegral, Branch, Report, Drop
    <3> QED
      BY <3>1, <3>2, <3>3 DEF Next, Step
  <2> QED
    BY <2>1, <2>2, <2>3
<1>2. ASSUME pc' \in {"solve", "decide"}
      PROVE  /\ (Reach(current) \cap Promising \subseteq Points(box))'
             /\ \A j \in Columns : /\ current'.lower[j] <= box'.lower[j]
                                   /\ box'.upper[j] <= current'.upper[j]
  <2>1. CASE Propagate
    <3>1. /\ UNCHANGED <<model, current, incumbent>>
          /\ Points(current) \cap Promising \subseteq Points(box')
          /\ \A j \in Columns : /\ current.lower[j] <= box'.lower[j]
                                /\ box'.upper[j] <= current.upper[j]
      BY <2>1, TightenedKeeps DEF Propagate, Known
    <3> QED
      BY <3>1 DEF Reach, Promising
  <2>2. CASE UNCHANGED <<current, box, incumbent, model>> /\ pc \in {"solve", "decide"}
    BY <2>2 DEF DriverInv, BoxHolds, Reach, Promising, Points
  <2> QED
    BY <1>2, <2>1, <2>2, StageStep DEF Solve
<1> QED
  BY <1>1, <1>2 DEF BoxHolds

\* The relaxation is made by Solve and kept until the node is decided.
LEMMA RelaxationHoldsStep ==
    ASSUME DriverInv, [Next]_vars
    PROVE  RelaxationHolds'
<1> SUFFICES ASSUME pc' = "decide" PROVE RelaxationHolds'
  BY DEF RelaxationHolds
<1>1. CASE Solve
  <2>1. PICK v \in BoundValues :
          /\ \A p \in Reach(box) : v <= Objective[p]
          /\ \/ relaxation' = [bound |-> v, integral |-> FALSE, point |-> NoPoint]
             \/ \E p \in Reach(box) :
                   /\ Objective[p] = v
                   /\ relaxation' = [bound |-> v, integral |-> TRUE, point |-> p]
             \/ /\ relaxation' = [bound |-> v, integral |-> TRUE, point |-> NoPoint]
                /\ failed' = TRUE
    BY <1>1 DEF Solve
  <2>2. UNCHANGED <<model, current, box>>
    BY <1>1 DEF Solve
  <2>3. /\ relaxation'.bound = v
        /\ relaxation'.integral /\ relaxation'.point # NoPoint =>
              relaxation'.point \in model /\ Objective[relaxation'.point] = v
        /\ relaxation'.integral /\ relaxation'.point = NoPoint => failed'
    <3>1. NoPoint \notin Reach(box)
      BY OptionAssumption DEF Reach, Points
    <3> QED
      BY <2>1, <3>1 DEF Reach
  <2> QED
    BY <2>1, <2>2, <2>3 DEF RelaxationHolds, Reach
<1>2. CASE UNCHANGED <<pc, current, box, relaxation, model, failed>>
  BY <1>2 DEF DriverInv, RelaxationHolds, Reach
<1> QED
  BY <1>1, <1>2, StageStep DEF Propagate

\* While the search is on, a step stays in it with nothing reported, or ends it
\* with a result that the invariant proves.
LEMMA SearchEnds ==
    ASSUME DriverInv, [Next]_vars, pc \notin {"finish", "done"}
    PROVE  \/ pc' \notin {"finish", "done"} /\ UNCHANGED <<final, result>>
           \/ /\ pc' = "finish" /\ final' # "NOT_RUN" /\ UNCHANGED <<result, incumbent>>
              /\ ~failed' =>
                    /\ final' \in {"OPTIMAL", "INFEASIBLE", "TIME_LIMIT", "ITERATION_LIMIT"}
                    /\ final' = "OPTIMAL" => GapProven
                    /\ final' = "INFEASIBLE" => model = {}
<1>1. CASE \/ PropagateRoot \/ SolveRoot \/ Take \/ Propagate \/ Solve \/ Branch
           \/ ClockExpires \/ UNCHANGED vars
  BY <1>1 DEF PropagateRoot, SolveRoot, Take, Propagate, Solve, Branch, ClockExpires, vars
<1>2. CASE DropByBound \/ DropUnsolved \/ DropByRelaxation \/ TakeIntegral
  BY <1>2 DEF DropByBound, DropUnsolved, DropByRelaxation, TakeIntegral, Drop
<1>3. CASE RootPropagatedAway
  BY <1>3 DEF RootPropagatedAway, Stop
<1>4. CASE RootOutOfTime \/ OutOfTime \/ StopOnTime \/ StopOnNodes
  BY <1>4 DEF RootOutOfTime, OutOfTime, StopOnTime, StopOnNodes, Stop
<1>5. CASE RootUnsolved
  <2>1. Reach(box) = {} => model = {}
    BY <1>5 DEF RootUnsolved, Reach, DriverInv, BoxHolds
  <2> QED
    BY <1>5, <2>1, OptionAssumption DEF RootUnsolved, Stop
<1>6. CASE Exhausted
  <2>1. /\ Held = {} /\ pc \notin {"root", "solve_root"} /\ final = "NOT_RUN"
        /\ UNCHANGED <<result, incumbent, failed>>
        /\ pc' = "finish"
        /\ final' = IF incumbent # NoPoint THEN "OPTIMAL" ELSE "INFEASIBLE"
    BY <1>6 DEF Exhausted, Stop, Held, Known, DriverInv, FinalHolds
  <2>2. ASSUME ~failed, NEW p \in model PROVE CutOff(Objective[p])
    BY <2>1, <2>2 DEF DriverInv, NothingLost, CutOff
  <2>3. ~failed /\ incumbent # NoPoint => GapProven
    BY <2>2, CutOffClosed, ModelPoints DEF GapProven, DriverInv
  <2>4. ~failed /\ incumbent = NoPoint => model = {}
    BY <2>2 DEF CutOff
  <2> QED
    BY <2>1, <2>3, <2>4
<1>7. CASE StopOnGap
  <2>1. /\ pc = "limits" /\ final = "NOT_RUN" /\ UNCHANGED <<result, incumbent, failed>>
        /\ pc' = "finish" /\ final' = "OPTIMAL"
    BY <1>7 DEF StopOnGap, Stop, Known, DriverInv, FinalHolds
  <2>2. PICK n \in Held : IsWeakest(n.bound) /\ Closed(n.bound)
    BY <1>7 DEF StopOnGap, GapClosed
  <2>3. incumbent # NoPoint
    BY <2>2 DEF Closed
  <2>4. ASSUME ~failed, NEW p \in model, Objective[p] < Objective[incumbent]
        PROVE  Closed(Objective[p])
    <3>1. Objective[p] \in Int /\ TypeOK
      BY ModelPoints DEF DriverInv
    <3>2. CASE CutOff(Objective[p])
      BY <2>4, <3>1, <3>2, CutOffClosed
    <3>3. CASE \E m \in Held : p \in Points(m)
      <4>1. PICK m \in Held : p \in Points(m)
        BY <3>3
      <4>2. m.bound <= Objective[p] /\ n.bound <= m.bound
        BY <2>2, <4>1 DEF DriverInv, BoundsHold, Reach, IsWeakest
      <4>3. n.bound \in Int /\ m.bound \in Int
        BY <3>1, <4>1 DEF Held, TypeOK, Node
      <4>4. n.bound <= Objective[p]
        BY <3>1, <4>2, <4>3
      <4> QED
        BY <2>2, <2>4, <3>1, <4>3, <4>4, ClosedBetween
    <3> QED
      BY <2>1, <2>4, <3>2, <3>3 DEF DriverInv, NothingLost, CutOff
  <2> QED
    BY <2>1, <2>3, <2>4 DEF GapProven
<1>8. ~(Report \/ Done)
  BY DEF Report, Done
<1> QED
  BY <1>1, <1>2, <1>3, <1>4, <1>5, <1>6, <1>7, <1>8 DEF Next, Step

\* After the search only the report and the clock are left.
LEMMA AfterTheSearch ==
    ASSUME [Next]_vars, pc \in {"finish", "done"}
    PROVE  /\ UNCHANGED <<model, failed, incumbent, final, heap, current>>
           /\ (pc = "finish" /\ Report) \/ UNCHANGED <<pc, result>>
<1>1. CASE Report \/ ClockExpires \/ Done \/ UNCHANGED vars
  BY <1>1 DEF Report, ClockExpires, Done, vars, Known
<1>2. ~(\/ RootPropagatedAway \/ PropagateRoot \/ RootOutOfTime \/ RootUnsolved
        \/ SolveRoot \/ Exhausted \/ StopOnTime \/ StopOnNodes \/ StopOnGap
        \/ OutOfTime)
  BY DEF RootPropagatedAway, PropagateRoot, RootOutOfTime, RootUnsolved,
     SolveRoot, Exhausted, StopOnTime, StopOnNodes, StopOnGap, OutOfTime
<1>3. ~(\/ Take \/ DropByBound \/ Propagate \/ DropUnsolved \/ Solve
        \/ DropByRelaxation \/ TakeIntegral \/ Branch)
  BY DEF Take, DropByBound, Propagate, DropUnsolved, Solve, DropByRelaxation,
     TakeIntegral, Branch
<1> QED
  BY <1>1, <1>2, <1>3 DEF Next, Step

\* The result is made up, and reported, as the invariant says.
LEMMA FinalStep ==
    ASSUME DriverInv, [Next]_vars
    PROVE  FinalHolds'
<1>1. GapProven /\ UNCHANGED incumbent => GapProven'
  BY KnownStep DEF GapProven, Closed
<1>2. CASE pc \notin {"finish", "done"}
  <2>1. final = "NOT_RUN" /\ result.status = "NONE"
    BY <1>2 DEF DriverInv, FinalHolds
  <2>2. model' = model
    BY KnownStep
  <2>3. CASE pc' \notin {"finish", "done"} /\ UNCHANGED <<final, result>>
    BY <2>1, <2>3 DEF FinalHolds
  <2>4. CASE pc' = "finish"
    BY <1>1, <1>2, <2>1, <2>2, <2>4, SearchEnds DEF FinalHolds
  <2> QED
    BY <1>2, <2>3, <2>4, SearchEnds
<1>3. CASE pc \in {"finish", "done"}
  <2>1. UNCHANGED <<model, failed, incumbent, final>>
    BY <1>3, AfterTheSearch
  <2>2. CASE pc = "finish" /\ Report
    <3>1. /\ pc' = "done"
          /\ result'.status = IF incumbent # NoPoint /\ final \notin
                                 {"OPTIMAL", "TIME_LIMIT", "ITERATION_LIMIT"}
                              THEN "GAP_LIMIT" ELSE final
      BY <2>2 DEF Report
    <3> QED
      BY <1>1, <1>3, <2>1, <3>1 DEF DriverInv, FinalHolds
  <2>3. CASE UNCHANGED <<pc, result>>
    BY <1>1, <1>3, <2>1, <2>3 DEF DriverInv, FinalHolds
  <2> QED
    BY <1>3, <2>2, <2>3, AfterTheSearch
<1> QED
  BY <1>2, <1>3

\* The invariant holds when the driver starts.
LEMMA InvariantInit == Init => DriverInv
<1> SUFFICES ASSUME Init PROVE DriverInv
  OBVIOUS
<1>1. TypeOK
  BY TypeInit
<1>2. Held = {}
  BY DEF Init, Held
<1>3. NothingLost /\ NodesDisjoint /\ BoundsHold
  BY <1>2 DEF Init, Held, NothingLost, NodesDisjoint, BoundsHold
<1>4. BoxHolds /\ RelaxationHolds /\ TreeShape /\ FinalHolds
  BY DEF Init, BoxHolds, RelaxationHolds, TreeShape, FinalHolds
<1> QED
  BY <1>1, <1>3, <1>4 DEF DriverInv

\* Every step keeps the whole invariant.
LEMMA InvariantStep == DriverInv /\ [Next]_vars => DriverInv'
<1> SUFFICES ASSUME DriverInv, [Next]_vars PROVE DriverInv'
  OBVIOUS
<1>1. TypeOK'
  BY TypeStep DEF DriverInv
<1> QED
  BY <1>1, NothingLostStep, DisjointStep, BoundsStep, BoxHoldsStep, RelaxationHoldsStep,
     TreeShapeStep, FinalStep
  DEF DriverInv

-----------------------------------------------------------------------------
(* The theorems *)

\* The driver keeps its invariant, whatever its relaxations, its propagation and
\* its rounding answer and however a limit cuts it off.
THEOREM DriverInvariant == Spec => []DriverInv
  BY InvariantInit, InvariantStep, PTL DEF Spec

\* While the search runs and no relaxation failed, plunging, backtracking,
\* cutoffs and objective propagation lose no feasible point that matters, and
\* no two nodes ever hold the same one.
THEOREM DriverLosesNothing == Spec => []SearchInvariant
<1>1. DriverInv => SearchInvariant
  BY DEF DriverInv, SearchInvariant
<1> QED
  BY <1>1, DriverInvariant, PTL

\* Every node waits, or is worked on, under a bound below all its points, those
\* that objective propagation has given up among them, although the bound may be
\* lower than its parent's.
THEOREM NodeBoundsHold == Spec => []BoundsHold
<1>1. DriverInv => BoundsHold
  BY DEF DriverInv
<1> QED
  BY <1>1, DriverInvariant, PTL

\* sk_milp_solve answers OPTIMAL only when no feasible point is below the
\* incumbent by more than the gap asked for, and INFEASIBLE only of a model
\* without feasible points, unless a relaxation failed on the way.
THEOREM DriverVerdicts == Spec => []VerdictIsProven
<1>1. DriverInv => VerdictIsProven
  <2> SUFFICES ASSUME DriverInv, ~failed PROVE OptimalOnlyWhenGapClosed /\
                                         (result.status = "INFEASIBLE" => model = {})
    BY DEF VerdictIsProven, OptimalIsProven, InfeasibleIsProven
  <2>1. ASSUME result.status \in {"OPTIMAL", "INFEASIBLE"} PROVE final = result.status
    BY <2>1 DEF DriverInv, FinalHolds
  <2> QED
    BY <2>1 DEF DriverInv, FinalHolds, GapProven, OptimalOnlyWhenGapClosed
<1> QED
  BY <1>1, DriverInvariant, PTL

\* A search that no limit stopped and no failure marred gives the verdict its
\* model deserves: the safety half of what the run checks as Decides.
THEOREM DriverDecides == Spec => []DecidesUnlessStopped
<1>1. DriverInv => DecidesUnlessStopped
  <2> SUFFICES ASSUME DriverInv, pc = "done", ~failed,
                      final \notin {"TIME_LIMIT", "ITERATION_LIMIT"}
               PROVE  result.status = IF model = {} THEN "INFEASIBLE" ELSE "OPTIMAL"
    BY DEF DecidesUnlessStopped
  <2>1. final \in {"OPTIMAL", "INFEASIBLE"}
    BY DEF DriverInv, FinalHolds
  <2>2. CASE final = "OPTIMAL"
    BY <2>2 DEF DriverInv, FinalHolds, GapProven, TreeShape
  <2>3. CASE final = "INFEASIBLE"
    BY <2>3 DEF DriverInv, FinalHolds, TreeShape
  <2> QED
    BY <2>1, <2>2, <2>3
<1> QED
  BY <1>1, DriverInvariant, PTL

\* What sk_milp.h says of OPTIMAL, which a failing relaxation refutes, is true of
\* every search whose relaxations cannot fail.
THEOREM ReliableOptimal == Faults = {} /\ Spec => []OptimalOnlyWhenGapClosed
<1>1. Init => ~failed
  BY DEF Init
<1>2. Faults = {} /\ ~failed /\ [Next]_vars => ~failed'
  <2> SUFFICES ASSUME Faults = {}, ~failed, [Next]_vars PROVE ~failed'
    OBVIOUS
  <2>1. CASE RootUnsolved \/ DropUnsolved \/ Solve
    BY <2>1 DEF RootUnsolved, DropUnsolved, Solve
  <2>2. CASE \/ RootPropagatedAway \/ PropagateRoot \/ RootOutOfTime \/ SolveRoot
             \/ Take \/ Exhausted \/ StopOnTime \/ StopOnNodes \/ StopOnGap
             \/ DropByBound \/ Propagate \/ OutOfTime
             \/ DropByRelaxation \/ TakeIntegral \/ Branch
             \/ Report \/ ClockExpires \/ Done \/ UNCHANGED vars
    BY <2>2 DEF RootPropagatedAway, PropagateRoot, RootOutOfTime, SolveRoot, Take,
       Exhausted, StopOnTime, StopOnNodes, StopOnGap, DropByBound, Propagate,
       OutOfTime, DropByRelaxation, TakeIntegral, Branch, Report, ClockExpires,
       Done, vars, Known
  <2> QED
    BY <2>1, <2>2 DEF Next, Step
<1>3. ~failed /\ VerdictIsProven => OptimalOnlyWhenGapClosed
  BY DEF VerdictIsProven, OptimalIsProven
<1>4. [](Faults = {}) /\ Spec => []~failed
  BY <1>1, <1>2, PTL DEF Spec
<1>5. Faults = {} => [](Faults = {})
  OBVIOUS
<1> QED
  BY <1>3, <1>4, <1>5, DriverVerdicts, PTL
=============================================================================

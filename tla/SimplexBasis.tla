---------------------------- MODULE SimplexBasis ----------------------------
(***************************************************************************)
(* One Simplex::solve call: the chain warm start -> dual -> primal, and    *)
(* the bookkeeping the three attempts share and hand to one another: the   *)
(* basis, its inverse map, the resting places of the nonbasic columns, the *)
(* artificials' bounds and signs, the matrix the factorization stands for  *)
(* and the copy of costs and bounds a GPU pricer holds.                    *)
(*                                                                         *)
(* The numbers are abstracted: which column enters, which row leaves, what *)
(* a refactorization finds singular and what the residual gate says are    *)
(* choices, restricted by the bounds each column has. A column index is    *)
(* the program's: structurals, then slacks, then artificials, from 0.      *)
(***************************************************************************)
EXTENDS Integers, FiniteSets

CONSTANTS
  NRows, NStruct,      \* n_rows_ and n_struct_
  BoundShapes,         \* the bound shapes of structurals and slacks to solve
  Algorithms,          \* the LpAlgorithm values to solve with
  MaxIterations,       \* max_iterations_
  RefactorizeEvery,    \* refactorize_every_
  TimeCheckStride,     \* kTimeCheckStride
  HasTimeBudget        \* time_budget_seconds_ > 0

Rows == 0 .. NRows - 1
Structs == 0 .. NStruct - 1
Named == 0 .. NStruct + NRows - 1          \* structurals and slacks
Vars == 0 .. NStruct + 2 * NRows - 1       \* the augmented columns
SlackOf(i) == NStruct + i
ArtOf(i) == NStruct + NRows + i
Logicals == NStruct .. NStruct + 2 * NRows - 1

Shape == {"fixed", "boxed", "lower", "upper", "free"}
VarStatus == {"AT_LOWER", "AT_UPPER", "AT_ZERO", "BASIC"}
Sign == {1, -1}
LpStatus == {"OPTIMAL", "INFEASIBLE", "UNBOUNDED", "ITERATION_LIMIT",
             "NUMERICAL_FAILURE"}

ASSUME SizesAssumption == NRows \in Nat /\ NStruct \in Nat
ASSUME ShapesAssumption == BoundShapes \subseteq [Named -> Shape]
ASSUME AlgorithmsAssumption == Algorithms \subseteq {"PRIMAL", "DUAL", "AUTO"}
ASSUME LimitsAssumption == /\ MaxIterations \in Nat
                           /\ RefactorizeEvery \in Nat \ {0}
                           /\ TimeCheckStride \in Nat \ {0}
                           /\ HasTimeBudget \in BOOLEAN

VARIABLES
  pc,          \* where solve() stands
  attempt,     \* the attempt that is running or answered
  shape,       \* lower_/upper_ of structurals and slacks: which are finite
  algorithm,   \* algorithm_
  seat,        \* basis_, basic_row_of_ and status_
  artOpen,     \* the rows whose artificial is [0, inf); the others are [0, 0]
  artSign,     \* art_sign_
  cost,        \* the objective cost_ holds
  device,      \* GpuPricer's copy of costs, artificial bounds and signs
  factored,    \* the basis columns factor_ represents, with its eta file
  etas,        \* factor_.eta_count()
  valuesFresh, \* values_fresh of run_dual_simplex
  derived,     \* value_ was computed from the present basis, not carried
  iterations,  \* the running loop's counter
  expired,     \* the time budget was seen spent
  verdict,     \* the status handed to finalize_result
  repairRefused, \* repair found its artificial marked basic already
  result       \* the LpResult fields that say what happened

vars == <<pc, attempt, shape, algorithm, seat, artOpen, artSign, cost, device,
          factored, etas, valuesFresh, derived, iterations, expired, verdict,
          repairRefused, result>>

problem == <<shape, algorithm>>
bounds == <<artOpen, artSign, cost, device>>

(***************************************************************************)
(* Columns and bounds.                                                     *)
(***************************************************************************)
HasLower(v) == IF v \in Named THEN shape[v] \in {"fixed", "boxed", "lower"} ELSE TRUE

\* An artificial has an upper bound exactly while it is frozen.
HasUpper(v, open) == IF v \in Named THEN shape[v] \in {"fixed", "boxed", "upper"}
                                    ELSE v - ArtOf(0) \notin open

CanMove(v, open) == IF v \in Named THEN shape[v] # "fixed" ELSE v - ArtOf(0) \in open

IsFree(v) == v \in Named /\ shape[v] = "free"

\* Where a column rests when nothing else decides: its lower bound if finite,
\* else its upper bound, else zero.
Rest(v) == IF HasLower(v) THEN "AT_LOWER"
           ELSE IF IsFree(v) THEN "AT_ZERO" ELSE "AT_UPPER"

\* The basis-matrix column of variable v: an artificial's carries its sign.
Column(v, sign) == <<v, IF v \in Named THEN 0 ELSE sign[v - ArtOf(0)]>>

Columns(basis, sign) == [i \in Rows |-> Column(basis[i], sign)]

Unknown == [i \in Rows |-> <<-1, 0>>]      \* no factorization of these columns

Seats == [basis : [Rows -> Vars], rowOf : [Vars -> Rows \cup {-1}],
          status : [Vars -> VarStatus]]

InBasis(v, basis) == \E i \in Rows : basis[i] = v

Injective(f) == \A i, j \in DOMAIN f : f[i] = f[j] => i = j

(***************************************************************************)
(* Refactorization and repair.                                             *)
(***************************************************************************)
NoRepair == [p \in {} |-> 0]

\* What a factorization can report: positions left without a pivot, each with
\* an unmatched row. Columns are taken by their number of entries, so a basic
\* slack or artificial pivots on its row before a dependent column is given the
\* first row left. Only two one-entry columns of one row could compete, and
\* the pivot that would make both basic is exactly zero.
Singularities(basis) ==
  UNION {{rep \in [P -> {r \in Rows : /\ ~ InBasis(SlackOf(r), basis)
                                      /\ ~ InBasis(ArtOf(r), basis)}] :
            Injective(rep)} : P \in SUBSET Rows}

\* Mutant: the displaced column is put at its lower bound without looking.
RepairedAtLower(t, rep) ==
  LET displaced(v) == \E p \in DOMAIN rep : t.basis[p] = v
      seated(v) == \E p \in DOMAIN rep : ArtOf(rep[p]) = v
  IN [basis |-> [i \in Rows |-> IF i \in DOMAIN rep THEN ArtOf(rep[i]) ELSE t.basis[i]],
      rowOf |-> [v \in Vars |-> IF seated(v) THEN CHOOSE p \in DOMAIN rep : ArtOf(rep[p]) = v
                                ELSE IF displaced(v) THEN -1 ELSE t.rowOf[v]],
      status |-> [v \in Vars |-> IF seated(v) THEN "BASIC"
                                 ELSE IF displaced(v) THEN "AT_LOWER" ELSE t.status[v]]]

\* repair_basis_position for every reported pair: the position gets the
\* row's artificial, the column it displaces goes to a bound.
Repaired(t, rep) ==
  LET displaced(v) == \E p \in DOMAIN rep : t.basis[p] = v
      seated(v) == \E p \in DOMAIN rep : ArtOf(rep[p]) = v
  IN [basis |-> [i \in Rows |-> IF i \in DOMAIN rep THEN ArtOf(rep[i]) ELSE t.basis[i]],
      rowOf |-> [v \in Vars |-> IF seated(v) THEN CHOOSE p \in DOMAIN rep : ArtOf(rep[p]) = v
                                ELSE IF displaced(v) THEN -1 ELSE t.rowOf[v]],
      status |-> [v \in Vars |-> IF seated(v) THEN "BASIC"
                                 ELSE IF displaced(v) THEN Rest(v) ELSE t.status[v]]]

Refuses(t, rep) == \E p \in DOMAIN rep : t.rowOf[ArtOf(rep[p])] # -1

\* Mutant: the repaired basis is not factorized again.
RefactorizeOnce(t, sign) ==
  {[seat |-> Repaired(t, rep), factored |-> Columns(t.basis, sign), thrown |-> "no"] :
     rep \in Singularities(t.basis)}

\* refactorize() from bookkeeping t. The columns last factorized with success
\* factorize again; others may need a repair, tried once, and may still be
\* singular after it. A throw leaves factor_ representing columns nobody asked for.
Refactorize(t, sign) ==
  LET known == etas = 0 /\ factored = Columns(t.basis, sign)
      found == IF known THEN {NoRepair} ELSE Singularities(t.basis)
  IN {[seat |-> Repaired(t, rep), factored |-> Columns(Repaired(t, rep).basis, sign),
       thrown |-> "no"] : rep \in {f \in found : ~ Refuses(t, f)}}
     \cup
     {[seat |-> Repaired(t, rep), factored |-> Unknown, thrown |-> "singular"] :
        rep \in {f \in found : ~ Refuses(t, f) /\ DOMAIN f # {}}}
     \cup
     {[seat |-> t, factored |-> Unknown, thrown |-> "refused"] :
        rep \in {f \in found : Refuses(t, f)}}

\* The bookkeeping after refactorize() came out as o and, unless it threw,
\* recompute_basic_values() ran.
Rederived(o) ==
  /\ seat' = o.seat
  /\ factored' = o.factored
  /\ etas' = 0
  /\ derived' = (o.thrown = "no")
  /\ repairRefused' = (repairRefused \/ o.thrown = "refused")

(***************************************************************************)
(* What solve() reports and where it goes next.                            *)
(***************************************************************************)
ColdStart == IF algorithm = "DUAL" THEN "cold" ELSE "primal"

NextAttempt == IF attempt = "warm" THEN ColdStart ELSE "primal"

\* The catch of solve(): whatever attempt was running, it failed numerically.
Caught == /\ pc' = "done"
          /\ result' = [result EXCEPT !.status = "NUMERICAL_FAILURE"]
          /\ UNCHANGED verdict

\* run_dual_simplex or run_primal_two_phase returns a status to verify. Only
\* now do the flags name the dual path.
Conclude(v) ==
  /\ pc' = "finalize"
  /\ verdict' = v
  /\ result' = IF attempt = "primal" THEN result
               ELSE [result EXCEPT !.usedDual = TRUE, !.usedWarm = attempt = "warm"]

\* An attempt that proved nothing: the flags are withdrawn, the next path runs.
FallBack == /\ pc' = NextAttempt
            /\ result' = [result EXCEPT !.usedDual = FALSE, !.usedWarm = FALSE]
            /\ UNCHANGED verdict

(***************************************************************************)
(* Initial state: the constructor.                                         *)
(***************************************************************************)
PlusSigns == [i \in Rows |-> 1]

Init ==
  /\ pc = "start" /\ attempt = "none"
  /\ shape \in BoundShapes
  /\ algorithm \in Algorithms
  /\ seat = [basis |-> [i \in Rows |-> 0], rowOf |-> [v \in Vars |-> -1],
             status |-> [v \in Vars |-> "AT_LOWER"]]
  /\ artOpen = Rows
  /\ artSign = PlusSigns
  /\ cost = "none"
  /\ device = [cost |-> "none", artOpen |-> Rows, artSign |-> PlusSigns]
  /\ factored = Unknown /\ etas = 0
  /\ valuesFresh = FALSE /\ derived = FALSE
  /\ iterations = 0 /\ expired = FALSE
  /\ verdict = "NUMERICAL_FAILURE" /\ repairRefused = FALSE
  /\ result = [status |-> "NUMERICAL_FAILURE", usedDual |-> FALSE, usedWarm |-> FALSE,
               warmAttempted |-> FALSE, x |-> "none"]

(***************************************************************************)
(* The warm start.                                                         *)
(***************************************************************************)
\* An exported basis of the same matrix: export_basis of a solve whose bounds
\* were no tighter. What a slack or artificial could rest on there it can
\* rest on here; a structural may since have been given a finite bound.
ParentRests ==
  {f \in [Vars -> {"AT_LOWER", "AT_UPPER", "AT_ZERO"}] :
     \A v \in Vars : /\ f[v] = "AT_LOWER" => HasLower(v)
                     /\ f[v] = "AT_UPPER" => HasUpper(v, {})
                     /\ f[v] = "AT_ZERO" => v \in Structs \/ IsFree(v)}

ParentBases ==
  {[basis |-> b, artSign |-> sign,
    status |-> [v \in Vars |-> IF InBasis(v, b) THEN "BASIC" ELSE rest[v]]] :
     b \in {f \in [Rows -> Vars] : Injective(f)}, rest \in ParentRests,
     sign \in [Rows -> Sign]}

\* seat_basis refuses a nonbasic column that has no such resting place here.
CannotRest(p, v) ==
  /\ ~ InBasis(v, p.basis)
  /\ \/ p.status[v] = "AT_LOWER" /\ ~ HasLower(v)
     \/ p.status[v] = "AT_UPPER" /\ ~ HasUpper(v, {})
     \/ p.status[v] = "AT_ZERO" /\ ~ IsFree(v)
     \/ p.status[v] = "BASIC"

\* The parent's basis written over this one, up to the first column that
\* cannot rest where the parent left it.
Seated(p) ==
  [basis |-> p.basis,
   rowOf |-> [v \in Vars |-> IF InBasis(v, p.basis)
                             THEN CHOOSE i \in Rows : p.basis[i] = v ELSE -1],
   status |-> [v \in Vars |-> IF InBasis(v, p.basis) THEN "BASIC"
                              ELSE IF \E w \in 0 .. v : CannotRest(p, w)
                                   THEN seat.status[v] ELSE p.status[v]]]

\* solve() with no usable basis: none given, another shape, or PRIMAL pinned.
SkipWarmStart ==
  /\ pc = "start"
  /\ pc' = ColdStart
  /\ UNCHANGED <<attempt, problem, seat, bounds, factored, etas, valuesFresh, derived,
                 iterations, expired, verdict, repairRefused, result>>

\* seat_basis stops at a column it cannot rest; the writes so far stay.
SeatBasisRefused ==
  /\ pc = "start"
  /\ algorithm # "PRIMAL"
  /\ \E p \in ParentBases :
       /\ \E v \in Vars : CannotRest(p, v)
       /\ seat' = Seated(p)
       /\ artSign' = p.artSign
  /\ artOpen' = {}
  /\ pc' = ColdStart
  /\ result' = [result EXCEPT !.warmAttempted = TRUE]
  /\ UNCHANGED <<attempt, problem, cost, device, factored, etas, valuesFresh, derived,
                 iterations, expired, verdict, repairRefused>>

\* seat_basis installs the parent's basis under the child's bounds; a failed
\* refactorization is caught there and sends solve() to the cold paths.
SeatBasis ==
  /\ pc = "start"
  /\ algorithm # "PRIMAL"
  /\ artOpen' = {}
  /\ cost' = "phase2"
  /\ \E p \in ParentBases :
       /\ \A v \in Vars : ~ CannotRest(p, v)
       /\ artSign' = p.artSign
       /\ device' = [cost |-> "phase2", artOpen |-> {}, artSign |-> p.artSign]
       /\ \E o \in Refactorize(Seated(p), p.artSign) :
            /\ Rederived(o)
            /\ IF o.thrown = "no" THEN pc' = "dual" /\ attempt' = "warm"
                                  ELSE pc' = ColdStart /\ UNCHANGED attempt
  /\ result' = [result EXCEPT !.warmAttempted = TRUE]
  /\ UNCHANGED <<problem, valuesFresh, iterations, expired, verdict>>

(***************************************************************************)
(* The dual start from an all-slack basis.                                 *)
(***************************************************************************)
\* A cost's sign asks for a bound on one side.
NoDualRest(c, v) == \/ c[v] = "positive" /\ ~ HasLower(v)
                    \/ c[v] = "negative" /\ ~ HasUpper(v, {})

DualRest(c, v) == CASE c[v] = "positive" -> "AT_LOWER"
                    [] c[v] = "negative" -> "AT_UPPER"
                    [] c[v] = "zero" -> Rest(v)

\* setup_dual_feasible_start up to the first structural with no bound where
\* its cost needs one.
AllSlack(c) ==
  LET stopped(v) == \E w \in 0 .. v : NoDualRest(c, w)
      reached(v) == \A w \in 0 .. v - 1 : ~ NoDualRest(c, w)
  IN [basis |-> [i \in Rows |-> SlackOf(i)],
      rowOf |-> [v \in Vars |-> IF v \in Structs
                                THEN IF reached(v) THEN -1 ELSE seat.rowOf[v]
                                ELSE IF v \in Named THEN v - SlackOf(0) ELSE -1],
      status |-> [v \in Vars |-> IF v \in Structs
                                 THEN IF stopped(v) THEN seat.status[v] ELSE DualRest(c, v)
                                 ELSE IF v \in Named THEN "BASIC" ELSE "AT_LOWER"]]

CostSigns == [Structs -> {"positive", "negative", "zero"}]

\* The phase-2 costs are installed and the device told before the artificials
\* are frozen and their signs reset.
SetupDualFeasibleStart ==
  /\ pc = "cold"
  /\ cost' = "phase2"
  /\ device' = [cost |-> "phase2", artOpen |-> artOpen, artSign |-> artSign]
  /\ artOpen' = {}
  /\ artSign' = PlusSigns
  /\ \E c \in CostSigns :
       IF \E v \in Structs : NoDualRest(c, v)
       THEN /\ seat' = AllSlack(c)
            /\ pc' = "primal"
            /\ UNCHANGED <<attempt, factored, etas, derived, repairRefused, iterations,
                           valuesFresh>>
       ELSE \E o \in Refactorize(AllSlack(c), PlusSigns) :     \* B = I: nothing to repair
              /\ Rederived(o)
              /\ pc' = "dual" /\ attempt' = "dual"
              /\ iterations' = 0 /\ valuesFresh' = FALSE
  /\ UNCHANGED <<problem, expired, verdict, result>>

(***************************************************************************)
(* The primal start: the crash basis of phase 1.                           *)
(***************************************************************************)
\* Rows whose slack takes the residual itself; a free slack always does, a
\* fixed one never.
CrashRows == {C \in SUBSET Rows : \A i \in Rows : /\ shape[SlackOf(i)] = "free" => i \in C
                                                 /\ shape[SlackOf(i)] = "fixed" => i \notin C}

\* Where the slacks of the other rows are parked: the bound nearest the target.
Parkings(C) == {park \in [Rows \ C -> {"AT_LOWER", "AT_UPPER"}] :
                  \A i \in Rows \ C : IF park[i] = "AT_LOWER" THEN HasLower(SlackOf(i))
                                                        ELSE HasUpper(SlackOf(i), {})}

\* Mutant: no map entry is reset, as none is for the structurals.
CrashKeepsMap(C, park) ==
  LET row(v) == IF v \in Named THEN v - SlackOf(0) ELSE v - ArtOf(0)
      basic(v) == IF v \in Named THEN row(v) \in C ELSE row(v) \notin C
  IN [basis |-> [i \in Rows |-> IF i \in C THEN SlackOf(i) ELSE ArtOf(i)],
      rowOf |-> [v \in Vars |-> IF v \notin Structs /\ basic(v) THEN row(v)
                                ELSE seat.rowOf[v]],
      status |-> [v \in Vars |-> IF v \in Structs THEN Rest(v)
                                 ELSE IF basic(v) THEN "BASIC"
                                 ELSE IF v \in Named THEN park[row(v)] ELSE "AT_LOWER"]]

\* The map entries of the structurals are left as the last attempt had them.
Crash(C, park) ==
  LET row(v) == IF v \in Named THEN v - SlackOf(0) ELSE v - ArtOf(0)
      basic(v) == IF v \in Named THEN row(v) \in C ELSE row(v) \notin C
  IN [basis |-> [i \in Rows |-> IF i \in C THEN SlackOf(i) ELSE ArtOf(i)],
      rowOf |-> [v \in Vars |-> IF v \in Structs THEN seat.rowOf[v]
                                ELSE IF basic(v) THEN row(v) ELSE -1],
      status |-> [v \in Vars |-> IF v \in Structs THEN Rest(v)
                                 ELSE IF basic(v) THEN "BASIC"
                                 ELSE IF v \in Named THEN park[row(v)] ELSE "AT_LOWER"]]

\* A target below the slack's lower bound leaves a negative residual.
ResidualSigns(C, park) ==
  [i \in Rows |-> IF i \notin C /\ park[i] = "AT_LOWER" THEN -1 ELSE 1]

\* setup_phase1: crash-slack rows freeze their artificial for the phase, the
\* others take the sign of their residual, and the device is told last.
SetupPhase1 ==
  /\ pc = "primal"
  /\ \E C \in CrashRows : \E park \in Parkings(C) :
       /\ artOpen' = Rows \ C
       /\ artSign' = ResidualSigns(C, park)
       /\ device' = [cost |-> "phase1", artOpen |-> Rows \ C,
                     artSign |-> ResidualSigns(C, park)]
       /\ \E o \in Refactorize(Crash(C, park), ResidualSigns(C, park)) :
            Rederived(o)                                        \* B is diagonal
  /\ cost' = "phase1"
  /\ pc' = "phase1" /\ attempt' = "primal" /\ iterations' = 0
  /\ UNCHANGED <<problem, valuesFresh, expired, verdict, result>>

(***************************************************************************)
(* What the two loops share.                                               *)
(***************************************************************************)
Loops == {"dual", "phase1", "phase2"}

ClockChecked == HasTimeBudget /\ iterations % TimeCheckStride = 0

\* The iteration limit, or a clock check that finds the budget spent.
LoopLimit ==
  /\ pc \in Loops
  /\ iterations >= MaxIterations \/ ClockChecked
  /\ expired' = (expired \/ iterations < MaxIterations)
  /\ IF pc = "dual" THEN FallBack ELSE Conclude("ITERATION_LIMIT")
  /\ UNCHANGED <<attempt, problem, seat, bounds, factored, etas, valuesFresh, derived,
                 iterations, repairRefused>>

\* The pass goes on: time that is up stays up.
InTime == iterations < MaxIterations /\ ~ (expired /\ ClockChecked)

\* The eta file is full: refactorize and re-derive before anything else.
PeriodicRefactorize ==
  /\ pc \in Loops /\ InTime
  /\ etas >= RefactorizeEvery
  /\ \E o \in Refactorize(seat, artSign) :
       /\ Rederived(o)
       /\ IF o.thrown = "no" THEN UNCHANGED <<pc, result, verdict>> ELSE Caught
  /\ valuesFresh' = (valuesFresh \/ pc = "dual")
  /\ UNCHANGED <<attempt, problem, bounds, iterations, expired>>

Pass(loop) == pc = loop /\ InTime /\ etas < RefactorizeEvery

Enterable(v) == seat.status[v] # "BASIC" /\ CanMove(v, artOpen)

\* The column leaving row r lands on a bound it has.
Leaves(r, at) == IF at = "AT_LOWER" THEN HasLower(seat.basis[r])
                                    ELSE HasUpper(seat.basis[r], artOpen)

\* Mutant: the column that leaves keeps its row in the map.
ExchangedKeepsMap(v, r, at) ==
  [basis |-> [seat.basis EXCEPT ![r] = v],
   rowOf |-> [seat.rowOf EXCEPT ![v] = r],
   status |-> [seat.status EXCEPT ![seat.basis[r]] = at, ![v] = "BASIC"]]

\* Column v takes row r; the one it replaces rests at a bound.
Exchanged(v, r, at) ==
  [basis |-> [seat.basis EXCEPT ![r] = v],
   rowOf |-> [seat.rowOf EXCEPT ![seat.basis[r]] = -1, ![v] = r],
   status |-> [seat.status EXCEPT ![seat.basis[r]] = at, ![v] = "BASIC"]]

\* The pivot and apply_pivot_update: one more eta, or a refused update and a
\* refactorization of the new basis.
Pivot ==
  \E v \in Vars, r \in Rows, at \in {"AT_LOWER", "AT_UPPER"} :
    /\ Enterable(v)
    /\ Leaves(r, at)
    /\ \/ /\ seat' = Exchanged(v, r, at)
          /\ factored' = [factored EXCEPT ![r] = Column(v, artSign)]
          /\ etas' = etas + 1
          /\ derived' = FALSE
          /\ iterations' = iterations + 1
          /\ UNCHANGED <<pc, verdict, result, repairRefused>>
       \/ \E o \in Refactorize(Exchanged(v, r, at), artSign) :
            /\ Rederived(o)
            /\ IF o.thrown = "no"
               THEN iterations' = iterations + 1 /\ UNCHANGED <<pc, verdict, result>>
               ELSE Caught /\ UNCHANGED iterations

(***************************************************************************)
(* The dual loop.                                                          *)
(***************************************************************************)
\* Some basic column can be out of a bound it has.
CanBeInfeasible == \E i \in Rows : ~ IsFree(seat.basis[i])

\* No row to leave (primal feasible), or no column to enter (infeasible), on
\* values derived from this basis.
DualConcludes ==
  /\ Pass("dual")
  /\ valuesFresh
  /\ \E v \in {"OPTIMAL", "INFEASIBLE"} :
       /\ v = "INFEASIBLE" => CanBeInfeasible
       /\ Conclude(v)
  /\ UNCHANGED <<attempt, problem, seat, bounds, factored, etas, valuesFresh, derived,
                 iterations, expired, repairRefused>>

\* Mutant: the re-derivation is not remembered.
DualRederivesStale ==
  /\ Pass("dual")
  /\ ~ valuesFresh
  /\ \E o \in Refactorize(seat, artSign) :
       /\ Rederived(o)
       /\ IF o.thrown = "no" THEN UNCHANGED <<pc, result, verdict>> ELSE Caught
  /\ UNCHANGED <<attempt, problem, bounds, iterations, expired, valuesFresh>>

\* Either conclusion on carried values: re-derive them and scan again.
DualRederives ==
  /\ Pass("dual")
  /\ ~ valuesFresh
  /\ \E o \in Refactorize(seat, artSign) :
       /\ Rederived(o)
       /\ IF o.thrown = "no" THEN UNCHANGED <<pc, result, verdict>> ELSE Caught
  /\ valuesFresh' = TRUE
  /\ UNCHANGED <<attempt, problem, bounds, iterations, expired>>

\* Mutant: values stay marked fresh over a pivot.
DualPivotsStayFresh ==
  /\ Pass("dual")
  /\ Pivot
  /\ UNCHANGED <<attempt, problem, bounds, expired, valuesFresh>>

DualPivots ==
  /\ Pass("dual")
  /\ Pivot
  /\ valuesFresh' = FALSE
  /\ UNCHANGED <<attempt, problem, bounds, expired>>

(***************************************************************************)
(* The primal loop, and phase 1 handing over to phase 2.                   *)
(***************************************************************************)
\* The entering column reaches its other bound first: no basis change.
BoundFlips ==
  /\ Pass("phase1") \/ Pass("phase2")
  /\ \E v \in Named :
       /\ Enterable(v)
       /\ shape[v] = "boxed"
       /\ seat' = [seat EXCEPT !.status[v] = IF @ = "AT_LOWER" THEN "AT_UPPER"
                                                             ELSE "AT_LOWER"]
  /\ derived' = FALSE
  /\ iterations' = iterations + 1
  /\ UNCHANGED <<pc, attempt, problem, bounds, factored, etas, valuesFresh, expired,
                 verdict, repairRefused, result>>

PrimalPivots ==
  /\ Pass("phase1") \/ Pass("phase2")
  /\ Pivot
  /\ UNCHANGED <<attempt, problem, bounds, expired, valuesFresh>>

\* Nothing blocks an entering column that has no opposite bound.
PrimalUnbounded ==
  /\ Pass("phase1") \/ Pass("phase2")
  /\ \E v \in Vars : Enterable(v) /\ (v \in Named => shape[v] # "boxed")
  /\ Conclude(IF pc = "phase1" THEN "NUMERICAL_FAILURE" ELSE "UNBOUNDED")
  /\ UNCHANGED <<attempt, problem, seat, bounds, factored, etas, valuesFresh, derived,
                 iterations, expired, repairRefused>>

\* The second ratio pass finds no row the first one promised.
PrimalLosesPivot ==
  /\ Pass("phase1") \/ Pass("phase2")
  /\ \E v \in Vars : Enterable(v)
  /\ Conclude("NUMERICAL_FAILURE")
  /\ UNCHANGED <<attempt, problem, seat, bounds, factored, etas, valuesFresh, derived,
                 iterations, expired, repairRefused>>

\* Phase 1 ends with artificials still carrying infeasibility.
Phase1Infeasible ==
  /\ Pass("phase1")
  /\ \E i \in Rows : seat.basis[i] \notin Named
  /\ Conclude("INFEASIBLE")
  /\ UNCHANGED <<attempt, problem, seat, bounds, factored, etas, valuesFresh, derived,
                 iterations, expired, repairRefused>>

\* Mutant: the device is not told of phase 2.
EnterPhase2Unsynced ==
  /\ Pass("phase1")
  /\ pc' = "phase2" /\ iterations' = 0
  /\ artOpen' = {}
  /\ cost' = "phase2"
  /\ derived' = (derived /\ \A i \in Rows : seat.basis[i] \in Named)
  /\ UNCHANGED <<attempt, problem, seat, artSign, device, factored, etas, valuesFresh,
                 expired, verdict, repairRefused, result>>

\* Phase 1 ends feasible: artificials still basic are set to zero, all are
\* frozen, and phase 2 starts with its own costs.
EnterPhase2 ==
  /\ Pass("phase1")
  /\ pc' = "phase2" /\ iterations' = 0
  /\ artOpen' = {}
  /\ cost' = "phase2"
  /\ device' = [cost |-> "phase2", artOpen |-> {}, artSign |-> artSign]
  /\ derived' = (derived /\ \A i \in Rows : seat.basis[i] \in Named)
  /\ UNCHANGED <<attempt, problem, seat, artSign, factored, etas, valuesFresh, expired,
                 verdict, repairRefused, result>>

Phase2Optimal ==
  /\ Pass("phase2")
  /\ Conclude("OPTIMAL")
  /\ UNCHANGED <<attempt, problem, seat, bounds, factored, etas, valuesFresh, derived,
                 iterations, expired, repairRefused>>

(***************************************************************************)
(* finalize_result and what solve() does with its answer.                  *)
(***************************************************************************)
\* Mutant: the flags are not withdrawn when a path is given up.
ReportKeepsFlags(status, x) ==
  /\ result' = [result EXCEPT !.status = status, !.x = x]
  /\ pc' = IF status = "NUMERICAL_FAILURE" /\ attempt # "primal" THEN NextAttempt ELSE "done"

\* A dual attempt that ends in a numerical failure makes way for the next
\* path; any other answer is returned.
Report(status, x) ==
  IF status = "NUMERICAL_FAILURE" /\ attempt # "primal"
  THEN /\ pc' = NextAttempt
       /\ result' = [result EXCEPT !.status = status, !.x = x,
                                   !.usedDual = FALSE, !.usedWarm = FALSE]
  ELSE /\ pc' = "done"
       /\ result' = [result EXCEPT !.status = status, !.x = x]

\* Only OPTIMAL is examined.
FinalizeUnverified ==
  /\ pc = "finalize"
  /\ verdict # "OPTIMAL"
  /\ Report(verdict, result.x)
  /\ UNCHANGED <<attempt, problem, seat, bounds, factored, etas, valuesFresh, derived,
                 iterations, expired, verdict, repairRefused>>

\* Mutant: the carried values are verified instead of the basis.
FinalizeDrifted ==
  /\ pc = "finalize"
  /\ verdict = "OPTIMAL"
  /\ \E status \in {"OPTIMAL", "NUMERICAL_FAILURE"} : Report(status, attempt)
  /\ UNCHANGED <<attempt, problem, seat, bounds, factored, etas, valuesFresh, derived,
                 iterations, expired, verdict, repairRefused>>

\* The terminal basis is factorized afresh and its values re-derived; x is
\* written, and the residual gate keeps the verdict or takes it back.
FinalizeOptimal ==
  /\ pc = "finalize"
  /\ verdict = "OPTIMAL"
  /\ \E o \in Refactorize(seat, artSign) :
       /\ Rederived(o)
       /\ IF o.thrown = "no"
          THEN \E status \in {"OPTIMAL", "NUMERICAL_FAILURE"} : Report(status, attempt)
          ELSE Report("NUMERICAL_FAILURE", result.x)
  /\ UNCHANGED <<attempt, problem, bounds, valuesFresh, iterations, expired, verdict>>

Returned == pc = "done" /\ UNCHANGED vars

Next ==
  \/ SkipWarmStart \/ SeatBasisRefused \/ SeatBasis
  \/ SetupDualFeasibleStart \/ SetupPhase1
  \/ LoopLimit \/ PeriodicRefactorize
  \/ DualConcludes \/ DualRederives \/ DualPivots
  \/ BoundFlips \/ PrimalPivots \/ PrimalUnbounded \/ PrimalLosesPivot
  \/ Phase1Infeasible \/ EnterPhase2 \/ Phase2Optimal
  \/ FinalizeUnverified \/ FinalizeOptimal
  \/ Returned

Spec == Init /\ [][Next]_vars /\ WF_vars(Next)

(***************************************************************************)
(* Properties.                                                             *)
(***************************************************************************)
Labels == {"start", "cold", "primal", "dual", "phase1", "phase2", "finalize", "done"}

TypeOK ==
  /\ pc \in Labels
  /\ attempt \in {"none", "warm", "dual", "primal"}
  /\ shape \in BoundShapes /\ algorithm \in Algorithms
  /\ seat \in Seats
  /\ artOpen \subseteq Rows /\ artSign \in [Rows -> Sign]
  /\ cost \in {"none", "phase1", "phase2"}
  /\ factored \in [Rows -> (Vars \cup {-1}) \X {-1, 0, 1}]
  /\ etas \in 0 .. RefactorizeEvery
  /\ valuesFresh \in BOOLEAN /\ derived \in BOOLEAN /\ expired \in BOOLEAN
  /\ repairRefused \in BOOLEAN
  /\ iterations \in 0 .. MaxIterations
  /\ verdict \in LpStatus
  /\ device \in [cost : {"none", "phase1", "phase2"}, artOpen : SUBSET Rows,
                  artSign : [Rows -> Sign]]
  /\ result \in [status : LpStatus, usedDual : BOOLEAN, usedWarm : BOOLEAN,
                  warmAttempted : BOOLEAN, x : {"none", "warm", "dual", "primal"}]

\* An attempt runs, is verified or has answered.
Settled == pc \in {"dual", "phase1", "phase2", "finalize", "done"}

\* The basis names a different column in every row, exactly those columns are
\* marked BASIC, the inverse map leads back from each of them, and no other
\* slack or artificial is mapped to a row.
Consistent(t) ==
  /\ Injective(t.basis)
  /\ \A v \in Vars : t.status[v] = "BASIC" <=> InBasis(v, t.basis)
  /\ \A i \in Rows : t.rowOf[t.basis[i]] = i
  /\ \A v \in Logicals : t.status[v] # "BASIC" => t.rowOf[v] = -1

\* Whatever the attempts before left half-written, the bookkeeping of an attempt
\* that runs or has answered is consistent.
BasisConsistent == Settled => Consistent(seat)

Solving == pc \in Loops \cup {"finalize"}

\* Every solve with the factorization is a solve with the present basis:
\* while an attempt runs, factor_ and its etas stand for exactly the basis
\* columns, with the signs the artificials have now.
FactorRepresentsBasis == Solving => factored = Columns(seat.basis, artSign)

\* refactorize() never meets the logical it wants to seat already basic.
RepairNeverRefused == ~ repairRefused

\* No column rests on a bound it does not have.
AtBounds(t, open) ==
  \A v \in Vars : /\ t.status[v] = "AT_LOWER" => HasLower(v)
                  /\ t.status[v] = "AT_UPPER" => HasUpper(v, open)
                  /\ t.status[v] = "AT_ZERO" => IsFree(v)

\* A nonbasic column rests on a bound it has, in every attempt, also after
\* artificials were frozen by one attempt and opened by the next.
NonbasicAtABound == Settled => AtBounds(seat, artOpen)

DeviceCurrent == device = [cost |-> cost, artOpen |-> artOpen, artSign |-> artSign]

\* When the primal loop prices on the device, the device has the costs, the
\* artificial bounds and the signs the host has.
DeviceCurrentInPrimal == pc \in {"phase1", "phase2"} => DeviceCurrent

\* The dual path concludes only on values derived from the present basis
\* with an empty eta file.
DualConcludesOnFreshValues ==
  pc = "finalize" /\ attempt # "primal" => derived /\ etas = 0

\* An OPTIMAL answer: its x was written by the attempt that answered, from a
\* basis without an eta, against the real costs, with every artificial frozen.
OptimalIsVerified ==
  pc = "done" /\ result.status = "OPTIMAL" =>
    /\ result.x = attempt
    /\ derived /\ etas = 0
    /\ cost = "phase2" /\ artOpen = {}

\* The flags of a result name the path that produced it, and a warm start is
\* only ever used when it was attempted.
FlagsNameThePath ==
  pc = "done" /\ result.status # "NUMERICAL_FAILURE" =>
    /\ result.usedWarm <=> attempt = "warm"
    /\ result.usedDual <=> attempt \in {"warm", "dual"}
    /\ result.usedWarm => result.warmAttempted

\* solve() returns.
Returns == <>(pc = "done")

=============================================================================

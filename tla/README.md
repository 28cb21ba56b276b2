# Verification of the solver

This directory holds TLA+ models of the solver, the TLC runs that check them on
small instances, and proofs that TLAPS checks for instances of every size. The
repository has two engines: a C++ one (`src/`), with its own simplex,
presolve, GPU pricing and branch and bound, and a C one (`c/`), with a second
simplex, QP methods and a second branch and bound. They share no code.

## Inventory

| Component | State it keeps | Operations | What makes it correct |
|---|---|---|---|
| C++ branch and bound, `src/milp/MilpSolver.cpp` | node queue, incumbent, LP workspace with appended cuts, cut flags, pending bases, pseudocosts | one loop: limits, pop, prune, propagate, relax, cut, heuristics, branch, report | no improving point is lost; every bound is a bound; the answer is proved; it ends |
| C branch and bound, `c/src/sk_milp.c` | heap, node in hand, incumbent, node bounds, scratch solution | root, plunge, backtrack, gap test, propagate, solve, round, branch, report | the same, with an absolute and a relative gap |
| LP pipeline, `src/lp/LpSolver.cpp` | reduction, provisional status | presolve, simplex or first-order with a fallback, postsolve, gate | OPTIMAL only past the gate on the caller's model; certificates are not traded for guesses |
| Simplex, `src/lp/Simplex.cpp` | basis, inverse map, phase, status of each column, time budget | warm, dual and primal attempts, pivots, refactorization | a failed attempt leaves nothing behind; the basis map stays a bijection |
| Basis factorization, `src/lp/BasisFactorization.cpp` | LU factors and eta file | factor, update, solve | solves agree with the current basis; the file is bounded |
| Presolve, `src/lp/Presolve.cpp` | active rows and columns, their live counts, working bounds, fixed values | passes of reductions, re-encoding, postsolve | the reduced model has the caller's optimum, and expands to a feasible point |
| GPU pricing, `src/cuda/GpuPricer.cpp` | device copies of costs, bounds, status | phase sync, status upload, price, update | the device prices by the host's current phase |
| GPU first-order, `src/cuda/GpuPdlp.cpp`, `PdlpKernels.cu` | host: counters, bindings, evaluations; device: iterates, products, sums, a ticket | windows of steps, evaluation, average, restart, convergence test | what the host decides on is complete and of the point it decides about |
| C simplex and LU, `c/src/sk_simplex.c`, `sk_lu.c` | basis, marks, values, phase, factors | singleton presolve, two phases, refactorization, repair of duals, gate | basis, marks and values agree; every verdict is proved; the gate accepts an optimum |
| C dispatch and QP, `c/src/sk_solve.c` | point, working set, row activities | dispatch by class, closed forms, enumeration, first-order loop, corrections, classification | the tests of the loop, the corrections and the result do not lose what one of them accepted; OPTIMAL is verified |
| Input, memory, sparse formats, scaling, CUDA wrappers | buffers | parse, allocate, convert | conversion keeps the entries |

`solve_milp` calls `solve_lp` at the root and in its heuristics, and a directly
built `Simplex` at every node below; `solve_lp` calls presolve, the simplex or
the first-order solver, and postsolve. `sk_milp_solve` calls `sk_simplex_solve`,
or `sk_solve` for a convex quadratic objective. On the host everything is
synchronous. The concurrency in reach is a CUDA stream, on which `GpuPdlp` queues
whole windows of kernels and reads pinned memory only after a synchronization;
the blocks of one kernel, which retire in any order; the wall clock beside every
loop; and OpenMP regions over independent data. The rest of what is hard is long
sequences of stages over shared mutable state (a workspace with cuts appended to
it and right-hand sides rounded in it, a basis table keyed by nodes that come and
go, a scratch solution overwritten by heuristics, counters kept by hand), the
places where time may run out, failures in the middle, and tolerances at a
boundary. `PROJECT.json` lists them under "hazards", each at its line.

## Modules

The searches:

- `IntegerBoxes` - a model as its integral feasible points, their objectives,
  and boxes of integer bounds. Continuous columns are projected out: a point
  stands for the best completion. `Tightened` is what rounding and propagation
  may do to a box: anything that keeps the points it must keep.
- `MilpGap` - the relative objective tolerance that accepts incumbents and
  prunes nodes.
- `MilpContract` - the abstract specification of `solve_milp`: a sequence of
  improving incumbents, then one answer; OPTIMAL and INFEASIBLE are claims
  about every feasible point, the others claim nothing.
- `BranchAndBound` - `solve_milp`. Its variables are the loop's: `open` is the
  queue, `active`, `box` and `relaxation` the locals of an iteration, `pending`
  the basis table, `scaled` and `rows` the cached factors and the cut rows,
  `separated` the two cut flags, `expired` the clock. `pc` names the stage of
  the loop body; each stage is an action, in the order of the code, with the
  code's `continue`s (`Prune`, `Requeue`) and `break`s (`Abandon`, `PushBack`).
- `NativeMilp` - `sk_milp_solve`: `current` is the node in hand, `heap` the
  others; each stage ends with `Drop` or `Stop`, which free the node as the
  code does.

What the searches conclude from rows, which they take as given:

- `IntegerRows` - models with rows over a box, in halves (coefficients and
  values) and quarters (products), so that a rounding has something to round; the
  node of a search path, its bounds, the right-hand sides and cuts of the
  workspace; and the properties.
- `RowReasoning` - the C++ side: equality and inequality propagation with their
  pass limits and crossing tests, the gcd test, right-hand side rounding, and the
  root's cover, integer-rounding and coefficient-floor cuts.
- `NativePropagation` - the C side: interval propagation with the count of
  infinite terms and one snapshot of row ranges a round, and the covers of the root.
- `NodeReasoning` - either of them along a path of a search: enter a node, reason,
  relax, branch up or down. What a node rounds or cuts stays for the next.

Linear programming in C++:

- `Presolve` - `presolve()` and `postsolve()`. `row_active`, `col_active`,
  `row_count`, `col_count`, `range`, `bound` and `fixed_value` are the members of
  the code; `pc` and `at` are the loop of the pass and the row or column it visits,
  and each outcome of a visit is an action: fixed and empty columns, empty rows,
  redundant and forcing rows, singleton rows, propagation, the end of a pass, the
  re-encoding of the rows left, the expansion of a point. An absent bound is the
  constant `Infinity`, of which nothing is assumed but that it is no integer.
- `Sums` - the sum of a function over a finite set, as the activities and
  objectives of `Presolve` and `NativeSimplex` and the rows of `IntegerRows` need it.
- `SimplexBasis` - one call of `Simplex::solve`: warm start, cold dual start,
  two-phase primal, and everything the three leave for one another. `seat` is
  `basis_`, `basic_row_of_` and `status_`; `artOpen` and `artSign` are the
  artificials' bounds and signs; `factored` and `etas` what `factor_` stands for;
  `device` the copy `sync_phase` made; `derived` and `valuesFresh` say whether
  `value_` was re-derived or carried. `Refactorize` is `refactorize()` as a set of
  outcomes: singular positions, their repair, a second failure, a refusal.
- `GpuPdlp` - the first-order solver as two processes. The host queues operations
  on `stream`; the device takes them in order, and a reduction runs block by block:
  each block writes its partial result, draws a ticket and leaves, and the one with
  the last ticket combines. A vector is the number of the iterate it holds, a
  product the number of the point it is the product of, so that a buffer read too
  early, too late or through a wrong binding shows as a wrong number.
- `LpPipeline` - `solve_lp` around `GpuPdlp`: presolve's verdicts, the leader and
  the fallback of HYBRID in both orders, what is thrown and what is caught, the
  selection, and the gate on the caller's model.

Linear and quadratic programming in C:

- `NativeSimplex` - `sk_simplex_solve` in exact arithmetic, both phases: `basis`,
  `stat`, `xval`, `lb`, `ub`, `age` are the fields of `spx`. Drift of the eta file
  is a fault: a basic value is off until the next factorization. Entries are -1, 0
  and 1 and bases unimodular (`UnimodularAssumption`), so that a solve with the basis,
  `Ftran` or `Btran`, is an integer solution of its linear system. Bounds are in order,
  infinite on their own side only, and otherwise small against infinity (`BoundsOK`).
  `sk_model_validate` checks the first of these; the others are assumed of the caller
  (the MPS bridge makes every bound from 1e29 on infinite, `sk_core.c:215`).
- `NativeSolve` - `sk_solve`: a linear problem runs through `NativeSimplex`, a
  quadratic one through the closed forms, the enumeration of active sets, the
  first-order loop, the polish and the working-set correction. Of a quadratic point
  it keeps the three residuals `sk_verify` measures, in integers, with the caller's
  tolerances beside them. Four tests of them decide between the loop and the answer,
  and they differ: the loop's flag and the polish compare the sum (`Score`), the working
  set and the result each residual with 100 tolerances (`IsVerified`). `handed` is
  what the loop ended with. The enumeration and the loop each have a clock of their own:
  `late` starts anew with the loop. The working set is a sequence of constraints,
  `equalities` of the request the rows that never leave it.

Each of `BranchAndBound`, `NativeMilp`, `NodeReasoning`, `SimplexBasis`, `Presolve`,
`LpPipeline`, `NativeSolve` and `Sums` has a module of the same name with `Proofs`
appended, which holds its theorems; those about `GpuPdlp` are in `LpPipelineProofs`,
those about rows in `NodeReasoningProofs`. The modules `MC...` are instances for TLC.

In the two searches what the LP, the propagation, the cut separators and the heuristics
compute is a nondeterministic choice among the answers they may give: a relaxation returns
any value that is at most that of every point of its box (in C++ the loop takes the
maximum with the parent's bound); a heuristic finds any point of the box or nothing; a cut
round appends rows or none. Which column is branched on, and at which value, is free too,
so the checks cover every branching rule. Faults (an unbounded or failed relaxation, an
integral vertex rejected after rounding, a non-finite value) are switched on by the
constant `Faults`. That propagation and cuts answer as assumed, keeping the points they
must keep, is what `NodeReasoning` checks of their code.

In `SimplexBasis` the numbers are abstracted the same way: any column that can
move enters, any row whose basic column has the bound leaves at it, any update
may be refused, and the residual gate accepts or rejects. Three facts about the
arithmetic are assumed. The columns of the last successful factorization factorize
again (it is deterministic). An exported basis comes from the same matrix under
bounds that were no tighter. And a row whose slack or artificial is basic is
pivoted by that column: `factorize` takes columns by their number of entries, so
only another one-entry column of the same row could take it first, and the pivot
that would make both basic is exactly zero. `RepairNeverRefused` rests on the
last one. A free slack always takes its residual in the crash basis, a fixed one
never does.

Local improvement (`attempt_local_improvement`) is modelled by the clock check
that follows it. Before it moves a column it intersects that column's bounds
with the incumbent's value, so for a binary column the trial has crossed bounds
and for a general one neither neighbour is inside: no trial reaches its LP.

## Runs

| Run | What it shows |
|---|---|
| `BB_search` | an unlimited, failure-free search with all cut rounds and heuristics: no improving point is ever lost, inherited bounds are valid, verdicts are proved, waiting bases fit the workspace and match the queue, the dual bound never retreats, and the search decides |
| `BB_limits` | clock, node limit, faults and a tolerance of one: the loop ends, implements `MilpContract`, and a node limit's bound holds |
| `NM_search` | the C driver on a feasible and an integer-infeasible model, with an absolute gap of 1 and a relative one of a half, clock, node limit and failures: nothing is lost by more than a gap unless a relaxation failed, no point is in two nodes, a node's bound is below its points however far it was inherited, OPTIMAL and INFEASIBLE are proved, and the driver ends, with a verdict unless something stopped it |
| `RR_nodes` | along paths of either search: neither propagation nor a prune costs a node one of its points, and what outlives the node (rounded right-hand sides, cuts) holds of the whole model |
| `PS_reductions` | presolve over some 1200 models: counts and domains stay in order, nothing is added, an optimum is kept, verdicts are proved, and the expanded point is feasible |
| `SX_warm` | with two structurals, so that a factorization may find two positions singular at once, and after any warm start, half seated, failed or abandoned: bookkeeping consistent, repairs never refused, nonbasic columns at bounds they have, OPTIMAL re-derived, flags right |
| `SX_chain` | several etas between refactorizations, pinned dual and primal: the factorization and the device follow the basis, dual conclusions are drawn from fresh values, `solve` returns |
| `LP_pipeline` | `solve_lp` with `GpuPdlp` inside, host and device interleaved: every launch finds a clear ticket, evaluations are complete and of the right point, dual steps extrapolate from the iterates they stand on, averages are means, the point that converged is the one answered, HYBRID keeps proofs and tries both methods |
| `NS_solve` | `sk_solve`: the simplex keeps basis, marks and values consistent, improves at every undisturbed step, and proves its verdicts; an optimum passes its gate; INFEASIBLE and UNBOUNDED of an LP are right whichever engine was asked, OPTIMAL is unbeaten if the simplex says so and within the rows if the first-order engine does; the quadratic corrections leave the loop's point verified or with no larger sum, and lose no verified one under mild tolerances; the working set stays consistent, a quadratic OPTIMAL is verified |
| `NM_limit_bound`, `NM_lost_node`, `RR_floor_cut` | disagreements with the documentation, below |

An invariant that a run names may be a conjunction of named parts, each stated at
its own definition.

### Bounds

The models of the two searches have two columns with ranges 0..2 and 0..1, so six lattice
points, three of them feasible with different objectives. That is enough for both children
of a node to hold points, for a box to need two levels of branching on the same column,
for ties in the queue, and for an incumbent to be replaced twice; four relaxation values
give nodes that are pruned before and after their relaxation. The search is finite because
every branch splits a box. `BB_limits` uses objectives that differ by more than, and by
exactly, the tolerance. The node limit is 5 (4 in C), below the largest tree, so the limit
strikes in the middle; `processed` and `nodes` are bounded by it. In `BB_search` the basis
table is capped at 3, which a second branching reaches between its two insertions. In C
three relaxation values suffice, with gaps between them and the objectives, so that a
node's value may lie below, at and above its parent's. `HeuristicPeriod` is 2 rather than
64, to round at one node and not at the next. `IsTop` uses the queue's own order; in C
ties are taken in any order, since the heap breaks them by position.

`SimplexBasis` runs with two rows, an inequality and an equation, and one
structural (`SX_chain`) or two (`SX_warm`), boxed, free or one-sided: the least in
which a repair can displace a column while another logical is basic, and (with
two) in which both rows are unmatched. A limit of two or three iterations per loop
reaches a pivot, a bound flip and a refactorization in each; `RefactorizeEvery` 1
and 2 take the periodic refactorization at once and after a chain of etas;
`TimeCheckStride` 2 lets the clock be seen at some iterations and not at others.

`NodeReasoning` runs over eleven models of three columns, each with a row that one
separator or propagator is about, and paths of depth two. `ExactLimit` 7 stands for
2^53: past it a sum is off by a unit, and one model is past it. `Horizon` 10 is
where values stop that no property tells apart. `MaxCuts` 1 is reached by a second
cut; `MaxRounds` 2 ends a C propagation before its fixpoint.

`Presolve` has two rows and two columns with coefficients -1, 0 and 1, every row
kind, boxed, half-open, open, fixed and crossed domains, and up to three passes: a
reduction of one row can trigger one of the other and a third pass. The points of
its properties have coordinates -3..3, beyond every finite bound, and `InfeasTol`
is one unit, so that what a tolerance forgives can add up where it may.
`Infinity` is a model value.

`NativeSimplex` has two rows and two columns and unimodular bases, solved exactly
within `Span` -9..9, beyond every value that occurs. `Infinite` 99 is far above the
finite bounds. `RefactorInterval` 2, `StallDantzig` 1 and `StallBland` 2 let
each change of rule and each refactorization happen within the twelve iterations
of the limit, or the one of the truncated instances. `Forgiven` 1 is the residual the
gate lets pass. `NativeSolve` adds 3 patterns with the clock read every second one,
an iteration budget of 3 with a check every second iteration, and five steps of the
working set, which can then lose a member and take it back. The unit of a
residual is half of what the gate accepts at tolerance 1 (`Factor` is 2). Tolerances
are 1 and 2, and `PolishBound`, the 1e-5 of the polish, is 4: above what the gate
accepts at 1, as for tolerances below 1e-7, and not above it at 2 (`Mild`). Of the five
measures one is zero; (2, 2, 2) passes the gate at either tolerance; (3, 0, 0) has a
smaller sum, which the polish takes, but at 1 the gate refuses it; (0, 0, 5) the loop
flags as converged and the gate refuses at both; the cold point nothing accepts.

`GpuPdlp` runs 5 iterations in windows of 2, so that the last window is cut short,
reductions of one and of two blocks, and residual levels 0, 2, 3 and 4 on a
logarithmic scale, for which the three restart thresholds are a difference of 3
(sufficient), of 1 (necessary), and 61 per cent of all iterations (artificial), so
that each of the three restarts a solve that another does not.

### Fairness

`SimplexBasis` assumes `WF_vars(Next)`: `solve` is one thread that takes
its next step. The time budget need never be seen spent; the iteration limit ends
every loop. Each driver is a loop on its own thread and no step of it waits for
another: `WF_vars(Step)` says only that the thread runs. The clock is not fair:
it may never expire, and a timeout is never assumed. The LP calls are single
steps, so termination rests on the assumption that each call returns. The other
modules are checked for safety and deadlock only.

## Disagreements with the documentation

- `NM_limit_bound`: a limit frees the node in hand before the report whose
  comment, and `README.md:87-88`, say it is included.
- `NM_lost_node`: a failed relaxation is dropped like an infeasible one; the
  search may then answer OPTIMAL, which `sk_milp.h:34-35` reserves for a closed gap.
- `RR_floor_cut`: the coefficient-floor cut shifts its right-hand side by the
  floored coefficient times the lower bound (`MilpSolver.cpp:1008`) where the derivation
  above it shifts by the coefficient itself. With a negative lower bound the cut may
  remove an integer point: 1.5x + y <= 0.5 on x in [-1,1], y in [0,2] gives x + y <= 0,
  without (-1,2). `CutsKeepEveryPoint` covers the columns with nonnegative bounds.

Met while modelling, without a run of their own. In the two searches:

- Time noticed after a node was popped (`MilpSolver.cpp:1765` and `1821`) leaves
  the loop without pushing the node back, unlike the timeouts in the heuristics, so
  that the bound reported does not cover it (`docs/architecture/MILP.md:30-31`).
- After a node limit the reported bound may exceed the incumbent's objective:
  `current_best_bound` does not compare the queue's top with the incumbent.
  `NodeLimitBoundHolds` is what the code guarantees instead, and is proved.
- A remaining time budget that reaches 0.0 between two looks at the clock is taken
  by the simplex for no budget (`MilpSolver.cpp:1283`).
- A timeout in the root relaxation of the C driver reports the bound 0 it was
  cleared to (`sk_milp.c:774`), against `milp_limit_smoke.c:10-11`.
- When a child cannot be allocated the node in hand is freed, and again by the
  cleanup (`sk_milp.c:751`).
- Local improvement never solves an LP (`MilpSolver.cpp:1655`), against `MILP.md:216`.

In the C++ linear programming:

- INFEASIBLE and UNBOUNDED of the primal path rest on carried values:
  `finalize_result` (`Simplex.cpp:1305`) examines OPTIMAL only, against `NUMERICS.md:116`.
  It also writes `x` before the gate decides.
- `setup_phase1` parks the structurals without resetting their entries of
  `basic_row_of_`, so after a warm attempt that fell back a nonbasic structural
  may keep a row, which `Simplex.hpp:418` excludes. `BasisConsistent` states what
  remains true: the map is exact for the basic columns and for all slacks and
  artificials, which is all the repair reads.
- `setup_dual_feasible_start` tells the device before it freezes the artificials,
  although `Simplex.hpp:304-308` puts the call after every such write. Nothing prices
  wrongly by it: the dual ratio test skips what the host has fixed, and
  `setup_phase1` tells the device again.
- An exception in a refactorization inside the dual loop is caught around the whole of
  `solve` (`Simplex.cpp:1570`) and reported as NUMERICAL_FAILURE, without the primal
  path of `NUMERICS.md:112`.
- The cancellation flag that `Simplex.hpp:445-448` says both loops poll is never
  read.
- HYBRID led by the simplex does not try the first-order method when the caller's
  model refuses an OPTIMAL of the simplex (`LpSolver.cpp:185`, `LpSolver.hpp:31-33`);
  `BothWereTried` excepts this case.
- A NaN coordinate passes the gate, since `std::max` drops a NaN residual
  (`LpSolver.cpp:37-48`).
- Presolve's UNBOUNDED of an empty column is returned before the remaining rows are
  looked at: of an infeasible model it may be said too. `UnboundedIsProven` says that
  every feasible point has a better one.
- The fixed path of `GpuPdlp` divides its sums by whole windows, one of which may be
  short (`GpuPdlp.cpp:389`); `AverageIsMean` is stated for whole ones. On a limit the
  statistics describe the better of iterate and average, while the iterate is handed
  out (501-517).

In the C solver:

- The repair of duals gives a column's whole reduced cost to its first active
  singleton row (`sk_simplex.c:140-180`). With two such rows of opposite sides the gate
  rejects an optimum as a numeric failure: min -x, -1 <= x <= 1, with rows -x = 1 and
  another singleton. And of a column with equal bounds any nonzero reduced cost meets
  the test for one bound or the other (169-170), so that an active row that can carry
  only the other sign takes it, although the bounds carried it already: min x, row
  x <= 1, 1 <= x <= 1. `OptimumAccepted` is stated for one singleton row a column, and
  none on a fixed one.
- The enumeration's best point is thrown away when time runs out (`sk_solve.c:226`). A
  time limit in the first-order loop reports the residual of the over-relaxed point
  (927), a non-finite objective's NUMERIC_FAILURE is overwritten by the limits (993),
  and Hessians of more than 512 columns are taken for convex (834).
- The dual bound of the branch and bound may go down. The root is bounded after eight
  rounds of propagation (`sk_milp.c:653`), solved again after four from the original
  bounds (295-306, 713-715), and children take the value of their own relaxation without
  a maximum (749-750). It remains a bound (`BoundsHold`). When the gap closes, the node in
  hand is freed before the report, so that the bound reported with OPTIMAL may exceed the
  optimum by the gap.
- The comment at `sk_milp.c:736-741` says that a branch value read after the rounding would
  delete every other value of the column. Children change one bound each, so those of an
  integral value overlap in it and lose nothing; the harm would be to search points twice,
  and for ever where the child is its parent. The mutant `BranchValueAfter` violates
  `NodesDisjoint`. The value is read before the rounding and the solution restored after
  it (535-551); either suffices.
- An LP sent to `SK_LP_FIRST_ORDER` is answered OPTIMAL when its iterates are stable and the
  rows hold (`sk_solve.c:948`, 983-995), while `README.md:315-316` says "Every claimed LP
  optimum must pass an independent certificate". `OptimumAnswered` states what is known of
  it, and optimality only of the simplex's answers.
- The comment at `sk_solve.c:939-942` calls the loop's test of a quadratic point the gate of
  the final verifier. It compares the sum of the residuals with 100 (p + 2 d), so a flagged
  point may fail the gate, which then refuses it (993).
- The polish too accepts by the sum (572). With tolerances below 1e-7 it may replace a
  point that the gate accepts by one that it refuses, and the answer is then a limit:
  residuals of 0.9e-7 each at a tolerance of 1e-9, against 2e-7, 0 and 0. `LoopPointKept`
  claims that verified points survive only where `Mild` holds.
- A blocking row is coded 2n+i or 3n+i for i below r (`sk_solve.c:755`, 760) and decoded
  against the same multiples of n (766-771), so a lower row bound with i >= n is taken for
  an upper one of another row, and an upper one past the rows for an index of that size.
  `WorkStep` lets any blocker join, which includes the wrong row but does not show it.
- "Bland" restricts the entering column only; the leaving row is that of the largest pivot.
  `StepsImprove` says that no step makes the point worse, not that zero steps do not cycle.

## Proofs

`BranchAndBoundProofs` proves, for every model, objective, tolerance, limit and
set of features and faults that meets the named assumptions of `IntegerBoxes`,
`MilpGap` and `BranchAndBound` (integral bounds around the points, objectives
strictly between the infinities, a natural tolerance, natural limits, a `NoNode`
that is no node):

- `TypeCorrect`, `InvariantHolds`, `SearchLosesNothing`, `InheritedBoundsHold`,
  `VerdictsProven`, `NodeLimitBounds`, `DualBoundMonotone`,
  `LoopImplementsContract` and `BasisTableStaysUsable`.

`NothingLost` is not inductive: a node is pruned on the strength of its
relaxation, and an integral one on the strength of an incumbent set three
stages earlier. `SearchInvariant` adds what the stages in between keep: the
active node's box holds the node's points (`BoxHolds`), its relaxation is below
them and, once considered, dominated (`RelaxationHolds`), and status and result
agree with the stage (`StatusHolds`). The argument turns on three lemmas:
`HeldStep` (a step keeps the nodes, drops a dominated one, abandons the search, or
branches), `BranchShares` (two children share out a node's points) and
`DominatedKept` (a new incumbent dominates what the old one did). The verdict
then follows from an empty queue, and the refinement from the verdict.

`BasisTableStaysUsable` needs more than that. That no cut row is appended after a
node below the root has been scaled, or has left a basis for its children, follows
from the order of the loop only together with the fact that the root is held alone
until its cut rounds are over (`RootAlone`): `TableInv` adds it, and what each stage
between relaxation and branching knows of `rows`, `scaled` and `pending`.

`SimplexBasisProofs` proves, for any number of rows and structurals, all bound
shapes, algorithms and limits, every safety property of `SimplexBasis` its passing
runs check: `TypeCorrect`, `BasisStaysConsistent`, `FactorFollowsBasis`,
`RepairsSucceed`, `RestsAtBounds`, `DeviceFollowsHost`, `DualConclusionsFresh`,
`OptimalAnswersVerified` and `FlagsAreRight`. The invariant `IInv` has three parts
besides the types: the bookkeeping (`BookHolds`), the path and its flags
(`PathHolds`), and which values and costs a conclusion is drawn from
(`ValuesHold`). The lemmas are about the operators: a repair of a consistent
basis is accepted and leaves a consistent one (`RepairConsistent`,
`RepairAtBounds`, `RefactorizeSound`), a pivot does (`ExchangeConsistent`), and
each of the three starts makes one out of anything (`SeatedSound`,
`AllSlackSound`, `CrashSound`). `BasisConsistent` alone is not inductive: a repair is
accepted only because the inverse map is exact for the artificials, and the start
that follows a refused warm start must not rely on what it left.

`NativeMilpProofs` proves of the C driver, for every model, gap and limit and one
assumption (`NodeAssumption`: NULL is no node), `DriverLosesNothing`, `NodeBoundsHold`,
`DriverVerdicts`, `DriverDecides` and `ReliableOptimal`: what `sk_milp.h` says of OPTIMAL,
and `NM_lost_node` refutes, is true when no relaxation can fail. `DriverInv` consists of
`NothingLost`, `BoundsHold`, `NodesDisjoint`, `BoxHolds`, `RelaxationHolds`, `TreeShape`
and `FinalHolds`. Objective propagation gives up points that the cutoff excludes, after
which the node's box no longer holds all of its points; `BoxHolds` and `BoundsHold`
survive because what is given up is not below the cutoff, and a relaxation that reaches it
is cut off by the same comparison. `NodesDisjoint` rests on the branch value being read
off the relaxation that chose the column: only a value strictly between two integers
rounds to two boxes that do not overlap. An empty heap, or a heap whose least bound is
within the gap, then closes the search (`ClosedBetween`).

`LpPipelineProofs` proves of host and device, for every number of blocks and
iterations, every window and every check and restart period, `TicketsClear`,
`EvaluationsFresh`, `ExtrapolationCurrent`, `AverageMean` and `ConvergedBest`. The host
decides on values whose kernels were queued many operations ago, so `PdlpInv`
describes what is still on the stream: `StreamShape` lists the operations left by
their distance from the end, for each thing the host may have queued; `TicketInv`
says that the ticket counter is the number of blocks that have left, and zero again
once the last has, whatever the order they leave in; `CounterInv` how
far the host's counters are ahead of the device's; `SumInv`, `ProductInv` and
`EvaluationInv` which iterate each buffer will hold when the operations before it are
through. The fixed path divides by whole windows; that all but the last window end at
a multiple of the period is a lemma on remainders.

It then proves `PipelineImplementsPdlp`: every step of `solve_lp` is a step
of the first-order method as `GpuPdlp` specifies it, or leaves that untouched. What
is proved of `GpuPdlp` is thereby true inside the pipeline: `StreamIsConsistent`,
`PipelineExtrapolates`, `PipelineAverages` and, with what the selection and the gate
hand on (`AnswerInv`), `ConvergedPointIsAnswered`. It also proves `HybridComplete` for
every set of requests: HYBRID never trades a proof of the simplex for another status,
and gives up only after both methods ran. `HybridInv` adds to it what each stage may
assume of the engines (`EnginesHold`) and what the selection hands to the gate
(`SelectionHolds`): the point of a first-order candidate has already been found
feasible, so the gate cannot undo a selection that left the other method untried.

`NativeSolveProofs` has two parts. Of the quadratic engines it proves, for every number of
rows and columns, every set of equality rows and every budget,
`WorkingSetStaysConsistent`, `CorrectionsSafe`, `QuadraticOptimumVerified` and
`ResidualMatchesPoint`. In `SolveInv`, `WorkingInv` says that during the correction the
working set lists, without repetition, a set of constraints that contains every equality
row, and that the flags are those of its columns and rows; the lemmas on appending to a
list and removing from it (`Lists`) are about sequences, not about solvers. `QualityInv`
says what has become of the point the loop ended with: at each stage after it, the point
held, or the one kept aside, is verified or has no larger sum, and is verified under mild
tolerances if the first was (`KeptAs`). That relation does not chain, so the invariant
relates each stage to the loop's last point directly; `PolishKeeps` is the case of the
polish. `AnswerInv` says that OPTIMAL is said of verified convex problems, and which
engine may be at work at which stage, `ActivityInv` which point the activities are of.

Of the simplex, and of what `sk_solve` answers with it, it proves `BasisStaysConsistent`,
`AnswersAreProven`, `OptimaAccepted` and `StepsNeverWorsen`, for every number of rows and
columns, every set of models that meets `ProblemAssumption` and `UnimodularAssumption`,
every tolerance, refactorization interval and stall limit, and every set `Sample` of
values the points may take. The hypothesis `Span = Int` says that a basis solve finds its
solution wherever among the integers it is; the run bounds `Span` so that TLC can search
it. No property is inductive, and `SolvedInv` (`SolvedInvariant`) joins what they rest on.

- The basis stays `Nonsingular`: every right-hand side and every cost vector has a
  solution, and exactly one, so that the solution `Ftran` and `Btran` choose is the one.
  The logicals are such a basis (`LogicalsNonsingular`). `PivotNonsingular` says that the
  exchange of a column for one with a nonzero entry at its position keeps both
  solvabilities; it writes the new solutions down, and divides only by a pivot that
  unimodularity makes 1 or -1. That the basis holds no variable twice follows.
- Unless precision was lost, the values are `Balanced`, that is, they solve the rows. A
  refactorization makes them so (`RecomputedBalanced`), and a step moves them along a ray
  that solves the homogeneous rows (`MoveIsRay`). `Seated` adds the marks, and that
  every nonbasic variable is at the bound its mark names, within bounds that are in order.
- A step improves (`StepImproves`): no basic variable passes a bound it is within, or
  adds to its violation (`MoveViolations`), and the objective moves by step times reduced
  cost (`MoveObjective`).
- `ClaimInv` says of each claim why it is right. INFEASIBLE: crossed working bounds
  (`CrossedBounds`), an interval that excludes a row (`IntervalExcludes`), or a basis of
  phase 1 without an eligible column, whose phase-1 multipliers are a certificate over the
  working bounds (`InfeasibleBasis`); the bounds that singleton rows tightened are implied
  by the model. UNBOUNDED: no column blocks the ray of the entering one, and along it any
  multipliers that bounded the objective would have a sign they may not have
  (`UnboundedRay`). OPTIMAL: the published point and multipliers passed `Certified`, and
  weak duality shows that no feasible point is better (`CertifiedBest`), whatever was lost
  on the way to them. `SimplexAnswered` carries this from the simplex's result to the
  answer of `sk_solve`: an LP not sent to the first-order engine is answered OPTIMAL or
  UNBOUNDED by the simplex alone, and one that is, never UNBOUNDED; `AnswersAreProven`
  claims no more of its OPTIMAL than that the rows hold. `OptimumAccepted` holds because
  an undisturbed phase-2 basis without an eligible column has multipliers of the right
  sign for the working bounds, and the repair moves what a tightened bound carried to the
  row that tightened it (`RepairCertifies`).

`SumsProofs` proves what the sums over finite sets obey. The fold of the library takes
the members in an order that `CHOOSE` decides. The library's induction theorem cannot
be instantiated by the provers at hand, so induction is stated of a set of subsets, and
proved from a minimal counterexample (`SubsetInduction`); with it, an additive function
on the subsets exists and the fold is it (`SubsetSums`), and sums split, are monotone,
are tight where they are equal, and ignore zero terms.

`PresolveProofs` uses them to prove every property of `Presolve` for models of every
size with integer data and coefficients -1, 0 and 1, any number of passes and any
tolerance (`SizeAssumption`, `ProblemAssumption`): `WorkingModelStaysConsistent`,
`ReductionsAddNothing`, `ReducedModelKeepsOptimum`, `PostsolveStaysFeasible` and
`VerdictsAreProven`. `ReducedModelKeepsOptimum` is about points over all integers
(`Sample = Int`): with fewer, the point as good as a given one may be none of them.
None of these is inductive. A row's range is kept in terms of the columns still
active, and each reduction rewrites ranges, bounds and both active sets at once. `ShiftInv`
therefore says once what a kept row's range is, the caller's with the fixed columns
moved to the other side, and everything else is told of the caller's rows and of points
over all columns (`Holds`). `DroppedInv` says that a dropped row is met, within
the tolerance, by every point in the present box; `KeptInv` that each of the caller's
points has one as good among those still held; `FixedInv` that a column was fixed
between the caller's bounds. `Uncrossed` is about crossed domains, which the first loop
removes before any activity is computed over them, and `OpenInv` and `RayInv` about
UNBOUNDED: where a column left is open, so is every dropped row it is in.
`DataStep` reduces a reduction to two obligations: it keeps a point as good as each one
held, and implies the rows it drops; one lemma for each reduction meets them. A forcing
row needs `SumTight`: a row at its least activity has every column at its bound.

`NodeReasoningProofs` proves both properties of `NodeReasoning`, for any number of
rows and columns, any integer data in halves, any depth and any limits
(`IntegerRowsAssumption`, `ProblemsAssumption`): `NodePointsKept` and
`WorkspacePointsKept`. Neither is inductive: a bound is tightened from the bounds, and a
right-hand side rounded from the right-hand side, that earlier nodes and passes left.
`NodeInv` adds to them what the stages of a node leave each other: types and loop
counters by stage (`NodeTyped`, `StepsTyped`), that a separator runs once (`CutsOnce`,
on which its limit rests), and that the row ranges of a C round were computed over some
box that held the node's points and holds the present one (`RangesTaken`):
`milp_propagate` computes them once a round and then tightens column after column
against ranges already stale. Each piece of reasoning has a lemma that says why it may
be trusted:

- `EqualitySound`: what an equality row implies of a column, whenever the code finds
  that every product fits its exactness budget. Sums are computed in doubles, modelled
  as off by one beyond `ExactLimit`; the lemma shows that the budget keeps every sum,
  and the remainder the division starts from, on the exact side.
- `InequalitySound` and `TightenColumnSound`: the same of inequality rows, and of C
  rows of either side over an older box, with the count of infinite terms.
- `GcdRefutesSound`: integers with a common divisor sum to a multiple of it (`SumDivisible`),
  with the divisor given as the largest one and not by Euclid's loop.
- `RoundedRhsSound`, `CoverValid`, `NativeCoverValid`, `RoundingValid` and `FloorValid`:
  the rounded rows and the cuts hold of every point. Covers come from sorted greedy passes with
  members dropped again; that what is left still is a cover follows for whatever
  ordering. Coefficient-floor cuts are proved where all columns of the row have
  nonnegative lower bounds, which is where `CutsKeepEveryPoint` states them; the run
  `RR_floor_cut` shows that elsewhere they are wrong.

Below these lie the two facts of rounding (`FloorDivSound`, `CeilDivSound`) and the
laws of sums, which are scaled, divided, bounded and split (`SumScaled`, `SumWithin`).

Only model-checked:

- termination and decision (`Termination`, `Returns`, `Decides`): liveness under
  fairness is out of the prover's reach, as is ENABLED;
- the three disagreements, which are refutations.

## Not modelled, and the plan

Not modelled in the searches: option validation, a root box that is crossed
at entry, pure LPs, the sign flip of a maximization, statistics, pseudocosts and
the probes that feed them, GMI cuts, what the primal heuristics compute (binary slack
repair, feasibility pump, RENS, dives), allocation failure, and floating point as
such: values are integers, a tolerance is a whole number, and an improvement below
the code's tolerances is no improvement. In row reasoning, the guard on rows of more
than 256 terms and the error envelope of long sums. In `SimplexBasis`, the values
themselves, duals, Devex weights, scaling and timing statistics; in `NativeSimplex`,
scaling, Devex weights and the elimination inside `sk_lu.c`. In `GpuPdlp`, step sizes,
the primal weight and the residuals but for the worst one's level. In `Presolve`, the
outward relaxation of propagated bounds, which is there for floating point.

Not modelled as components: scaling, the memory arena, the sparse formats, the OpenMP
macros, the MPS readers, run metadata, the C library for CUDA, and the applications:
arithmetic, containers and input or output without control state of their own, or, the
MPS section machine, still to come.

The plan, in order of importance:

1. `Probes` and `Pseudocosts` - parallel strong branching and its merge.
2. `NodeHeap` - the C heap's sifting, refining the set `heap` of `NativeMilp`.
3. `EtaFile` - updates and solves in `BasisFactorization` and `sk_lu.c`; they refine
   `factored` and `etas` of `SimplexBasis`.
4. `MpsSections` - the section machine of the two MPS readers.

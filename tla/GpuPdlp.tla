------------------------------ MODULE GpuPdlp ------------------------------
(***************************************************************************)
(* GpuPdlp: restarted averaged primal-dual hybrid gradient on the GPU.     *)
(*                                                                         *)
(* The host queues kernels and copies on one stream, which the device runs *)
(* in order while the host goes on; the two meet at the synchronizations.  *)
(* A point is the number of the iterate it is, and the buffers that hold a *)
(* product with A the number of the point it is the product of; x stands   *)
(* for (x, y).  Of a residual evaluation only the level of its worst       *)
(* measure is kept, on a logarithmic scale.                                *)
(***************************************************************************)
EXTENDS Integers, Sequences, FiniteSets

CONSTANTS
    MaxIterations,      \* params.max_iterations
    RestartPeriod,      \* params.restart_period
    GridN, GridMax,     \* blocks of a reduction over columns, over the longer of rows and columns
    Levels,             \* finite levels of the worst residual; 0 is within eps_optimal
    Diverged,           \* the level of an infinite or NaN residual
    Sufficient, Necessary, ArtificialPercent, \* the restart thresholds
    Modes               \* the values of params.adaptive_step

ASSUME PdlpAssumption ==
    /\ MaxIterations \in Nat \ {0} /\ RestartPeriod \in Nat \ {0}
    /\ GridN \in 1 .. GridMax /\ GridMax \in Nat \ {0}
    /\ Levels \subseteq Nat /\ 0 \in Levels /\ Diverged \in Nat /\ \A l \in Levels : l < Diverged
    /\ Necessary \in Nat /\ Sufficient \in Nat /\ Necessary < Sufficient
    /\ ArtificialPercent \in 1 .. 100 /\ Modes \subseteq BOOLEAN

VARIABLES
    adaptive,
    \* the device
    stream,                       \* queued operations
    wrote, left, retire,          \* the running reduction: its blocks, and retire_count
    x, prev, serial,              \* the iterate, the one before it, and the last number given
    x_bar,                        \* the points the fixed path extrapolates
    ax, ax_prev, ax_bar,          \* products
    cand, ax_cand, step,          \* the candidate, and PdlpStepState
    sum, x_avg,                   \* terms in the sums; the average
    residuals,
    extrapolated,                 \* every dual step used the extrapolation it should
    \* the host
    pc, bound, iteration, windows, since, mu_at_restart, mu_previous,
    accepted_total, accepted_at_restart, current, average, best, outcome, x_out

buffers == <<x, prev, serial, x_bar, ax, ax_prev, ax_bar, cand, ax_cand, step, sum, x_avg,
             residuals, extrapolated>>
device == <<stream, wrote, left, retire, buffers>>
counters == <<iteration, windows, since, mu_at_restart, mu_previous, accepted_total,
              accepted_at_restart>>
host == <<pc, bound, counters, current, average, best, outcome, x_out>>
pdlpVars == <<adaptive, device, host>>

AllLevels == Levels \cup {Diverged}
NoEvaluation == [point |-> 0, level |-> Diverged, whole |-> TRUE]

PdlpInit ==
    /\ adaptive \in Modes
    /\ stream = <<>> /\ wrote = {} /\ left = {} /\ retire = 0
    /\ x = 0 /\ prev = 0 /\ serial = 0 /\ x_bar = <<0, 0>>
    /\ ax = 0 /\ ax_prev = 0 /\ ax_bar = 0 /\ cand = 0 /\ ax_cand = 0
    /\ step = [accepted |-> TRUE, accept_count |-> 0]
    /\ sum = 0 /\ x_avg = [point |-> 0, terms |-> 1, divisor |-> 1]
    /\ residuals = NoEvaluation /\ extrapolated = TRUE
    /\ pc = "start" /\ bound = "power"
    /\ iteration = 0 /\ windows = 0 /\ since = 0
    /\ mu_at_restart = Diverged /\ mu_previous = Diverged
    /\ accepted_total = 0 /\ accepted_at_restart = 0
    /\ current = NoEvaluation /\ average = NoEvaluation /\ best = NoEvaluation
    /\ outcome = "running" /\ x_out = 0

(***************************************************************************)
(* The operations the host queues.  A product takes the vectors its        *)
(* descriptors were bound to when it was queued.                           *)
(***************************************************************************)
Op(name) == [op |-> name]
Bound(name, b) == [op |-> name, bound |-> b]
\* queue_residual_evaluation() and the copy of its result.
Evaluation(point, scratch) ==
    <<[op |-> "product", point |-> point, scratch |-> scratch],
      [op |-> "residuals", point |-> point]>>
Repeat(ops, k) == [i \in 1 .. k * Len(ops) |-> ops[((i - 1) % Len(ops)) + 1]]

AdaptiveStep == <<Bound("candidate", bound), Op("probe"), Op("commit")>>
FixedStep == <<Bound("fixed", bound')>>

(***************************************************************************)
(* The device: elementwise kernels, products and copies.                   *)
(***************************************************************************)
Reducing == {"norm", "probe", "residuals"}
Idle == stream = <<>>
Now == Head(stream)
Running(name) == ~ Idle /\ Now.op = name
Grid == IF Now.op = "norm" THEN GridN ELSE GridMax
Blocks == 1 .. Grid

Pop == stream' = Tail(stream) /\ UNCHANGED <<adaptive, wrote, left, retire, host>>

\* Dual and primal update into the candidate, and its product.
Candidate ==
    /\ Running("candidate")
    /\ extrapolated' = (extrapolated /\ <<ax, ax_prev>> = <<x, prev>>)
    /\ cand' = serial + 1
    /\ ax_cand' = IF Now.bound = "candidate" THEN cand' ELSE ax_cand
    /\ Pop /\ UNCHANGED <<x, prev, serial, x_bar, ax, ax_prev, ax_bar, step, sum, x_avg, residuals>>

\* A rejected candidate writes nothing; the next iteration is its retry.
Commit ==
    /\ Running("commit")
    /\ IF step.accepted
       THEN /\ x' = cand /\ prev' = x /\ serial' = serial + 1
            /\ ax_prev' = ax /\ ax' = ax_cand /\ sum' = sum + 1
       ELSE UNCHANGED <<x, prev, serial, ax_prev, ax, sum>>
    /\ Pop /\ UNCHANGED <<x_bar, ax_bar, cand, ax_cand, step, x_avg, residuals, extrapolated>>

\* The fixed step multiplies the extrapolated point itself.
Fixed ==
    /\ Running("fixed")
    /\ extrapolated' = (extrapolated /\ Now.bound = "x_bar" /\ x_bar = <<x, prev>>)
    /\ x' = serial + 1 /\ prev' = x /\ x_bar' = <<x', x>> /\ serial' = serial + 1
    /\ sum' = sum + 1
    /\ Pop /\ UNCHANGED <<ax, ax_prev, ax_bar, cand, ax_cand, step, x_avg, residuals>>

PointOf(p) == IF p = "x" THEN x ELSE x_avg.point
Product ==
    /\ Running("product")
    /\ IF Now.scratch = "ax" THEN ax' = PointOf(Now.point) /\ UNCHANGED ax_bar
       ELSE ax_bar' = PointOf(Now.point) /\ UNCHANGED ax
    /\ Pop /\ UNCHANGED <<x, prev, serial, x_bar, ax_prev, cand, ax_cand, step, sum, x_avg,
                          residuals, extrapolated>>

Average ==
    /\ Running("average")
    /\ x_avg' = [point |-> serial + 1, terms |-> sum, divisor |-> Now.divisor]
    /\ serial' = serial + 1
    /\ Pop /\ UNCHANGED <<x, prev, x_bar, ax, ax_prev, ax_bar, cand, ax_cand, step, sum,
                          residuals, extrapolated>>

\* The copies of a restart: the extrapolation becomes the identity.
Restarted ==
    /\ Running("restart")
    /\ x' = PointOf(Now.from) /\ prev' = x' /\ x_bar' = <<x', x'>>
    /\ ax' = IF adaptive /\ Now.from = "avg" THEN ax_bar ELSE ax
    /\ ax_prev' = IF adaptive THEN ax' ELSE ax_prev
    /\ sum' = 0
    /\ Pop /\ UNCHANGED <<serial, ax_bar, cand, ax_cand, step, x_avg, residuals, extrapolated>>

Adopt ==
    /\ Running("adopt") /\ x' = x_avg.point
    /\ Pop /\ UNCHANGED <<prev, serial, x_bar, ax, ax_prev, ax_bar, cand, ax_cand, step, sum, x_avg,
                          residuals, extrapolated>>

(***************************************************************************)
(* The device: reductions.  Every block writes its partial sums and draws  *)
(* a ticket; the block with the last ticket combines the partials of all.  *)
(***************************************************************************)
BlockWrites(b) ==
    /\ ~ Idle /\ Now.op \in Reducing /\ b \in Blocks \ wrote
    /\ wrote' = wrote \cup {b}
    /\ UNCHANGED <<adaptive, stream, left, retire, buffers, host>>

\* A grid of one block needs no ticket, except in the step probe.
DrawsTicket == Grid > 1 \/ Now.op = "probe"

\* atomicInc(retire_count, grid - 1) wraps to zero with the last ticket.
NextTicket == IF retire >= Grid - 1 THEN 0 ELSE retire + 1

Combine ==
    CASE Now.op = "norm" -> UNCHANGED buffers
      [] Now.op = "probe" ->
            /\ \E accepted \in BOOLEAN :
                  step' = [accepted |-> accepted,
                           accept_count |-> step.accept_count + (IF accepted THEN 1 ELSE 0)]
            /\ UNCHANGED <<x, prev, serial, x_bar, ax, ax_prev, ax_bar, cand, ax_cand, sum, x_avg,
                           residuals, extrapolated>>
      [] Now.op = "residuals" ->
            /\ \E level \in AllLevels :
                  residuals' = [point |-> PointOf(Now.point), level |-> level, whole |-> wrote = Blocks]
            /\ UNCHANGED <<x, prev, serial, x_bar, ax, ax_prev, ax_bar, cand, ax_cand, step, sum,
                           x_avg, extrapolated>>

BlockLeaves(b) ==
    /\ ~ Idle /\ Now.op \in Reducing /\ b \in wrote \ left
    /\ left' = left \cup {b}
    /\ retire' = IF DrawsTicket THEN NextTicket ELSE retire
    /\ IF DrawsTicket => retire = Grid - 1 THEN Combine ELSE UNCHANGED buffers
    /\ UNCHANGED <<adaptive, stream, wrote, host>>

KernelEnds ==
    /\ ~ Idle /\ Now.op \in Reducing /\ left = Blocks
    /\ stream' = Tail(stream) /\ wrote' = {} /\ left' = {}
    /\ UNCHANGED <<adaptive, retire, buffers, host>>

Device == \/ Candidate \/ Commit \/ Fixed \/ Product \/ Average \/ Restarted \/ Adopt
          \/ KernelEnds
          \/ \E b \in 1 .. GridMax : BlockWrites(b) \/ BlockLeaves(b)

(***************************************************************************)
(* The host.                                                               *)
(***************************************************************************)
Enqueue(ops) == stream' = stream \o ops /\ UNCHANGED <<wrote, left, retire, buffers>>

\* Mutant: the host reads before the device is done.
SynchronizedNever == TRUE
Synchronized == Idle

\* estimate_matrix_norm(), then the iterates, sums and products are zeroed.
EstimateNorm ==
    /\ pc = "start" /\ Enqueue(<<Op("norm"), Op("norm")>>) /\ pc' = "norm"
    /\ UNCHANGED <<adaptive, bound, counters, current, average, best, outcome, x_out>>

Begin ==
    /\ pc = "norm" /\ Synchronized
    /\ pc' = "loop" /\ bound' = IF adaptive THEN "candidate" ELSE bound
    /\ UNCHANGED <<adaptive, device, counters, current, average, best, outcome, x_out>>

Period == IF MaxIterations - iteration < RestartPeriod THEN MaxIterations - iteration
          ELSE RestartPeriod

\* A window of iterations and the evaluation of the iterate, without a synchronization.
QueueWindow ==
    /\ pc = "loop" /\ iteration < MaxIterations
    /\ IF adaptive THEN UNCHANGED bound ELSE bound' = "x_bar"
    /\ Enqueue(Repeat(IF adaptive THEN AdaptiveStep ELSE FixedStep, Period)
               \o Evaluation("x", "ax"))
    /\ iteration' = iteration + Period /\ since' = since + Period /\ windows' = windows + 1
    /\ pc' = "current"
    /\ UNCHANGED <<adaptive, mu_at_restart, mu_previous, accepted_total, accepted_at_restart,
                   current, average, best, outcome, x_out>>

AverageScratch == IF adaptive THEN "ax_bar" ELSE "ax"

AtLeastOne(n) == IF n < 1 THEN 1 ELSE n
\* Mutant: rejected steps count as terms of the sums.
TermsQueued(accepted) == windows * RestartPeriod
Terms(accepted) == IF adaptive THEN AtLeastOne(accepted - accepted_at_restart)
                   ELSE windows * RestartPeriod

QueueAverage(accepted) ==
    Enqueue(<<[op |-> "average", divisor |-> Terms(accepted)]>> \o Evaluation("avg", AverageScratch))

\* read_residuals() of the iterate; the adaptive path reads the step state too.
ReadCurrent ==
    /\ pc = "current" /\ Synchronized
    /\ current' = residuals
    /\ IF adaptive THEN accepted_total' = step.accept_count ELSE UNCHANGED accepted_total
    /\ QueueAverage(accepted_total') /\ pc' = "average"
    /\ UNCHANGED <<adaptive, bound, iteration, windows, since, mu_at_restart, mu_previous,
                   accepted_at_restart, average, best, outcome, x_out>>

\* Mutant: the loop's bindings are not restored.
ReboundNever == "avg"
Rebound == IF adaptive THEN "candidate" ELSE "avg"

Better == IF average'.level < current.level THEN average' ELSE current
ReadAverage ==
    /\ pc = "average" /\ Synchronized
    /\ average' = residuals /\ best' = Better
    /\ bound' = Rebound /\ pc' = "decide"
    /\ UNCHANGED <<adaptive, device, counters, current, outcome, x_out>>

AverageBetter == average.level < current.level
Finish(o) == outcome' = o /\ pc' = "readback"
             /\ UNCHANGED <<adaptive, bound, counters, current, average, best, x_out>>

\* Mutant: the iterate is handed out whichever of the two converged.
AdoptedNever == <<>>
Adopted == IF AverageBetter THEN <<Op("adopt")>> ELSE <<>>

Converge == pc = "decide" /\ best.level = 0 /\ Enqueue(Adopted) /\ Finish("converged")

\* The time limit has passed, or the owner of the cancel flag has raised it; both
\* are looked at once per window.
TimeOut == pc = "decide" /\ best.level > 0 /\ Finish("time_limit") /\ UNCHANGED device

Cancelled == pc = "decide" /\ best.level > 0 /\ Finish("cancelled") /\ UNCHANGED device

BudgetSpent == pc = "loop" /\ iteration >= MaxIterations /\ Finish("budget") /\ UNCHANGED device

\* A level below that of the last restart by at least so much.
Decayed(by) == mu_at_restart = Diverged \/ best.level <= mu_at_restart - by
Earned == \/ Decayed(Sufficient)
          \/ Decayed(Necessary) /\ best.level > mu_previous
          \/ 100 * since >= ArtificialPercent * iteration

Undecided == pc = "decide" /\ best.level > 0

\* No restart: the average and the restart reference stay as they are.
Continue ==
    /\ Undecided /\ ~ Earned
    /\ mu_previous' = best.level /\ pc' = "loop"
    /\ current' = NoEvaluation /\ average' = NoEvaluation
    /\ UNCHANGED <<adaptive, device, bound, iteration, windows, since, mu_at_restart,
                   accepted_total, accepted_at_restart, best, outcome, x_out>>

AcceptedAtRestart == IF adaptive THEN accepted_total ELSE accepted_at_restart

Restart ==
    /\ Undecided /\ Earned
    /\ Enqueue(<<[op |-> "restart", from |-> IF AverageBetter THEN "avg" ELSE "x"]>>)
    /\ windows' = 0 /\ since' = 0
    /\ accepted_at_restart' = AcceptedAtRestart
    /\ mu_at_restart' = best.level /\ mu_previous' = Diverged /\ pc' = "loop"
    /\ current' = NoEvaluation /\ average' = NoEvaluation
    /\ UNCHANGED <<adaptive, bound, iteration, accepted_total, best, outcome, x_out>>

ReadBack ==
    /\ pc = "readback" /\ Synchronized
    /\ x_out' = x /\ pc' = "done"
    /\ UNCHANGED <<adaptive, device, bound, counters, current, average, best, outcome>>

Host == \/ EstimateNorm \/ Begin \/ QueueWindow \/ ReadCurrent \/ ReadAverage \/ Converge
        \/ TimeOut \/ Cancelled \/ BudgetSpent \/ Continue \/ Restart \/ ReadBack

PdlpNext == Host \/ Device

PdlpSpec == PdlpInit /\ [][PdlpNext]_pdlpVars

(***************************************************************************)
(* Properties.                                                             *)
(***************************************************************************)
\* Every variable keeps its type.
PdlpTypeOK ==
    /\ adaptive \in Modes /\ extrapolated \in BOOLEAN
    /\ wrote \subseteq 1 .. GridMax /\ left \subseteq wrote /\ retire \in 0 .. GridMax - 1
    /\ {x, prev, serial, ax, ax_prev, ax_bar, cand, ax_cand, sum, x_out} \subseteq Nat
    /\ pc \in {"start", "norm", "loop", "current", "average", "decide", "readback", "done"}
    /\ iteration \in 0 .. MaxIterations /\ since \in 0 .. iteration /\ windows \in 0 .. iteration
    /\ {mu_at_restart, mu_previous} \subseteq AllLevels
    /\ accepted_at_restart \in 0 .. accepted_total /\ accepted_total \in 0 .. iteration
    /\ outcome \in {"running", "converged", "time_limit", "cancelled", "budget"}

\* Every dual step multiplies A by the extrapolation 2 x_k - x_(k-1) of the
\* iterates it stands on, and by x_k alone right after a restart, although the
\* evaluations in between rebind the products and write their buffers.
ExtrapolationIsCurrent == extrapolated

\* When the host decides, both evaluations it read are complete and of the
\* points it decides about.
EvaluationsAreFresh ==
    pc = "decide" =>
        /\ current.whole /\ current.point = x
        /\ average.whole /\ average.point = x_avg.point

\* Between launches the ticket counter is zero, so that every launch finds its
\* last block.
TicketsAreClear == (Idle \/ Now.op \notin Reducing \/ left = {}) => retire = 0

\* The average is the mean of the iterates summed, whatever was rejected.  No
\* accepted step leaves no mean, and of the fixed path only full windows count.
AverageIsMean ==
    pc = "decide" /\ (IF adaptive THEN x_avg.terms > 0 ELSE iteration % RestartPeriod = 0)
        => x_avg.divisor = x_avg.terms

\* What is handed out as converged is the very point whose residuals were within
\* the tolerance, the iterate or the average.
ConvergedPointIsBest ==
    pc = "done" /\ outcome = "converged" => best.level = 0 /\ best.whole /\ x_out = best.point
=============================================================================

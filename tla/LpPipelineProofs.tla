--------------------------- MODULE LpPipelineProofs ---------------------------
(***************************************************************************)
(* What the host of GpuPdlp may rely on while it runs ahead of the device, *)
(* for every grid, period and budget: which operations the stream can hold *)
(* at each point of the host's loop, what a reduction's ticket counter     *)
(* says, and what every buffer holds meanwhile.  Then what solve_lp        *)
(* promises, for every set of requests: HYBRID's promises hold whatever    *)
(* GpuPdlp does, as its steps leave everything they are about alone but    *)
(* for the outcome that PdlpReturns looks at, and the pipeline runs        *)
(* GpuPdlp as it is specified, so that what is shown of it is carried to   *)
(* the answer.                                                             *)
(***************************************************************************)
EXTENDS LpPipeline, SequenceTheorems, FiniteSetTheorems, TLAPS

(***************************************************************************)
(* The queue.  An operation of a window is told by how many follow it, so  *)
(* that running the first leaves the description of the others alone.      *)
(***************************************************************************)
Bindings == {"power", "candidate", "x_bar", "avg"}
Operation ==
    [op : {"norm", "probe", "commit", "adopt"}]
        \cup [op : {"candidate", "fixed"}, bound : Bindings]
        \cup [op : {"product"}, point : {"x", "avg"}, scratch : {"ax", "ax_bar"}]
        \cup [op : {"residuals"}, point : {"x", "avg"}]
        \cup [op : {"average"}, divisor : Nat]
        \cup [op : {"restart"}, from : {"x", "avg"}]

WindowOp(a, d) ==
    IF d = 0 THEN [op |-> "residuals", point |-> "x"]
    ELSE IF d = 1 THEN [op |-> "product", point |-> "x", scratch |-> "ax"]
    ELSE IF ~ a THEN Bound("fixed", "x_bar")
    ELSE IF (d - 2) % 3 = 0 THEN Op("commit")
    ELSE IF (d - 2) % 3 = 1 THEN Op("probe")
    ELSE Bound("candidate", "candidate")

AverageOp(scratch, divisor, d) ==
    IF d = 0 THEN [op |-> "residuals", point |-> "avg"]
    ELSE IF d = 1 THEN [op |-> "product", point |-> "avg", scratch |-> scratch]
    ELSE [op |-> "average", divisor |-> divisor]

Queued == Len(stream)
RestartPending == Running("restart")

StreamShape ==
    /\ stream \in Seq(Operation)
    /\ pc \in {"start", "decide", "done"} => Idle
    /\ pc = "norm" => \A i \in 1 .. Queued : stream[i] = Op("norm")
    /\ pc = "loop" => Queued <= 1 /\ (~ Idle => RestartPending)
    /\ pc = "current" =>
          \A i \in 1 .. Queued :
              \/ stream[i] = WindowOp(adaptive, Queued - i)
              \/ i = 1 /\ RestartPending /\ Queued > 2 /\ (adaptive => Queued % 3 = 0)
    /\ pc = "average" =>
          /\ Queued <= 3
          /\ \A i \in 1 .. Queued :
                stream[i] = AverageOp(AverageScratch, Terms(accepted_total), Queued - i)
    /\ pc = "readback" =>
          /\ Queued <= 1
          /\ ~ Idle => IF outcome = "converged" THEN Now = Op("adopt") ELSE RestartPending

(***************************************************************************)
(* The ticket counter counts the blocks that left, and is zero again once  *)
(* the last of them did.                                                   *)
(***************************************************************************)
Reduces == ~ Idle /\ Now.op \in Reducing
Combined == Reduces /\ left = Blocks

TicketInv ==
    /\ left \subseteq wrote
    /\ IF Reduces THEN wrote \subseteq Blocks ELSE wrote = {}
    /\ retire = IF Reduces /\ DrawsTicket /\ left # Blocks THEN Cardinality(left) ELSE 0

(***************************************************************************)
(* Types of the buffers and of the host, and the counters the host keeps   *)
(* of what it queued: iteration bounds the steps the device accepts, and   *)
(* since is what it has summed, or still will, on the fixed path.          *)
(***************************************************************************)
Evaluations == [point : Nat, level : AllLevels, whole : BOOLEAN]

BufferTypes ==
    /\ extrapolated \in BOOLEAN
    /\ x \in Nat /\ prev \in Nat /\ serial \in Nat /\ x_bar \in Nat \X Nat
    /\ ax \in Nat /\ ax_prev \in Nat /\ ax_bar \in Nat /\ cand \in Nat /\ ax_cand \in Nat
    /\ step \in [accepted : BOOLEAN, accept_count : Nat]
    /\ sum \in Nat /\ x_avg \in [point : Nat, terms : Nat, divisor : Nat]
    /\ residuals \in Evaluations

HostTypes ==
    /\ adaptive \in Modes
    /\ pc \in {"start", "norm", "loop", "current", "average", "decide", "readback", "done"}
    /\ bound \in Bindings
    /\ mu_at_restart \in AllLevels /\ mu_previous \in AllLevels
    /\ current \in Evaluations /\ average \in Evaluations /\ best \in Evaluations
    /\ x_out \in Nat
    /\ outcome \in {"running", "converged", "time_limit", "cancelled", "budget"}
    /\ outcome # "running" <=> pc \in {"readback", "done"}

\* Probes queued whose verdict is not in accept_count yet.
ProbesLeft == IF pc = "current" /\ adaptive /\ ~ Idle
              THEN (Queued - 1) \div 3 - (IF Running("probe") /\ Combined THEN 1 ELSE 0)
              ELSE 0

CounterInv ==
    /\ iteration \in 0 .. MaxIterations /\ since \in 0 .. iteration /\ windows \in 0 .. iteration
    /\ accepted_at_restart \in Nat /\ accepted_total \in Nat
    /\ accepted_at_restart <= accepted_total /\ accepted_total <= step.accept_count
    /\ step.accept_count + ProbesLeft <= iteration
    /\ pc \in {"start", "norm"} => iteration = 0 /\ step.accept_count = 0
    /\ pc \in {"average", "decide", "loop"} /\ adaptive => accepted_total = step.accept_count
    /\ iteration % RestartPeriod = 0 => since = windows * RestartPeriod
    /\ iteration < MaxIterations => iteration % RestartPeriod = 0

\* The accepted step whose commit is still to come.
Judged == Running("commit") \/ (Running("probe") /\ Combined)
CommitLeft == IF Judged /\ step.accepted THEN 1 ELSE 0
FixedLeft == IF pc = "current" /\ Queued > 2
             THEN Queued - 2 - (IF RestartPending THEN 1 ELSE 0) ELSE 0

SumInv ==
    /\ adaptive /\ RestartPending => step.accept_count = accepted_at_restart
    /\ adaptive /\ ~ RestartPending => sum + CommitLeft = step.accept_count - accepted_at_restart
    /\ ~ adaptive /\ RestartPending => FixedLeft = since
    /\ ~ adaptive /\ ~ RestartPending => sum + FixedLeft = since
    /\ (pc = "average" /\ Queued < 3) \/ pc = "decide" =>
          x_avg.terms = sum /\ x_avg.divisor = Terms(accepted_total)

(***************************************************************************)
(* The products the next dual step extrapolates, whatever the evaluations  *)
(* in between bound and overwrote.                                         *)
(***************************************************************************)
AverageProduct ==
    \/ pc = "average" /\ Queued < 2
    \/ pc = "decide"
    \/ RestartPending /\ Now.from = "avg"

ProductInv ==
    /\ extrapolated
    /\ RestartPending => Now.from \in {"x", "avg"}
    /\ pc \notin {"start", "norm"} /\ adaptive => bound = "candidate"
    /\ adaptive /\ outcome # "converged" => ax = x /\ ax_prev = prev
    /\ Running("probe") \/ Running("commit") => ax_cand = cand
    /\ adaptive /\ AverageProduct => ax_bar = x_avg.point
    /\ ~ adaptive /\ outcome # "converged" => x_bar = <<x, prev>>

(***************************************************************************)
(* What an evaluation is of, from its last block to the host's answer.     *)
(***************************************************************************)
Of(e, point) == e.whole /\ e.point = point

EvaluationInv ==
    /\ Running("residuals") /\ Combined => Of(residuals, PointOf(Now.point))
    /\ pc = "current" /\ Idle => Of(residuals, x)
    /\ pc = "average" => Of(current, x)
    /\ pc = "average" /\ Idle => Of(residuals, x_avg.point)
    /\ pc = "decide" => /\ Of(current, x) /\ Of(average, x_avg.point)
                        /\ best = IF average.level < current.level THEN average ELSE current
    /\ outcome = "converged" => best.level = 0
    /\ pc = "readback" /\ outcome = "converged" => Of(best, IF Idle THEN x ELSE x_avg.point)
    /\ pc = "done" /\ outcome = "converged" => Of(best, x_out)

PdlpInv ==
    /\ StreamShape /\ TicketInv /\ BufferTypes /\ HostTypes /\ CounterInv
    /\ SumInv /\ ProductInv /\ EvaluationInv

-----------------------------------------------------------------------------
(***************************************************************************)
(* Lemmas about the queue.                                                 *)
(***************************************************************************)

\* Running the first operation shifts the others by one.
LEMMA TailFacts ==
    ASSUME NEW s \in Seq(Operation), s # <<>>
    PROVE  /\ Len(s) \in Nat \ {0} /\ Head(s) = s[1]
           /\ Tail(s) \in Seq(Operation) /\ Len(Tail(s)) = Len(s) - 1
           /\ \A i \in 1 .. Len(s) - 1 : Tail(s)[i] = s[i + 1]
<1>1. Len(s) \in Nat \ {0}
    BY EmptySeq
<1> QED
    BY <1>1, HeadTailProperties

\* How the operations of a window are spaced.
LEMMA WindowOps ==
    ASSUME NEW a \in BOOLEAN, NEW n \in Nat \ {0}
    PROVE  /\ n % 3 \in 0 .. 2
           /\ n = 1 => WindowOp(a, n - 1) = [op |-> "residuals", point |-> "x"]
           /\ n = 2 => WindowOp(a, n - 1) = [op |-> "product", point |-> "x", scratch |-> "ax"]
           /\ n > 2 /\ ~ a => WindowOp(a, n - 1) = Bound("fixed", "x_bar")
           /\ n > 2 /\ a =>
                 WindowOp(a, n - 1) = IF n % 3 = 0 THEN Op("commit") ELSE
                                   IF n % 3 = 1 THEN Op("probe")
                                   ELSE Bound("candidate", "candidate")
BY DEF WindowOp

\* The first operation tells the place the host has come to, and how many
\* operations follow.
HeadFacts ==
    /\ pc \in {"norm", "loop", "current", "average", "readback"}
    /\ Now.op \in {"norm", "probe", "commit", "adopt", "candidate", "fixed", "product",
                   "residuals", "average", "restart"}
    /\ Now.op = "norm" <=> pc = "norm"
    /\ Now.op = "adopt" <=> pc = "readback" /\ outcome = "converged"
    /\ Now.op = "candidate" => /\ pc = "current" /\ adaptive /\ Now.bound = "candidate"
                               /\ Queued > 2 /\ Queued % 3 = 2
    /\ Now.op = "probe" => pc = "current" /\ adaptive /\ Queued > 2 /\ Queued % 3 = 1
    /\ Now.op = "commit" => pc = "current" /\ adaptive /\ Queued > 2 /\ Queued % 3 = 0
    /\ Now.op = "fixed" => pc = "current" /\ ~ adaptive /\ Now.bound = "x_bar" /\ Queued > 2
    /\ Now.op = "product" =>
          /\ Queued = 2
          /\ \/ pc = "current" /\ Now.point = "x" /\ Now.scratch = "ax"
             \/ pc = "average" /\ Now.point = "avg" /\ Now.scratch = AverageScratch
    /\ Now.op = "residuals" => /\ Queued = 1
                               /\ \/ pc = "current" /\ Now.point = "x"
                                  \/ pc = "average" /\ Now.point = "avg"
    /\ Now.op = "average" => /\ pc = "average" /\ Queued = 3
                             /\ Now.divisor = Terms(accepted_total)
    /\ Now.op = "restart" =>
          \/ pc = "loop" /\ Queued = 1
          \/ pc = "readback" /\ Queued = 1 /\ outcome # "converged"
          \/ pc = "current" /\ Queued > 2 /\ (adaptive => Queued % 3 = 0)
    /\ Queued \in Nat \ {0}
    /\ pc = "average" => Queued <= 3
    /\ pc \in {"loop", "readback"} => Queued = 1
    /\ pc = "average" => Now.op = (IF Queued = 1 THEN "residuals"
                                   ELSE IF Queued = 2 THEN "product" ELSE "average")
    /\ pc = "current" =>
          \/ Now.op = "restart"
          \/ Now.op = IF Queued = 1 THEN "residuals" ELSE IF Queued = 2 THEN "product"
                      ELSE IF ~ adaptive THEN "fixed" ELSE IF Queued % 3 = 0 THEN "commit"
                      ELSE IF Queued % 3 = 1 THEN "probe" ELSE "candidate"

LEMMA HeadCases == HostTypes /\ StreamShape /\ ~ Idle => HeadFacts
<1> SUFFICES ASSUME HostTypes, StreamShape, ~ Idle PROVE HeadFacts
    OBVIOUS
<1>1. Queued \in Nat \ {0} /\ Now = stream[1] /\ 1 \in 1 .. Queued
    BY TailFacts DEF StreamShape, Idle, Now, Queued
<1>2. pc \in {"norm", "loop", "current", "average", "readback"} /\ adaptive \in BOOLEAN
    BY PdlpAssumption DEF HostTypes, StreamShape
<1>3. CASE pc = "norm"
    <2>1. Now = Op("norm")
        BY <1>1, <1>3 DEF StreamShape
    <2> QED
        BY <1>1, <1>3, <2>1 DEF HeadFacts, Op
<1>4. CASE pc = "loop"
    BY <1>1, <1>4 DEF StreamShape, HeadFacts, RestartPending, Running
<1>5. CASE pc = "current"
    <2>1. CASE RestartPending /\ Queued > 2 /\ (adaptive => Queued % 3 = 0)
        BY <1>1, <1>5, <2>1 DEF HeadFacts, RestartPending, Running
    <2>2. CASE Now = WindowOp(adaptive, Queued - 1)
        <3>1. CASE Queued = 1 \/ Queued = 2
            BY <1>1, <1>2, <1>5, <2>2, <3>1, WindowOps DEF HeadFacts
        <3>2. CASE Queued > 2 /\ ~ adaptive
            BY <1>1, <1>2, <1>5, <2>2, <3>2, WindowOps DEF HeadFacts, Bound
        <3>3. CASE Queued > 2 /\ adaptive
            <4>1. /\ Queued % 3 \in 0 .. 2
                  /\ Now = IF Queued % 3 = 0 THEN Op("commit") ELSE
                           IF Queued % 3 = 1 THEN Op("probe") ELSE Bound("candidate", "candidate")
                BY <1>1, <1>2, <2>2, <3>3, WindowOps
            <4> QED
                BY <1>1, <1>5, <3>3, <4>1 DEF HeadFacts, Bound, Op
        <3> QED
            BY <1>1, <3>1, <3>2, <3>3
    <2> QED
        BY <1>1, <1>5, <2>1, <2>2 DEF StreamShape
<1>6. CASE pc = "average"
    <2>1. Queued \in 1 .. 3 /\ Now = AverageOp(AverageScratch, Terms(accepted_total), Queued - 1)
        BY <1>1, <1>6 DEF StreamShape
    <2> QED
        BY <1>6, <2>1 DEF HeadFacts, AverageOp
<1>7. CASE pc = "readback"
    BY <1>1, <1>7 DEF StreamShape, HeadFacts, RestartPending, Running, Op
<1> QED
    BY <1>2, <1>3, <1>4, <1>5, <1>6, <1>7

LEMMA HeadCasesAfter == HostTypes' /\ StreamShape' /\ ~ Idle' => HeadFacts'
BY HeadCases, PTL

-----------------------------------------------------------------------------
(***************************************************************************)
(* The operations of the device.                                           *)
(***************************************************************************)

\* What follows from running the first operation to its end.
Popped ==
    /\ stream' = Tail(stream) /\ wrote' = {} /\ left' = {} /\ retire' = 0
    /\ UNCHANGED <<adaptive, host>>

AfterPop ==
    /\ HeadFacts /\ (Idle' \/ HeadFacts') /\ StreamShape' /\ TicketInv' /\ HostTypes'
    /\ Queued \in Nat \ {0} /\ Queued' = Queued - 1 /\ (Idle' <=> Queued = 1)
    /\ ~ RestartPending' /\ ~ Combined'

LEMMA PopShape ==
    ASSUME StreamShape, HostTypes, ~ Idle, Popped
    PROVE  /\ StreamShape' /\ Queued \in Nat \ {0} /\ Queued' = Queued - 1
           /\ (Idle' <=> Queued = 1) /\ ~ RestartPending'
<1>1. /\ Queued \in Nat \ {0} /\ Queued' = Queued - 1 /\ stream' \in Seq(Operation)
      /\ \A i \in 1 .. Queued' : stream'[i] = stream[i + 1] /\ i + 1 \in 1 .. Queued /\ i + 1 # 1
                                  /\ Queued - (i + 1) = Queued' - i
    BY TailFacts DEF StreamShape, Idle, Queued, Popped
<1>2. Idle' <=> Queued = 1
    BY <1>1, EmptySeq DEF Idle, Queued
<1>3. HeadFacts
    BY HeadCases
<1>4. UNCHANGED <<adaptive, pc, outcome, accepted_total, accepted_at_restart, windows>>
    BY DEF Popped, host, counters
<1>5. CASE pc = "norm"
    <2>1. StreamShape'
        BY <1>1, <1>4, <1>5 DEF StreamShape, Op
    <2>2. ~ Idle' => HeadFacts'
        BY <2>1, <1>4, HeadCasesAfter DEF HostTypes, Popped, host, counters
    <2> QED
        BY <1>1, <1>2, <1>4, <1>5, <2>1, <2>2 DEF HeadFacts, RestartPending, Running
<1>6. CASE pc = "current"
    <2>1. ASSUME NEW i \in 1 .. Queued' PROVE stream'[i] = WindowOp(adaptive, Queued' - i)
        <3>1. stream'[i] = stream[i + 1] /\ i + 1 \in 1 .. Queued /\ i + 1 # 1
              /\ Queued - (i + 1) = Queued' - i
            BY <1>1
        <3>2. stream[i + 1] = WindowOp(adaptive, Queued - (i + 1))
            BY <3>1, <1>6 DEF StreamShape
        <3> QED
            BY <3>1, <3>2
    <2>3. StreamShape'
        BY <1>1, <1>4, <1>6, <2>1 DEF StreamShape
    <2>4. ~ Idle' => Now' = WindowOp(adaptive, Queued' - 1)
        <3> SUFFICES ASSUME ~ Idle' PROVE Now' = WindowOp(adaptive, Queued' - 1)
            OBVIOUS
        <3>1. Now' = stream'[1] /\ 1 \in 1 .. Queued'
            BY <1>1, <1>2, TailFacts DEF Now, Idle
        <3> QED
            BY <3>1, <2>1
    <2>5. ~ Idle' => Now'.op # "restart"
        <3> SUFFICES ASSUME ~ Idle' PROVE Now'.op # "restart"
            OBVIOUS
        <3>1. Queued' \in Nat \ {0} /\ adaptive \in BOOLEAN
            BY <1>1, <1>2, PdlpAssumption DEF HostTypes
        <3>2. Now' = WindowOp(adaptive, Queued' - 1)
            BY <2>4
        <3> QED
            BY <3>1, <3>2 DEF WindowOp, Op, Bound
    <2> QED
        BY <1>1, <1>2, <2>3, <2>5 DEF RestartPending, Running
<1>7. CASE pc = "average"
    <2>1. ASSUME NEW i \in 1 .. Queued'
          PROVE  stream'[i] = AverageOp(AverageScratch, Terms(accepted_total), Queued' - i)
        <3>1. stream'[i] = stream[i + 1] /\ i + 1 \in 1 .. Queued
              /\ Queued - (i + 1) = Queued' - i
            BY <1>1
        <3>2. stream[i + 1] = AverageOp(AverageScratch, Terms(accepted_total), Queued - (i + 1))
            BY <3>1, <1>7 DEF StreamShape
        <3> QED
            BY <3>1, <3>2
    <2>2. AverageScratch' = AverageScratch /\ Terms(accepted_total)' = Terms(accepted_total)
        BY <1>4 DEF AverageScratch, Terms, AtLeastOne
    <2>3. StreamShape'
        BY <1>1, <1>3, <1>4, <1>7, <2>1, <2>2 DEF StreamShape, HeadFacts
    <2>4. ~ Idle' => HeadFacts'
        BY <2>3, <1>4, HeadCasesAfter DEF HostTypes, Popped, host, counters
    <2> QED
        BY <1>1, <1>2, <1>4, <1>7, <2>3, <2>4 DEF HeadFacts, RestartPending, Running
<1>8. CASE pc \in {"loop", "readback"}
    <2>1. Queued = 1
        BY <1>3, <1>8 DEF HeadFacts
    <2> QED
        BY <1>1, <1>2, <1>4, <1>8, <2>1 DEF StreamShape, RestartPending, Running
<1> QED
    BY <1>3, <1>5, <1>6, <1>7, <1>8 DEF HeadFacts

\* A kernel starts with no block of it gone and the counter at zero.
LEMMA TicketsReset == wrote' = {} /\ left' = {} /\ retire' = 0 => TicketInv' /\ ~ Combined'
<1> SUFFICES ASSUME wrote' = {}, left' = {}, retire' = 0 PROVE TicketInv' /\ ~ Combined'
    OBVIOUS
<1>1. Grid' \in Nat \ {0}
    BY PdlpAssumption DEF Grid
<1>2. 1 \in Blocks'
    BY <1>1 DEF Blocks
<1> QED
    BY <1>2, FS_EmptySet DEF TicketInv, Combined

LEMMA PopStep == PdlpInv /\ ~ Idle /\ Popped => AfterPop
<1> SUFFICES ASSUME PdlpInv, ~ Idle, Popped PROVE AfterPop
    OBVIOUS
<1>1. StreamShape /\ HostTypes
    BY DEF PdlpInv
<1>2. /\ StreamShape' /\ Queued \in Nat \ {0} /\ Queued' = Queued - 1
      /\ (Idle' <=> Queued = 1) /\ ~ RestartPending'
    BY <1>1, PopShape
<1>3. HostTypes'
    BY <1>1 DEF HostTypes, Popped, host, counters
<1>4. TicketInv' /\ ~ Combined'
    BY TicketsReset DEF Popped
<1> QED
    BY <1>1, <1>2, <1>3, <1>4, HeadCases, HeadCasesAfter DEF AfterPop

-----------------------------------------------------------------------------
(***************************************************************************)
(* Elementwise kernels, products and copies: one lemma each.               *)
(***************************************************************************)
LEMMA Thirds ==
    ASSUME NEW n \in Nat, n >= 2
    PROVE  /\ (n - 1) \div 3 \in Nat /\ (n - 2) \div 3 \in Nat
           /\ (n - 2) \div 3 <= (n - 1) \div 3
           /\ n % 3 = 1 => (n - 2) \div 3 = (n - 1) \div 3 - 1
OBVIOUS

\* Only reductions leave blocks behind.
LEMMA PopIsPopped == PdlpInv /\ ~ Idle /\ Now.op \notin Reducing /\ Pop => Popped
BY DEF PdlpInv, TicketInv, Pop, Popped, Reduces

\* What is left to be counted never grows while the device runs.
LEMMA CounterPop == PdlpInv /\ ~ Idle /\ Popped /\ UNCHANGED step => CounterInv'
<1> SUFFICES ASSUME PdlpInv, ~ Idle, Popped, UNCHANGED step PROVE CounterInv'
    OBVIOUS
<1>1. AfterPop
    BY PopStep
<1>2. UNCHANGED <<adaptive, pc, iteration, windows, since, accepted_total, accepted_at_restart>>
    BY DEF Popped, host, counters
<1>3. CounterInv /\ step.accept_count \in Nat
    BY DEF PdlpInv, BufferTypes
<1>4. ProbesLeft' <= ProbesLeft /\ ProbesLeft' \in Nat /\ ProbesLeft \in Int
    <2>1. CASE pc = "current" /\ adaptive /\ ~ Idle'
        <3>1. Queued \in Nat /\ Queued >= 2 /\ Queued' = Queued - 1
            BY <1>1, <2>1 DEF AfterPop
        <3>2. ProbesLeft' = (Queued - 2) \div 3
            BY <1>1, <1>2, <2>1, <3>1 DEF AfterPop, ProbesLeft
        <3>3. Running("probe") => Queued % 3 = 1
            BY <1>1 DEF AfterPop, HeadFacts, Running
        <3>4. ProbesLeft = (Queued - 1) \div 3 - (IF Running("probe") /\ Combined THEN 1 ELSE 0)
            BY <2>1 DEF ProbesLeft
        <3> QED
            BY <3>1, <3>2, <3>3, <3>4, Thirds
    <2>2. CASE ~ (pc = "current" /\ adaptive /\ ~ Idle')
        <3>1. ProbesLeft' = 0
            BY <1>2, <2>2 DEF ProbesLeft
        <3>2. CASE pc = "current" /\ adaptive
            <4>1. Queued = 1 /\ ~ Running("probe")
                BY <1>1, <2>2, <3>2 DEF AfterPop, HeadFacts, Running
            <4>2. (Queued - 1) \div 3 = 0
                BY <4>1
            <4>3. ProbesLeft = (Queued - 1) \div 3 - 0
                BY <4>1, <3>2 DEF ProbesLeft
            <4> QED
                BY <3>1, <4>2, <4>3
        <3>3. CASE ~ (pc = "current" /\ adaptive)
            BY <3>1, <3>3 DEF ProbesLeft
        <3> QED
            BY <3>2, <3>3
    <2> QED
        BY <2>1, <2>2
<1> HIDE DEF ProbesLeft
<1> QED
    BY <1>2, <1>3, <1>4, PdlpAssumption DEF CounterInv

\* The candidate extrapolates the iterate and, bound as it is, gets its own product.
LEMMA CandidateRuns == PdlpInv /\ Candidate => PdlpInv'
<1> SUFFICES ASSUME PdlpInv, Candidate PROVE PdlpInv'
    OBVIOUS
<1>1. ~ Idle /\ Now.op = "candidate" /\ Popped /\ AfterPop
    BY PopIsPopped, PopStep DEF Candidate, Running, Reducing
<1>2. CounterInv'
    BY <1>1, CounterPop DEF Candidate
<1>3. /\ UNCHANGED <<adaptive, pc, bound, outcome, since, accepted_at_restart, best, current, x_out>>
      /\ pc = "current" /\ adaptive /\ Now.bound = "candidate" /\ Queued > 2 /\ Queued % 3 = 2
      /\ HeadFacts' /\ Queued' = Queued - 1 /\ ~ Idle'
    BY <1>1 DEF Popped, host, counters, AfterPop, HeadFacts
<1>4. BufferTypes'
    BY <1>3 DEF PdlpInv, BufferTypes, Candidate
<1>5. outcome = "running"
    BY <1>3 DEF PdlpInv, HostTypes
<1>6. ProductInv'
    BY <1>1, <1>3, <1>5 DEF PdlpInv, ProductInv, Candidate, AverageProduct, AfterPop
<1>7. SumInv'
    <2>1. ~ Judged /\ ~ Judged' /\ ~ RestartPending /\ ~ RestartPending'
        BY <1>1, <1>3 DEF Judged, RestartPending, Running, HeadFacts, AfterPop
    <2> QED
        BY <1>3, <2>1 DEF PdlpInv, SumInv, Candidate, CommitLeft
<1>8. EvaluationInv'
    BY <1>1, <1>3, <1>5 DEF PdlpInv, EvaluationInv, AfterPop
<1> QED
    BY <1>1, <1>2, <1>4, <1>6, <1>7, <1>8 DEF PdlpInv, AfterPop

\* A step is committed with the products that go with it.
LEMMA CommitRuns == PdlpInv /\ Commit => PdlpInv'
<1> SUFFICES ASSUME PdlpInv, Commit PROVE PdlpInv'
    OBVIOUS
<1>1. ~ Idle /\ Now.op = "commit" /\ Popped /\ AfterPop
    BY PopIsPopped, PopStep DEF Commit, Running, Reducing
<1>2. CounterInv'
    BY <1>1, CounterPop DEF Commit
<1>3. /\ UNCHANGED <<adaptive, pc, bound, outcome, since, windows, accepted_total, accepted_at_restart,
                  current, average, best, x_out>>
      /\ pc = "current" /\ adaptive /\ Queued > 2 /\ Queued % 3 = 0
      /\ HeadFacts' /\ Queued' = Queued - 1 /\ ~ Idle' /\ Queued' % 3 = 2
    BY <1>1 DEF Popped, host, counters, AfterPop, HeadFacts
<1>4. BufferTypes'
    BY <1>1, <1>3 DEF PdlpInv, BufferTypes, Commit, PointOf, AfterPop
<1>5. outcome = "running"
    BY <1>3 DEF PdlpInv, HostTypes
<1>6. ProductInv'
    BY <1>1, <1>3, <1>5 DEF PdlpInv, ProductInv, Commit, AverageProduct, AfterPop, HeadFacts, Running
<1>7. SumInv'
    <2>1. Judged /\ ~ Judged' /\ ~ RestartPending /\ ~ RestartPending'
        BY <1>1, <1>3 DEF Judged, RestartPending, Running, HeadFacts, AfterPop
    <2>2. step \in [accepted : BOOLEAN, accept_count : Nat] /\ sum \in Nat /\ accepted_at_restart \in Nat
        BY DEF PdlpInv, BufferTypes, CounterInv
    <2> QED
        BY <1>3, <2>1, <2>2 DEF PdlpInv, SumInv, Commit, CommitLeft
<1>8. EvaluationInv'
    BY <1>1, <1>3, <1>5 DEF PdlpInv, EvaluationInv, AfterPop
<1> QED
    BY <1>1, <1>2, <1>4, <1>6, <1>7, <1>8 DEF PdlpInv, AfterPop

\* The fixed step extrapolates the iterate, and sums what it makes.
LEMMA FixedRuns == PdlpInv /\ Fixed => PdlpInv'
<1> SUFFICES ASSUME PdlpInv, Fixed PROVE PdlpInv'
    OBVIOUS
<1>1. ~ Idle /\ Now.op = "fixed" /\ Popped /\ AfterPop
    BY PopIsPopped, PopStep DEF Fixed, Running, Reducing
<1>2. CounterInv'
    BY <1>1, CounterPop DEF Fixed
<1>3. /\ UNCHANGED <<adaptive, pc, bound, outcome, since, windows, accepted_total, accepted_at_restart,
                  current, average, best, x_out>>
      /\ pc = "current" /\ ~ adaptive /\ Queued > 2 /\ Now.bound = "x_bar"
      /\ HeadFacts' /\ Queued' = Queued - 1 /\ ~ Idle'
    BY <1>1 DEF Popped, host, counters, AfterPop, HeadFacts
<1>4. BufferTypes'
    BY <1>1, <1>3 DEF PdlpInv, BufferTypes, Fixed, PointOf, AfterPop
<1>5. outcome = "running"
    BY <1>3 DEF PdlpInv, HostTypes
<1>6. ProductInv'
    BY <1>1, <1>3, <1>5 DEF PdlpInv, ProductInv, Fixed, AverageProduct, AfterPop, HeadFacts, Running
<1>7. SumInv'
    <2>1. ~ RestartPending /\ ~ RestartPending'
        BY <1>1, <1>3 DEF RestartPending, Running, AfterPop
    <2>2. sum \in Nat /\ FixedLeft = Queued - 2 /\ FixedLeft' = Queued - 3 /\ Queued \in Nat
        BY <1>1, <1>3, <2>1 DEF PdlpInv, BufferTypes, FixedLeft, AfterPop
    <2> HIDE DEF FixedLeft
    <2> QED
        BY <1>3, <2>1, <2>2 DEF PdlpInv, SumInv, Fixed
<1>8. EvaluationInv'
    BY <1>1, <1>3, <1>5 DEF PdlpInv, EvaluationInv, AfterPop
<1> QED
    BY <1>1, <1>2, <1>4, <1>6, <1>7, <1>8 DEF PdlpInv, AfterPop

\* The product of an evaluation keeps those of the iterate or leaves them alone.
LEMMA ProductRuns == PdlpInv /\ Product => PdlpInv'
<1> SUFFICES ASSUME PdlpInv, Product PROVE PdlpInv'
    OBVIOUS
<1>1. ~ Idle /\ Now.op = "product" /\ Popped /\ AfterPop
    BY PopIsPopped, PopStep DEF Product, Running, Reducing
<1>2. CounterInv'
    BY <1>1, CounterPop DEF Product
<1>3. /\ UNCHANGED <<adaptive, pc, bound, outcome, since, windows, accepted_total, accepted_at_restart,
                  current, average, best, x_out>>
      /\ Queued = 2 /\ Queued' = 1 /\ HeadFacts' /\ ~ Idle'
      /\ \/ pc = "current" /\ Now.point = "x" /\ Now.scratch = "ax"
         \/ pc = "average" /\ Now.point = "avg" /\ Now.scratch = AverageScratch
    BY <1>1 DEF Popped, host, counters, AfterPop, HeadFacts
<1>4. BufferTypes'
    BY <1>1, <1>3 DEF PdlpInv, BufferTypes, Product, PointOf, AfterPop
<1>5. outcome = "running"
    BY <1>3 DEF PdlpInv, HostTypes
<1>6. ProductInv'
    BY <1>1, <1>3, <1>5 DEF PdlpInv, ProductInv, Product, AverageProduct, AfterPop, HeadFacts, Running,
       PointOf, AverageScratch
<1>7. SumInv'
    <2>1. ~ Judged /\ ~ Judged' /\ ~ RestartPending /\ ~ RestartPending'
        BY <1>1, <1>3 DEF Judged, RestartPending, Running, HeadFacts, AfterPop
    <2>2. CommitLeft = 0 /\ CommitLeft' = 0
        BY <2>1 DEF CommitLeft
    <2>3. FixedLeft = 0 /\ FixedLeft' = 0
        BY <1>3 DEF FixedLeft
    <2>4. Terms(accepted_total)' = Terms(accepted_total)
        BY <1>3 DEF Terms, AtLeastOne
    <2> HIDE DEF CommitLeft, FixedLeft
    <2> QED
        BY <1>3, <2>1, <2>2, <2>3, <2>4 DEF PdlpInv, SumInv, Product
<1>8. EvaluationInv'
    BY <1>1, <1>3, <1>5 DEF PdlpInv, EvaluationInv, AfterPop, Product
<1> QED
    BY <1>1, <1>2, <1>4, <1>6, <1>7, <1>8 DEF PdlpInv, AfterPop

\* Terms() of a window is a number of iterations.
LEMMA DivisorIsNatural == PdlpInv => Terms(accepted_total) \in Nat
BY PdlpAssumption DEF PdlpInv, CounterInv, Terms, AtLeastOne

\* The average is of the terms summed, by the divisor queued with it.
LEMMA AverageRuns == PdlpInv /\ Average => PdlpInv'
<1> SUFFICES ASSUME PdlpInv, Average PROVE PdlpInv'
    OBVIOUS
<1>1. ~ Idle /\ Now.op = "average" /\ Popped /\ AfterPop
    BY PopIsPopped, PopStep DEF Average, Running, Reducing
<1>2. CounterInv'
    BY <1>1, CounterPop DEF Average
<1>3. /\ UNCHANGED <<adaptive, pc, bound, outcome, since, windows, accepted_total, accepted_at_restart,
                  current, average, best, x_out>>
      /\ Queued = 3 /\ Queued' = 2 /\ HeadFacts' /\ ~ Idle' /\ pc = "average"
      /\ Now.divisor = Terms(accepted_total) /\ Now.divisor \in Nat
    BY <1>1, DivisorIsNatural DEF Popped, host, counters, AfterPop, HeadFacts
<1>4. BufferTypes'
    BY <1>1, <1>3 DEF PdlpInv, BufferTypes, Average, PointOf, AfterPop
<1>5. outcome = "running"
    BY <1>3 DEF PdlpInv, HostTypes
<1>6. ProductInv'
    BY <1>1, <1>3, <1>5 DEF PdlpInv, ProductInv, Average, AverageProduct, AfterPop, HeadFacts, Running
<1>7. SumInv'
    <2>1. ~ Judged /\ ~ Judged' /\ ~ RestartPending /\ ~ RestartPending'
        BY <1>1, <1>3 DEF Judged, RestartPending, Running, HeadFacts, AfterPop
    <2>2. CommitLeft = 0 /\ CommitLeft' = 0
        BY <2>1 DEF CommitLeft
    <2>3. FixedLeft = 0 /\ FixedLeft' = 0
        BY <1>3 DEF FixedLeft
    <2>4. Terms(accepted_total)' = Terms(accepted_total)
        BY <1>3 DEF Terms, AtLeastOne
    <2> HIDE DEF CommitLeft, FixedLeft
    <2> QED
        BY <1>3, <2>1, <2>2, <2>3, <2>4 DEF PdlpInv, SumInv, Average
<1>8. EvaluationInv'
    BY <1>1, <1>3, <1>5 DEF PdlpInv, EvaluationInv, AfterPop, Average
<1> QED
    BY <1>1, <1>2, <1>4, <1>6, <1>7, <1>8 DEF PdlpInv, AfterPop

\* A restart copies the point, its product and nothing of the sums.
LEMMA RestartedRuns == PdlpInv /\ Restarted => PdlpInv'
<1> SUFFICES ASSUME PdlpInv, Restarted PROVE PdlpInv'
    OBVIOUS
<1>1. ~ Idle /\ Now.op = "restart" /\ Popped /\ AfterPop
    BY PopIsPopped, PopStep DEF Restarted, Running, Reducing
<1>2. CounterInv'
    BY <1>1, CounterPop DEF Restarted
<1>3. /\ UNCHANGED <<adaptive, pc, bound, outcome, since, windows, accepted_total, accepted_at_restart,
                  current, average, best, x_out>>
      /\ \/ pc = "loop" /\ Queued = 1
         \/ pc = "readback" /\ Queued = 1 /\ outcome # "converged"
         \/ pc = "current" /\ Queued > 2 /\ ~ Idle' /\ (adaptive => Queued % 3 = 0)
      /\ Queued \in Nat /\ Queued' = Queued - 1 /\ pc \notin {"average", "decide", "done"}
    BY <1>1 DEF Popped, host, counters, AfterPop, HeadFacts
<1>4. BufferTypes'
    BY <1>1, <1>3 DEF PdlpInv, BufferTypes, Restarted, PointOf, AfterPop
<1>5. ~ Running("probe")' /\ ~ Running("commit")' /\ RestartPending /\ ~ RestartPending'
    <2>1. CASE Idle'
        BY <1>1, <2>1 DEF Running, RestartPending
    <2>2. CASE ~ Idle'
        <3>1. pc = "current" /\ (adaptive => Queued' % 3 = 2)
            BY <1>1, <1>3, <2>2 DEF AfterPop
        <3>2. HeadFacts' /\ ~ RestartPending'
            BY <1>1, <2>2 DEF AfterPop
        <3> QED
            BY <1>1, <1>3, <3>1, <3>2 DEF HeadFacts, Running, RestartPending
    <2> QED
        BY <2>1, <2>2
<1>6. ProductInv'
    <2>1. Now.from \in {"x", "avg"}
        BY <1>5 DEF PdlpInv, ProductInv
    <2>2. outcome # "converged" /\ pc \notin {"start", "norm"}
        BY <1>3 DEF PdlpInv, HostTypes
    <2>3. ~ AverageProduct'
        BY <1>3, <1>5 DEF AverageProduct
    <2>4. adaptive => ax' = x' /\ ax_prev' = prev'
        BY <1>1, <1>5, <2>1, <2>2 DEF PdlpInv, ProductInv, Restarted, AverageProduct, PointOf,
           RestartPending, HeadFacts, AfterPop
    <2>5. extrapolated' /\ x_bar' = <<x', prev'>>
        BY DEF PdlpInv, ProductInv, Restarted
    <2> QED
        BY <1>3, <1>5, <2>2, <2>3, <2>4, <2>5 DEF PdlpInv, ProductInv
<1>7. SumInv'
    <2>1. ~ Judged' /\ RestartPending /\ ~ RestartPending'
        BY <1>5 DEF Judged
    <2>2. CommitLeft' = 0
        BY <2>1 DEF CommitLeft
    <2>3. FixedLeft' = FixedLeft /\ FixedLeft \in Nat
        BY <1>1, <1>3, <2>1 DEF FixedLeft, AfterPop
    <2>4. step.accept_count \in Nat
        BY DEF PdlpInv, BufferTypes
    <2> HIDE DEF CommitLeft, FixedLeft
    <2> QED
        BY <1>3, <2>1, <2>2, <2>3, <2>4 DEF PdlpInv, SumInv, Restarted
<1>8. EvaluationInv'
    BY <1>1, <1>3 DEF PdlpInv, EvaluationInv, AfterPop, Restarted, HostTypes
<1> QED
    BY <1>1, <1>2, <1>4, <1>6, <1>7, <1>8 DEF PdlpInv, AfterPop

\* The average that converged becomes the iterate.
LEMMA AdoptRuns == PdlpInv /\ Adopt => PdlpInv'
<1> SUFFICES ASSUME PdlpInv, Adopt PROVE PdlpInv'
    OBVIOUS
<1>1. ~ Idle /\ Now.op = "adopt" /\ Popped /\ AfterPop
    BY PopIsPopped, PopStep DEF Adopt, Running, Reducing
<1>2. CounterInv'
    BY <1>1, CounterPop DEF Adopt
<1>3. /\ UNCHANGED <<adaptive, pc, bound, outcome, since, windows, accepted_total, accepted_at_restart,
                  current, average, best, x_out>>
      /\ pc = "readback" /\ outcome = "converged" /\ Queued = 1 /\ Queued' = 0 /\ Idle'
    BY <1>1 DEF Popped, host, counters, AfterPop, HeadFacts
<1>4. BufferTypes'
    BY <1>1, <1>3 DEF PdlpInv, BufferTypes, Adopt, PointOf, AfterPop
<1>6. ProductInv'
    BY <1>1, <1>3 DEF PdlpInv, ProductInv, Adopt, AverageProduct, AfterPop, Running, RestartPending
<1>7. SumInv'
    <2>1. ~ Judged /\ ~ Judged' /\ ~ RestartPending /\ ~ RestartPending'
        BY <1>1, <1>3 DEF Judged, RestartPending, Running, HeadFacts, AfterPop
    <2>2. CommitLeft = 0 /\ CommitLeft' = 0
        BY <2>1 DEF CommitLeft
    <2>3. FixedLeft = 0 /\ FixedLeft' = 0
        BY <1>3 DEF FixedLeft
    <2> HIDE DEF CommitLeft, FixedLeft
    <2> QED
        BY <1>3, <2>1, <2>2, <2>3 DEF PdlpInv, SumInv, Adopt
<1>8. EvaluationInv'
    BY <1>1, <1>3 DEF PdlpInv, EvaluationInv, AfterPop, Adopt, HeadFacts
<1> QED
    BY <1>1, <1>2, <1>4, <1>6, <1>7, <1>8 DEF PdlpInv, AfterPop

-----------------------------------------------------------------------------
(***************************************************************************)
(* Reductions.                                                             *)
(***************************************************************************)

\* A kernel ends with its partials combined; its ticket counter is clear.
LEMMA KernelEndsRuns == PdlpInv /\ KernelEnds => PdlpInv'
<1> SUFFICES ASSUME PdlpInv, KernelEnds PROVE PdlpInv'
    OBVIOUS
<1>1. ~ Idle /\ Now.op \in Reducing /\ Combined /\ Popped /\ AfterPop
    <2>1. ~ Idle /\ Combined /\ Popped
        BY DEF PdlpInv, KernelEnds, TicketInv, Popped, Combined, Reduces
    <2> QED
        BY <2>1, PopStep DEF KernelEnds
<1>2. CounterInv'
    BY <1>1, CounterPop DEF KernelEnds, buffers
<1>3. UNCHANGED <<adaptive, pc, bound, outcome, since, windows, accepted_total, accepted_at_restart,
                  current, average, best, x_out, x, prev, serial, x_bar, ax, ax_prev, ax_bar, cand,
                  ax_cand, step, sum, x_avg, residuals, extrapolated>>
    BY <1>1 DEF Popped, host, counters, KernelEnds, buffers
<1>4. BufferTypes'
    BY <1>3 DEF PdlpInv, BufferTypes
<1>5. /\ ~ RestartPending /\ ~ RestartPending' /\ pc \in {"norm", "current", "average"}
      /\ Running("commit")' => Running("probe")
      /\ ~ Running("probe")' /\ ~ Running("commit")
    <2>1. ~ RestartPending /\ ~ Running("commit")
        BY <1>1 DEF Running, RestartPending, Reducing
    <2>2. pc \in {"norm", "current", "average"}
        BY <1>1 DEF AfterPop, HeadFacts, Reducing
    <2>3. CASE Idle'
        BY <1>1, <2>1, <2>2, <2>3 DEF Running, AfterPop
    <2>4. CASE ~ Idle' /\ Now.op = "norm"
        BY <1>1, <1>3, <2>1, <2>2, <2>4 DEF Running, AfterPop, HeadFacts
    <2>5. CASE ~ Idle' /\ Now.op = "probe"
        BY <1>1, <1>3, <2>1, <2>2, <2>5 DEF Running, AfterPop, HeadFacts
    <2>6. CASE ~ Idle' /\ Now.op = "residuals"
        BY <1>1, <1>3, <2>1, <2>2, <2>6 DEF Running, AfterPop, HeadFacts
    <2> QED
        BY <1>1, <2>3, <2>4, <2>5, <2>6 DEF Reducing
<1>6. outcome = "running"
    BY <1>5 DEF PdlpInv, HostTypes
<1>7. AverageProduct' => AverageProduct
    <2>1. pc = "average" => Queued = 1
        BY <1>1 DEF AfterPop, HeadFacts, Reducing
    <2> QED
        BY <1>3, <1>5, <2>1 DEF AverageProduct
<1>8. ProductInv'
    BY <1>3, <1>5, <1>6, <1>7 DEF PdlpInv, ProductInv
<1>9. SumInv'
    <2>1. CommitLeft' = CommitLeft
        <3>1. Judged' <=> Judged
            <4>1. Judged => Running("probe")
                BY <1>5 DEF Judged
            <4>2. Running("probe") => Running("commit")'
                <5> SUFFICES ASSUME Running("probe") PROVE Running("commit")'
                    OBVIOUS
                <5>1. /\ pc' = "current" /\ adaptive' /\ Queued' > 2 /\ Queued' % 3 = 0
                      /\ ~ Idle' /\ HeadFacts'
                    BY <1>1, <1>3 DEF AfterPop, HeadFacts, Running
                <5> QED
                    BY <1>5, <5>1 DEF HeadFacts, Running, RestartPending
            <4>3. Running("probe") => Judged
                BY <1>1 DEF Judged
            <4> QED
                BY <1>5, <4>1, <4>2, <4>3 DEF Judged
        <3> QED
            BY <1>3, <3>1 DEF CommitLeft
    <2>2. ~ adaptive => FixedLeft' = FixedLeft
        <3>1. ~ adaptive /\ pc = "current" => Queued = 1
            BY <1>1 DEF AfterPop, HeadFacts, Reducing
        <3> QED
            BY <1>1, <1>3, <3>1 DEF FixedLeft, AfterPop
    <2>3. Terms(accepted_total)' = Terms(accepted_total)
        BY <1>3 DEF Terms, AtLeastOne
    <2>4. pc = "average" => Queued = 1
        BY <1>1 DEF AfterPop, HeadFacts, Reducing
    <2> HIDE DEF CommitLeft, FixedLeft
    <2> QED
        BY <1>3, <1>5, <2>1, <2>2, <2>3, <2>4 DEF PdlpInv, SumInv
<1>10. EvaluationInv'
    <2>1. ~ Idle' => ~ Running("residuals")
        BY <1>1 DEF AfterPop, HeadFacts, Running
    <2>2. CASE Running("residuals")
        <3>1. /\ Idle' /\ \/ pc = "current" /\ Now.point = "x"
                          \/ pc = "average" /\ Now.point = "avg"
            BY <1>1, <2>2 DEF AfterPop, HeadFacts, Running
        <3>2. Of(residuals, PointOf(Now.point))
            BY <1>1, <2>2 DEF PdlpInv, EvaluationInv
        <3> QED
            BY <1>1, <1>3, <1>6, <3>1, <3>2 DEF PdlpInv, EvaluationInv, AfterPop, PointOf, Of
    <2>3. CASE ~ Running("residuals")
        <3>1. pc \in {"norm", "current"} /\ (pc = "current" => ~ Idle')
            BY <1>1, <2>3 DEF AfterPop, HeadFacts, Running, Reducing
        <3> QED
            BY <1>1, <1>3, <1>6, <3>1 DEF PdlpInv, EvaluationInv, AfterPop
    <2> QED
        BY <2>2, <2>3
<1> QED
    BY <1>1, <1>2, <1>4, <1>8, <1>9, <1>10 DEF PdlpInv, AfterPop

\* A block that writes its partials changes nothing the invariant looks at but the set.
LEMMA BlockWritesRuns == ASSUME NEW b PROVE PdlpInv /\ BlockWrites(b) => PdlpInv'
<1> SUFFICES ASSUME PdlpInv, BlockWrites(b) PROVE PdlpInv'
    OBVIOUS
<1>1. /\ UNCHANGED <<adaptive, stream, left, retire, buffers, host>>
      /\ wrote' = wrote \cup {b} /\ b \in Blocks /\ Reduces
    BY DEF BlockWrites, Reduces
<1>2. UNCHANGED <<Idle, Now, Queued, Reduces, Blocks, DrawsTicket, Combined, RestartPending>>
    BY <1>1 DEF Idle, Now, Queued, Reduces, Blocks, Grid, DrawsTicket, Combined, RestartPending,
       Running
<1>3. TicketInv'
    BY <1>1, <1>2 DEF PdlpInv, TicketInv
<1>4. StreamShape'
    BY <1>1, <1>2 DEF PdlpInv, StreamShape, host, counters, AverageScratch, Terms, AtLeastOne
<1>5. BufferTypes' /\ HostTypes'
    BY <1>1 DEF PdlpInv, BufferTypes, HostTypes, buffers, host, counters
<1>6. CounterInv'
    BY <1>1, <1>2 DEF PdlpInv, CounterInv, ProbesLeft, buffers, host, counters, Running
<1>7. SumInv'
    BY <1>1, <1>2 DEF PdlpInv, SumInv, CommitLeft, FixedLeft, Judged, buffers, host, counters,
       Running, Terms, AtLeastOne
<1>8. ProductInv'
    BY <1>1, <1>2 DEF PdlpInv, ProductInv, AverageProduct, buffers, host, counters, Running
<1>9. EvaluationInv'
    BY <1>1, <1>2 DEF PdlpInv, EvaluationInv, Of, PointOf, buffers, host, counters, Running
<1> QED
    BY <1>3, <1>4, <1>5, <1>6, <1>7, <1>8, <1>9 DEF PdlpInv

\* The block that takes the last ticket is the one after whose leaving all have
\* left; the counter is zero again with it.
LEMMA LastBlock ==
    ASSUME NEW b, TicketInv, BlockLeaves(b)
    PROVE  /\ TicketInv' /\ Reduces /\ ~ Combined
           /\ (DrawsTicket => retire = Grid - 1) <=> left' = Blocks
           /\ left' = Blocks => wrote = Blocks
<1>1. /\ left' = left \cup {b} /\ b \in Blocks /\ b \notin left /\ Reduces
      /\ left \subseteq wrote /\ left' \subseteq wrote /\ wrote \subseteq Blocks /\ left # Blocks
      /\ UNCHANGED <<stream, wrote>>
    BY DEF BlockLeaves, TicketInv, Reduces
<1>2. UNCHANGED <<Idle, Now, Reduces, Grid, Blocks, DrawsTicket>>
    BY <1>1 DEF Idle, Now, Reduces, Blocks, Grid, DrawsTicket
<1>3. Grid \in Nat \ {0} /\ IsFiniteSet(Blocks) /\ Cardinality(Blocks) = Grid
    <2>1. Grid \in Nat \ {0}
        BY PdlpAssumption DEF Grid
    <2> QED
        BY <2>1, FS_Interval DEF Blocks
<1>4. /\ IsFiniteSet(left) /\ Cardinality(left) \in Nat /\ Cardinality(left') = Cardinality(left) + 1
      /\ Cardinality(left') <= Grid /\ (Cardinality(left') = Grid => left' = Blocks)
    <2>1. IsFiniteSet(left)
        BY <1>1, <1>3, FS_Subset
    <2>2. Cardinality(left) \in Nat /\ Cardinality(left') = Cardinality(left) + 1
        BY <1>1, <2>1, FS_AddElement, FS_CardinalityType
    <2>3. left' \in SUBSET Blocks
        BY <1>1
    <2> QED
        BY <1>3, <2>1, <2>2, <2>3, FS_Subset
<1>5. left' = Blocks <=> Cardinality(left) = Grid - 1
    BY <1>3, <1>4
<1>6. left' = Blocks => wrote = Blocks
    BY <1>1
<1>7. CASE DrawsTicket
    <2>1. retire = Cardinality(left)
        BY <1>1, <1>7 DEF TicketInv
    <2>2. retire' = IF left' # Blocks THEN Cardinality(left') ELSE 0
        BY <1>3, <1>4, <1>5, <1>7, <2>1 DEF BlockLeaves, NextTicket
    <2>3. TicketInv'
        BY <1>1, <1>2, <1>7, <2>2 DEF TicketInv
    <2> QED
        BY <1>1, <1>5, <1>6, <1>7, <2>1, <2>3 DEF Combined
<1>8. CASE ~ DrawsTicket
    <2>1. Grid = 1
        BY <1>3, <1>8 DEF DrawsTicket
    <2>2. left' = Blocks
        <3>1. Blocks = {1}
            BY <2>1 DEF Blocks
        <3> QED
            BY <1>1, <3>1
    <2>3. retire' = 0
        BY <1>8 DEF BlockLeaves, TicketInv
    <2>4. TicketInv'
        BY <1>1, <1>2, <1>8, <2>2, <2>3 DEF TicketInv
    <2> QED
        BY <1>1, <1>6, <1>8, <2>2, <2>4 DEF Combined
<1> QED
    BY <1>7, <1>8

\* The last block's result is of all partials, and of the point it was launched for.
LEMMA BlockLeavesRuns == ASSUME NEW b PROVE PdlpInv /\ BlockLeaves(b) => PdlpInv'
<1> SUFFICES ASSUME PdlpInv, BlockLeaves(b) PROVE PdlpInv'
    OBVIOUS
<1>1. /\ UNCHANGED <<adaptive, stream, wrote, host>> /\ TicketInv' /\ Reduces /\ ~ Combined
      /\ (DrawsTicket => retire = Grid - 1) <=> left' = Blocks
      /\ left' = Blocks => wrote = Blocks
    BY LastBlock DEF PdlpInv, BlockLeaves
<1>2. /\ UNCHANGED <<Idle, Now, Queued, Reduces, Blocks, RestartPending>>
      /\ Combined' <=> left' = Blocks
    BY <1>1 DEF Idle, Now, Queued, Reduces, Blocks, Grid, Combined, RestartPending, Running
<1>3. StreamShape' /\ HostTypes' /\ HeadFacts
    <2>1. StreamShape'
        BY <1>1, <1>2 DEF PdlpInv, StreamShape, host, counters, AverageScratch, Terms, AtLeastOne
    <2>2. HostTypes'
        BY <1>1 DEF PdlpInv, HostTypes, host, counters
    <2> QED
        BY <1>1, <2>1, <2>2, HeadCases DEF PdlpInv, Reduces
<1>4. UNCHANGED <<x, prev, serial, x_bar, ax, ax_prev, ax_bar, cand, ax_cand, sum, x_avg, extrapolated>>
    <2>1. CASE left' = Blocks
        <3>1. Combine
            BY <1>1, <2>1 DEF BlockLeaves
        <3> QED
            BY <1>1, <3>1 DEF Combine, Reduces, Reducing, buffers
    <2>2. CASE left' # Blocks
        BY <1>1, <2>2 DEF BlockLeaves, buffers
    <2> QED
        BY <2>1, <2>2
<1>5. /\ UNCHANGED <<pc, bound, outcome, iteration, since, windows, accepted_total,
                     accepted_at_restart, current, average, best, x_out>>
      /\ adaptive' = adaptive
    BY <1>1 DEF host, counters
<1>6. ProductInv'
    BY <1>1, <1>2, <1>4, <1>5 DEF PdlpInv, ProductInv, AverageProduct, Running
<1>7. CASE Running("probe") /\ left' = Blocks
    <2>1. /\ UNCHANGED residuals /\ pc = "current" /\ adaptive /\ ~ RestartPending
          /\ step' \in [accepted : BOOLEAN, accept_count : Nat] /\ step \in [accepted : BOOLEAN, accept_count : Nat]
          /\ step'.accept_count = step.accept_count + (IF step'.accepted THEN 1 ELSE 0)
        <3>1. Combine /\ Now.op = "probe"
            BY <1>1, <1>7 DEF BlockLeaves, Running
        <3>2. PICK accepted \in BOOLEAN :
                  step' = [accepted |-> accepted,
                           accept_count |-> step.accept_count + (IF accepted THEN 1 ELSE 0)]
            BY <3>1 DEF Combine
        <3>3. step \in [accepted : BOOLEAN, accept_count : Nat]
            BY DEF PdlpInv, BufferTypes
        <3> QED
            BY <1>3, <3>1, <3>2, <3>3 DEF Combine, HeadFacts, RestartPending, Running
    <2>2. BufferTypes'
        BY <1>4, <2>1 DEF PdlpInv, BufferTypes
    <2>3. CounterInv'
        <3>1. ProbesLeft' = ProbesLeft - 1
            <4>1. Running("probe")' /\ Queued \in Nat /\ Combined' /\ ~ Idle /\ ~ Idle'
                BY <1>2, <1>3, <1>7 DEF Running, HeadFacts
            <4>2. (Queued - 1) \div 3 \in Int
                BY <4>1
            <4> QED
                BY <1>1, <1>2, <1>5, <2>1, <4>1, <4>2 DEF ProbesLeft
        <3>2. ProbesLeft \in Int
            <4>1. Queued \in Nat
                BY <1>3 DEF HeadFacts
            <4> QED
                BY <4>1 DEF ProbesLeft
        <3> HIDE DEF ProbesLeft
        <3> QED
            BY <1>5, <2>1, <3>1, <3>2 DEF PdlpInv, CounterInv
    <2>4. SumInv'
        <3>1. ~ Judged /\ Judged'
            BY <1>1, <1>2, <1>7 DEF Judged, Running
        <3> QED
            BY <1>2, <1>4, <1>5, <2>1, <3>1 DEF PdlpInv, SumInv, CommitLeft, BufferTypes, CounterInv
    <2>5. EvaluationInv'
        BY <1>1, <1>2, <1>4, <1>5, <1>7, <2>1 DEF PdlpInv, EvaluationInv, Of, PointOf, Running
    <2> QED
        BY <1>1, <1>3, <1>6, <2>2, <2>3, <2>4, <2>5 DEF PdlpInv
<1>8. CASE ~ (Running("probe") /\ left' = Blocks)
    <2>1. UNCHANGED step
        <3>1. CASE left' = Blocks
            <4>1. Combine /\ Now.op \in {"norm", "residuals"}
                BY <1>1, <1>8, <3>1 DEF BlockLeaves, Running, Reduces, Reducing
            <4> QED
                BY <4>1 DEF Combine, buffers
        <3>2. CASE left' # Blocks
            BY <1>1, <3>2 DEF BlockLeaves, buffers
        <3> QED
            BY <3>1, <3>2
    <2>2. /\ residuals' \in Evaluations
          /\ Running("residuals") /\ left' = Blocks => Of(residuals', PointOf(Now.point))
          /\ ~ Running("residuals") \/ left' # Blocks => UNCHANGED residuals
        <3>1. CASE Running("residuals") /\ left' = Blocks
            <4>1. Combine /\ Now.op = "residuals" /\ wrote = Blocks
                BY <1>1, <3>1 DEF BlockLeaves, Running
            <4>2. PICK level \in AllLevels :
                     residuals' = [point |-> PointOf(Now.point), level |-> level, whole |-> TRUE]
                BY <4>1 DEF Combine
            <4>3. PointOf(Now.point) \in Nat
                BY DEF PdlpInv, BufferTypes, PointOf
            <4> QED
                BY <3>1, <4>2, <4>3 DEF Evaluations, Of
        <3>2. CASE Running("residuals") /\ left' # Blocks
            BY <1>1, <3>2 DEF BlockLeaves, buffers, PdlpInv, BufferTypes
        <3>3. CASE ~ Running("residuals")
            <4>1. UNCHANGED residuals
                <5>1. CASE left' = Blocks
                    <6>1. Combine /\ Now.op \in {"norm", "probe"}
                        BY <1>1, <3>3, <5>1 DEF BlockLeaves, Running, Reduces, Reducing
                    <6> QED
                        BY <6>1 DEF Combine, buffers
                <5>2. CASE left' # Blocks
                    BY <1>1, <5>2 DEF BlockLeaves, buffers
                <5> QED
                    BY <5>1, <5>2
            <4> QED
                BY <3>3, <4>1 DEF PdlpInv, BufferTypes
        <3> QED
            BY <3>1, <3>2, <3>3
    <2>3. BufferTypes'
        BY <1>4, <2>1, <2>2 DEF PdlpInv, BufferTypes
    <2>4. CounterInv'
        <3>1. ProbesLeft' = ProbesLeft
            BY <1>1, <1>2, <1>5, <1>8 DEF ProbesLeft, Running
        <3> QED
            BY <1>5, <2>1, <3>1 DEF PdlpInv, CounterInv
    <2>5. SumInv'
        <3>1. (Judged' <=> Judged) /\ FixedLeft' = FixedLeft /\ Terms(accepted_total)' = Terms(accepted_total)
            BY <1>1, <1>2, <1>5, <1>8 DEF Judged, Running, FixedLeft, Terms, AtLeastOne
        <3>2. CommitLeft' = CommitLeft
            BY <2>1, <3>1 DEF CommitLeft
        <3> QED
            BY <1>2, <1>4, <1>5, <2>1, <3>1, <3>2 DEF PdlpInv, SumInv
    <2>6. EvaluationInv'
        <3>1. ~ Idle
            BY <1>1 DEF Reduces
        <3>2. pc \notin {"decide", "done"}
            BY <1>3 DEF HeadFacts
        <3>3. (Running("residuals") /\ Combined)' => Of(residuals', PointOf(Now.point)')
            BY <1>2, <1>4, <2>2 DEF Running, PointOf
        <3> QED
            BY <1>2, <1>4, <1>5, <3>1, <3>2, <3>3 DEF PdlpInv, EvaluationInv, Of
    <2> QED
        BY <1>1, <1>3, <1>6, <2>3, <2>4, <2>5, <2>6 DEF PdlpInv
<1> QED
    BY <1>7, <1>8

-----------------------------------------------------------------------------
(***************************************************************************)
(* What the host queues.                                                   *)
(***************************************************************************)
LEMMA MultipleMod ==
    ASSUME NEW k \in Nat, NEW P \in Nat \ {0}, NEW r \in 0 .. P - 1
    PROVE  ((k * P) + r) % P = r
OBVIOUS

\* A whole period keeps a multiple of it one; less than one does not.
LEMMA PeriodMod ==
    ASSUME NEW n \in Nat, NEW P \in Nat \ {0}, n % P = 0
    PROVE  /\ (n + P) % P = 0
           /\ \A r \in 1 .. P - 1 : (n + r) % P # 0
<1> DEFINE k == n \div P
<1>1. k \in Nat /\ n = (P * k) + (n % P)
    OBVIOUS
<1> HIDE DEF k
<1>2. k \in Nat /\ n = (k * P) + 0
    BY <1>1
<1>3. n + P = ((k + 1) * P) + 0
    BY <1>2
<1>4. (((k + 1) * P) + 0) % P = 0
    BY <1>2, MultipleMod
<1>5. ASSUME NEW r \in 1 .. P - 1 PROVE (n + r) % P # 0
    <2>1. n + r = (k * P) + r
        BY <1>2
    <2>2. ((k * P) + r) % P = r
        BY <1>2, MultipleMod
    <2> QED
        <3>1. (n + r) % P = r
            BY <2>1, <2>2, Zenon
        <3> QED
            BY <3>1
<1>6. (n + P) % P = 0
    BY <1>3, <1>4, Zenon
<1> QED
    BY <1>5, <1>6, Zenon

\* The operations of a window are told by how many follow them.
Window(a, k) ==
    Repeat(IF a THEN <<Bound("candidate", "candidate"), Op("probe"), Op("commit")>>
           ELSE <<Bound("fixed", "x_bar")>>, k) \o Evaluation("x", "ax")

LEMMA OperationsAreTyped ==
    /\ \A name \in {"norm", "probe", "commit", "adopt"} : Op(name) \in Operation
    /\ \A name \in {"candidate", "fixed"}, b \in Bindings : Bound(name, b) \in Operation
    /\ \A p \in {"x", "avg"}, s \in {"ax", "ax_bar"} :
          /\ [op |-> "product", point |-> p, scratch |-> s] \in Operation
          /\ [op |-> "residuals", point |-> p] \in Operation
          /\ [op |-> "restart", from |-> p] \in Operation
    /\ \A d \in Nat : [op |-> "average", divisor |-> d] \in Operation
BY DEF Op, Bound, Operation

LEMMA RepeatFacts ==
    ASSUME NEW ops \in Seq(Operation), Len(ops) \in {1, 3}, NEW k \in Nat
    PROVE  /\ Repeat(ops, k) \in Seq(Operation) /\ Len(Repeat(ops, k)) = k * Len(ops)
           /\ \A i \in 1 .. k * Len(ops) : Repeat(ops, k)[i] = ops[((i - 1) % Len(ops)) + 1]
<1> DEFINE n == Len(ops)
           N == k * n
<1>1. n \in {1, 3} /\ N \in Nat
    OBVIOUS
<1>2. \A i \in 1 .. n : ops[i] \in Operation
    BY ElementOfSeq
<1> HIDE DEF n, N
<1>3. ASSUME NEW i \in 1 .. N PROVE ((i - 1) % n) + 1 \in 1 .. n
    <2>1. CASE n = 1
        BY <1>1, <2>1
    <2>2. CASE n = 3
        BY <1>1, <2>2
    <2> QED
        BY <1>1, <2>1, <2>2
<1>4. Repeat(ops, k) = [i \in 1 .. N |-> ops[((i - 1) % n) + 1]]
    BY DEF Repeat, n, N
<1>5. [i \in 1 .. N |-> ops[((i - 1) % n) + 1]] \in [1 .. N -> Operation]
    BY <1>2, <1>3
<1>6. Repeat(ops, k) \in Seq(Operation)
    BY <1>1, <1>4, <1>5, SeqDef
<1>7. Len(Repeat(ops, k)) = N
    BY <1>1, <1>4, <1>6
<1> QED
    BY <1>4, <1>6, <1>7 DEF n, N

\* Evaluation("x", "ax") is two operations, and they come last.
LEMMA WindowFacts ==
    ASSUME NEW a \in BOOLEAN, NEW k \in Nat \ {0}
    PROVE  LET n == (IF a THEN 3 * k ELSE k) + 2 IN
           /\ Window(a, k) \in Seq(Operation) /\ Len(Window(a, k)) = n
           /\ \A i \in 1 .. n : Window(a, k)[i] = WindowOp(a, n - i)
<1> DEFINE ops == IF a THEN <<Bound("candidate", "candidate"), Op("probe"), Op("commit")>>
                  ELSE <<Bound("fixed", "x_bar")>>
           m == IF a THEN 3 * k ELSE k
           R == Repeat(ops, k)
           E == Evaluation("x", "ax")
<1>1. /\ ops \in Seq(Operation) /\ Len(ops) = IF a THEN 3 ELSE 1
      /\ a => ops[1] = Bound("candidate", "candidate") /\ ops[2] = Op("probe") /\ ops[3] = Op("commit")
      /\ ~ a => ops[1] = Bound("fixed", "x_bar")
    BY OperationsAreTyped DEF Bindings
<1>2. /\ E \in Seq(Operation) /\ Len(E) = 2
      /\ E[1] = [op |-> "product", point |-> "x", scratch |-> "ax"]
      /\ E[2] = [op |-> "residuals", point |-> "x"]
    BY OperationsAreTyped DEF Evaluation
<1> HIDE DEF ops, E
<1>3. /\ R \in Seq(Operation) /\ Len(R) = m
      /\ \A i \in 1 .. m : R[i] = ops[((i - 1) % Len(ops)) + 1]
    <2>1. Len(ops) \in {1, 3} /\ k * Len(ops) = m
        BY <1>1
    <2> QED
        BY <1>1, <2>1, RepeatFacts
<1> HIDE DEF R
<1>4. m \in Nat /\ m >= 1 /\ m = IF a THEN 3 * k ELSE k
    OBVIOUS
<1> HIDE DEF m
<1>5. /\ R \o E \in Seq(Operation) /\ Len(R \o E) = m + 2
      /\ \A i \in 1 .. m + 2 : (R \o E)[i] = IF i <= m THEN R[i] ELSE E[i - m]
    <2>1. /\ R \o E \in Seq(Operation) /\ Len(R \o E) = Len(R) + Len(E)
          /\ \A i \in 1 .. Len(R) + Len(E) :
                (R \o E)[i] = IF i <= Len(R) THEN R[i] ELSE E[i - Len(R)]
        BY <1>2, <1>3, ConcatProperties
    <2>2. Len(R) = m /\ Len(E) = 2
        BY <1>2, <1>3
    <2> QED
        BY <2>1, <2>2
<1>6. ASSUME NEW i \in 1 .. m + 2 PROVE (R \o E)[i] = WindowOp(a, (m + 2) - i)
    <2>1. CASE i = m + 1
        <3>1. (R \o E)[i] = E[1] /\ (m + 2) - i = 1
            BY <1>4, <1>5, <2>1
        <3> QED
            BY <1>2, <3>1 DEF WindowOp
    <2>2. CASE i = m + 2
        <3>1. (R \o E)[i] = E[2] /\ (m + 2) - i = 0
            BY <1>4, <1>5, <2>2
        <3> QED
            BY <1>2, <3>1 DEF WindowOp
    <2>3. CASE i \in 1 .. m
        <3>1. (R \o E)[i] = ops[((i - 1) % Len(ops)) + 1]
            BY <1>3, <1>4, <1>5, <2>3
        <3>2. CASE ~ a
            <4>1. (i - 1) % 1 = 0
                BY <1>4, <2>3
            <4> QED
                BY <1>1, <1>4, <2>3, <3>1, <3>2, <4>1 DEF WindowOp
        <3>3. CASE a
            <4>1. /\ ((i - 1) % 3) + 1 \in 1 .. 3
                  /\ ((i - 1) % 3) + 1 = 3 <=> ((3 * k) - i) % 3 = 0
                  /\ ((i - 1) % 3) + 1 = 2 <=> ((3 * k) - i) % 3 = 1
                BY <1>4, <2>3, <3>3
            <4>2. m = 3 * k /\ (m + 2) - i > 1 /\ ((m + 2) - i) - 2 = (3 * k) - i
                BY <1>4, <2>3, <3>3
            <4> QED
                BY <1>1, <3>1, <3>3, <4>1, <4>2 DEF WindowOp
        <3> QED
            BY <3>2, <3>3
    <2>4. i = m + 1 \/ i = m + 2 \/ i \in 1 .. m
        BY <1>4
    <2> QED
        BY <2>1, <2>2, <2>3, <2>4
<1>7. Window(a, k) = R \o E
    BY DEF Window, R, E, ops
<1> QED
    BY <1>4, <1>5, <1>6, <1>7

\* The host queues a window behind a restart that may still be waiting.
LEMMA WindowQueued ==
    ASSUME PdlpInv, QueueWindow
    PROVE  /\ Period \in Nat \ {0} /\ adaptive \in BOOLEAN
           /\ StreamShape' /\ HostTypes' /\ ~ Idle' /\ HeadFacts'
           /\ Queued' = (IF adaptive THEN 3 * Period ELSE Period) + 2 + (IF RestartPending THEN 1 ELSE 0)
           /\ RestartPending' <=> RestartPending
           /\ RestartPending => Now' = Now
<1>1. Period \in Nat \ {0} /\ adaptive \in BOOLEAN
    BY PdlpAssumption DEF PdlpInv, CounterInv, HostTypes, QueueWindow, Period
<1> DEFINE n == (IF adaptive THEN 3 * Period ELSE Period) + 2
           W == Window(adaptive, Period)
<1>2. stream' = stream \o W
    <2>1. adaptive => bound = "candidate"
        BY DEF PdlpInv, ProductInv, QueueWindow
    <2>2. W = Repeat(IF adaptive THEN AdaptiveStep ELSE FixedStep, Period) \o Evaluation("x", "ax")
        BY <1>1, <2>1 DEF QueueWindow, AdaptiveStep, FixedStep, Window
    <2> QED
        BY <2>2 DEF QueueWindow, Enqueue
<1>3. W \in Seq(Operation) /\ Len(W) = n /\ \A i \in 1 .. n : W[i] = WindowOp(adaptive, n - i)
    BY <1>1, WindowFacts
<1>4. n \in Nat /\ n > 2 /\ (adaptive => n % 3 = 2)
    BY <1>1
<1> HIDE DEF n, W
<1>5. /\ Queued \in {0, 1} /\ (Idle <=> Queued = 0) /\ (RestartPending <=> Queued = 1)
      /\ stream \in Seq(Operation) /\ (Queued = 1 => Now = stream[1])
    <2>1. stream \in Seq(Operation) /\ Queued <= 1 /\ (~ Idle => RestartPending)
        BY DEF PdlpInv, StreamShape, QueueWindow
    <2>2. CASE Idle
        BY <2>1, <2>2, EmptySeq DEF Idle, Queued, RestartPending, Running
    <2>3. CASE ~ Idle
        <3>1. Queued \in Nat \ {0} /\ Now = stream[1]
            BY <2>1, <2>3, TailFacts DEF Idle, Queued, Now
        <3> QED
            BY <2>1, <2>3, <3>1
    <2> QED
        BY <2>2, <2>3
<1>6. /\ stream' \in Seq(Operation) /\ Queued' = Queued + n
      /\ \A i \in 1 .. Queued + n : stream'[i] = IF i <= Queued THEN stream[i] ELSE W[i - Queued]
    BY <1>2, <1>3, <1>5, ConcatProperties DEF Queued
<1>7. ~ Idle' /\ Now' = stream'[1]
    <2>1. stream' # <<>>
        BY <1>4, <1>5, <1>6, EmptySeq DEF Queued
    <2> QED
        BY <1>6, <2>1, TailFacts DEF Idle, Now
<1>8. ASSUME NEW i \in 1 .. Queued', i > Queued PROVE stream'[i] = WindowOp(adaptive, Queued' - i)
    <2>1. i - Queued \in 1 .. n /\ stream'[i] = W[i - Queued] /\ n - (i - Queued) = Queued' - i
        BY <1>4, <1>5, <1>6, <1>8
    <2> QED
        BY <1>3, <2>1
<1>9. RestartPending => Now' = Now
    BY <1>4, <1>5, <1>6, <1>7
<1>10. RestartPending' <=> RestartPending
    <2>1. CASE RestartPending
        BY <1>7, <1>9, <2>1 DEF RestartPending, Running
    <2>2. CASE ~ RestartPending
        <3>1. Queued = 0 /\ Queued' = n /\ 1 \in 1 .. Queued'
            BY <1>4, <1>5, <1>6, <2>2
        <3>2. Now' = WindowOp(adaptive, n - 1)
            BY <1>7, <1>8, <3>1
        <3>3. Now'.op # "restart"
            BY <1>1, <1>4, <3>2 DEF WindowOp, Op, Bound
        <3> QED
            BY <2>2, <3>3 DEF RestartPending, Running
    <2> QED
        BY <2>1, <2>2
<1>11. adaptive' = adaptive /\ pc' = "current" /\ outcome = "running" /\ outcome' = outcome
    BY DEF QueueWindow, PdlpInv, HostTypes
<1>12. StreamShape'
    <2>1. ASSUME NEW i \in 1 .. Queued'
          PROVE  \/ stream'[i] = WindowOp(adaptive', Queued' - i)
                 \/ i = 1 /\ RestartPending' /\ Queued' > 2 /\ (adaptive' => Queued' % 3 = 0)
        <3>1. CASE i > Queued
            BY <1>8, <1>11, <3>1
        <3>2. CASE i <= Queued
            <4>1. i = 1 /\ Queued = 1 /\ Queued' = n + 1
                BY <1>4, <1>5, <1>6, <3>2
            <4> QED
                BY <1>4, <1>5, <1>10, <1>11, <4>1
        <3> QED
            BY <1>4, <1>5, <1>6, <3>1, <3>2
    <2> QED
        BY <1>6, <1>11, <2>1 DEF StreamShape
<1>13. HostTypes'
    BY DEF PdlpInv, HostTypes, QueueWindow, Bindings
<1>14. HeadFacts'
    BY <1>7, <1>12, <1>13, HeadCasesAfter
<1>15. Queued' = n + (IF RestartPending THEN 1 ELSE 0)
    BY <1>4, <1>5, <1>6
<1> QED
    BY <1>1, <1>7, <1>9, <1>10, <1>12, <1>13, <1>14, <1>15 DEF n

\* The counters run ahead of the device by what the window will do.
LEMMA QueueWindowRuns == PdlpInv /\ QueueWindow => PdlpInv'
<1> SUFFICES ASSUME PdlpInv, QueueWindow PROVE PdlpInv'
    OBVIOUS
<1>1. /\ Period \in Nat \ {0} /\ adaptive \in BOOLEAN
      /\ StreamShape' /\ HostTypes' /\ ~ Idle' /\ HeadFacts'
      /\ Queued' = (IF adaptive THEN 3 * Period ELSE Period) + 2 + (IF RestartPending THEN 1 ELSE 0)
      /\ RestartPending' <=> RestartPending
      /\ RestartPending => Now' = Now
    BY WindowQueued
<1>2. /\ UNCHANGED <<wrote, left, retire, buffers, adaptive, accepted_total, accepted_at_restart,
                     current, average, best, outcome, x_out>>
      /\ pc = "loop" /\ pc' = "current" /\ outcome = "running"
      /\ iteration < MaxIterations /\ iteration' = iteration + Period /\ since' = since + Period
      /\ windows' = windows + 1
    BY DEF QueueWindow, Enqueue, PdlpInv, HostTypes
<1>3. ~ Reduces /\ ~ Reduces' /\ ~ Judged /\ ~ Judged' /\ ~ Combined /\ ~ Combined'
    <2>1. ~ Idle => Now.op = "restart"
        BY <1>2 DEF PdlpInv, StreamShape, RestartPending, Running
    <2>2. ~ Reduces /\ ~ Judged
        BY <2>1 DEF Reduces, Judged, Running, Reducing
    <2>3. Now'.op \in {"restart", "candidate", "fixed"}
        BY <1>1, <1>2 DEF HeadFacts, RestartPending, Running
    <2> QED
        BY <2>2, <2>3 DEF Reduces, Reducing, Judged, Running, Combined
<1>4. TicketInv'
    BY <1>2, <1>3 DEF PdlpInv, TicketInv
<1>5. BufferTypes'
    BY <1>2 DEF PdlpInv, BufferTypes, buffers
<1>6. CounterInv'
    <2>1. iteration + Period <= MaxIterations
        BY <1>2, PdlpAssumption DEF PdlpInv, CounterInv, Period
    <2>2. ProbesLeft = 0 /\ ProbesLeft' <= Period /\ ProbesLeft' \in Nat
        <3>1. ProbesLeft = 0
            BY <1>2 DEF ProbesLeft
        <3>2. CASE adaptive
            <4>1. Queued' - 1 = (3 * Period) + 1 \/ Queued' - 1 = (3 * Period) + 2
                BY <1>1, <3>2
            <4>2. (Queued' - 1) \div 3 = Period
                BY <1>1, <4>1
            <4>3. ProbesLeft' = (Queued' - 1) \div 3 - 0
                BY <1>1, <1>2, <1>3, <3>2 DEF ProbesLeft
            <4> QED
                BY <1>1, <3>1, <4>2, <4>3
        <3>3. CASE ~ adaptive
            BY <1>1, <1>2, <3>1, <3>3 DEF ProbesLeft
        <3> QED
            BY <1>1, <3>2, <3>3
    <2>3. step' = step /\ step.accept_count \in Nat
        BY <1>2 DEF buffers, PdlpInv, BufferTypes
    <2>4. /\ iteration' % RestartPeriod = 0 => since' = windows' * RestartPeriod
          /\ iteration' < MaxIterations => iteration' % RestartPeriod = 0
        <3>1. /\ iteration \in Nat /\ since \in Nat /\ windows \in Nat
              /\ iteration % RestartPeriod = 0 /\ since = windows * RestartPeriod
              /\ MaxIterations \in Nat /\ RestartPeriod \in Nat \ {0}
            BY <1>2, PdlpAssumption DEF PdlpInv, CounterInv
        <3>2. CASE Period = RestartPeriod
            <4>1. iteration' % RestartPeriod = 0
                BY <1>2, <3>1, <3>2, PeriodMod
            <4>2. since' = (windows * RestartPeriod) + RestartPeriod
                BY <1>2, <3>1, <3>2
            <4>3. since' = windows' * RestartPeriod
                BY <1>2, <3>1, <4>2
            <4> QED
                BY <4>1, <4>3
        <3>3. CASE Period = MaxIterations - iteration /\ Period < RestartPeriod
            <4>1. iteration' = MaxIterations /\ Period \in 1 .. RestartPeriod - 1
                BY <1>1, <1>2, <3>1, <3>3
            <4>2. \A r \in 1 .. RestartPeriod - 1 : (iteration + r) % RestartPeriod # 0
                BY <3>1, PeriodMod
            <4>3. iteration' % RestartPeriod # 0
                BY <1>2, <4>1, <4>2, Zenon
            <4> QED
                BY <3>1, <4>1, <4>3
        <3> QED
            BY <3>1, <3>2, <3>3 DEF Period
    <2> HIDE DEF ProbesLeft
    <2> QED
        BY <1>1, <1>2, <2>1, <2>2, <2>3, <2>4, PdlpAssumption DEF PdlpInv, CounterInv
<1>7. SumInv'
    <2>1. CommitLeft = 0 /\ CommitLeft' = 0
        BY <1>3 DEF CommitLeft
    <2>2. FixedLeft = 0 /\ (~ adaptive => FixedLeft' = Period)
        BY <1>1, <1>2 DEF FixedLeft
    <2>3. since \in Nat /\ sum \in Nat
        BY PdlpAssumption DEF PdlpInv, CounterInv, BufferTypes
    <2> HIDE DEF CommitLeft, FixedLeft
    <2> QED
        BY <1>1, <1>2, <2>1, <2>2, <2>3 DEF PdlpInv, SumInv, buffers
<1>8. ProductInv'
    <2>1. ~ Running("probe")' /\ ~ Running("commit")'
        <3>1. ~ Running("commit")'
            BY <1>3 DEF Judged
        <3> QED
            BY <1>3, <3>1 DEF Running, Reduces, Reducing
    <2>2. adaptive => bound' = bound
        BY DEF QueueWindow
    <2>3. AverageProduct' => AverageProduct
        BY <1>1, <1>2 DEF AverageProduct
    <2> QED
        BY <1>1, <1>2, <2>1, <2>2, <2>3 DEF PdlpInv, ProductInv, buffers
<1>9. EvaluationInv'
    BY <1>1, <1>2, <1>3 DEF PdlpInv, EvaluationInv, buffers
<1> QED
    BY <1>1, <1>4, <1>5, <1>6, <1>7, <1>8, <1>9 DEF PdlpInv

-----------------------------------------------------------------------------
(***************************************************************************)
(* The other steps of the host.                                            *)
(***************************************************************************)
LEMMA Initially == PdlpInit => PdlpInv
<1> SUFFICES ASSUME PdlpInit PROVE PdlpInv
    OBVIOUS
<1>1. Idle /\ Queued = 0 /\ stream \in Seq(Operation) /\ ~ RestartPending /\ ~ Judged /\ ~ Reduces
    BY EmptySeq DEF PdlpInit, Idle, Queued, RestartPending, Judged, Running, Reduces
<1>2. StreamShape /\ TicketInv
    BY <1>1 DEF PdlpInit, StreamShape, TicketInv
<1>3. BufferTypes /\ HostTypes
    BY PdlpAssumption DEF PdlpInit, BufferTypes, HostTypes, Evaluations, NoEvaluation, AllLevels,
       Bindings
<1>4. CounterInv
    <2>1. 0 % RestartPeriod = 0
        BY PdlpAssumption
    <2> QED
        BY <2>1, PdlpAssumption DEF PdlpInit, CounterInv, ProbesLeft
<1>5. SumInv
    BY <1>1 DEF PdlpInit, SumInv, CommitLeft, FixedLeft
<1>6. ProductInv
    BY <1>1 DEF PdlpInit, ProductInv, Running, AverageProduct
<1>7. EvaluationInv
    BY <1>1 DEF PdlpInit, EvaluationInv, Running
<1> QED
    BY <1>2, <1>3, <1>4, <1>5, <1>6, <1>7 DEF PdlpInv

\* A step of the host that queues nothing leaves the device as it is.
DeviceStays == UNCHANGED <<adaptive, device>>

LEMMA DeviceFacts ==
    ASSUME PdlpInv, DeviceStays
    PROVE  /\ TicketInv' /\ BufferTypes'
           /\ UNCHANGED <<adaptive, stream, buffers, Idle, Now, Queued, Combined, Judged, RestartPending>>
           /\ \A name : Running(name)' <=> Running(name)
<1>1. UNCHANGED <<adaptive, stream, wrote, left, retire, buffers>>
    BY DEF DeviceStays, device
<1>2. UNCHANGED <<Idle, Now, Queued, Reduces, Blocks, DrawsTicket>>
    BY <1>1 DEF Idle, Now, Queued, Reduces, Blocks, Grid, DrawsTicket
<1>3. UNCHANGED <<Combined, RestartPending, Judged>> /\ \A name : Running(name)' <=> Running(name)
    BY <1>1, <1>2 DEF Combined, RestartPending, Judged, Running
<1>4. TicketInv'
    BY <1>1, <1>2 DEF PdlpInv, TicketInv
<1>5. BufferTypes'
    BY <1>1 DEF PdlpInv, BufferTypes, buffers
<1> QED
    BY <1>1, <1>2, <1>3, <1>4, <1>5

\* With nothing queued nothing is reduced, summed or restarted.
LEMMA IdleFacts ==
    PdlpInv /\ Idle => /\ Queued = 0 /\ ~ RestartPending /\ ~ Judged /\ ~ Combined
                       /\ stream \in Seq(Operation) /\ stream = <<>>
                       /\ wrote = {} /\ left = {} /\ retire = 0
BY EmptySeq DEF PdlpInv, TicketInv, Idle, Queued, RestartPending, Judged, Running, Reduces, Combined,
                StreamShape

\* The loop starts from zeroed buffers.
LEMMA BeginRuns == PdlpInv /\ Begin => PdlpInv'
<1> SUFFICES ASSUME PdlpInv, Begin PROVE PdlpInv'
    OBVIOUS
<1>1. /\ DeviceStays /\ Idle /\ pc = "norm" /\ pc' = "loop"
      /\ bound' = (IF adaptive THEN "candidate" ELSE bound)
      /\ UNCHANGED <<iteration, windows, since, mu_at_restart, mu_previous, accepted_total,
                     accepted_at_restart, current, average, best, outcome, x_out>>
    BY DEF Begin, Synchronized, DeviceStays, device, counters
<1>2. /\ TicketInv' /\ BufferTypes'
      /\ UNCHANGED <<adaptive, stream, buffers, Idle, Now, Queued, Combined, Judged, RestartPending>>
      /\ \A name : Running(name)' <=> Running(name)
    BY <1>1, DeviceFacts
<1>3. Queued = 0 /\ ~ RestartPending /\ ~ Judged /\ ~ Combined /\ stream \in Seq(Operation)
    BY <1>1, IdleFacts
<1>4. StreamShape' /\ HostTypes'
    BY <1>1, <1>2, <1>3 DEF PdlpInv, StreamShape, HostTypes, Bindings
<1>5. CounterInv'
    <2>1. ProbesLeft = 0 /\ ProbesLeft' = 0 /\ step' = step
        BY <1>1, <1>2 DEF ProbesLeft, buffers
    <2> HIDE DEF ProbesLeft
    <2> QED
        BY <1>1, <1>2, <2>1, PdlpAssumption DEF PdlpInv, CounterInv
<1>6. SumInv'
    BY <1>1, <1>2, <1>3 DEF PdlpInv, SumInv, CommitLeft, FixedLeft, buffers
<1>7. ProductInv'
    BY <1>1, <1>2, <1>3 DEF PdlpInv, ProductInv, AverageProduct, buffers
<1>8. EvaluationInv'
    BY <1>1, <1>2, <1>3 DEF PdlpInv, EvaluationInv, buffers, HostTypes
<1> QED
    BY <1>2, <1>4, <1>5, <1>6, <1>7, <1>8 DEF PdlpInv

\* Both evaluations are read complete, and the loop's bindings are restored.
LEMMA ReadAverageRuns == PdlpInv /\ ReadAverage => PdlpInv'
<1> SUFFICES ASSUME PdlpInv, ReadAverage PROVE PdlpInv'
    OBVIOUS
<1>1. /\ DeviceStays /\ Idle /\ pc = "average" /\ pc' = "decide" /\ outcome = "running"
      /\ average' = residuals /\ best' = Better /\ bound' = Rebound
      /\ UNCHANGED <<iteration, windows, since, mu_at_restart, mu_previous, accepted_total,
                     accepted_at_restart, current, outcome, x_out>>
    BY DEF ReadAverage, Synchronized, DeviceStays, device, counters, PdlpInv, HostTypes
<1>2. /\ TicketInv' /\ BufferTypes'
      /\ UNCHANGED <<adaptive, stream, buffers, Idle, Now, Queued, Combined, Judged, RestartPending>>
      /\ \A name : Running(name)' <=> Running(name)
    BY <1>1, DeviceFacts
<1>3. Queued = 0 /\ ~ RestartPending /\ ~ Judged /\ ~ Combined /\ stream \in Seq(Operation)
    BY <1>1, IdleFacts
<1>4. StreamShape' /\ HostTypes'
    BY <1>1, <1>2, <1>3 DEF PdlpInv, StreamShape, HostTypes, Bindings, BufferTypes, Better, Rebound
<1>5. CounterInv'
    <2>1. ProbesLeft = 0 /\ ProbesLeft' = 0 /\ step' = step
        BY <1>1, <1>2 DEF ProbesLeft, buffers
    <2> HIDE DEF ProbesLeft
    <2> QED
        BY <1>1, <1>2, <2>1, PdlpAssumption DEF PdlpInv, CounterInv
<1>6. SumInv'
    BY <1>1, <1>2, <1>3 DEF PdlpInv, SumInv, CommitLeft, FixedLeft, buffers, Terms
<1>7. ProductInv'
    BY <1>1, <1>2, <1>3 DEF PdlpInv, ProductInv, AverageProduct, buffers, Rebound
<1>8. EvaluationInv'
    BY <1>1, <1>2, <1>3 DEF PdlpInv, EvaluationInv, buffers, Better, Of
<1> QED
    BY <1>2, <1>4, <1>5, <1>6, <1>7, <1>8 DEF PdlpInv

\* The loop is left without an answer, or goes on without a restart.
LEMMA LeaveOrContinueRuns == PdlpInv /\ (TimeOut \/ Cancelled \/ BudgetSpent \/ Continue) => PdlpInv'
<1> SUFFICES ASSUME PdlpInv, TimeOut \/ Cancelled \/ BudgetSpent \/ Continue PROVE PdlpInv'
    OBVIOUS
<1>1. /\ DeviceStays /\ pc \in {"loop", "decide"} /\ outcome = "running"
      /\ UNCHANGED <<bound, iteration, windows, since, mu_at_restart, accepted_total,
                     accepted_at_restart, best, x_out>>
      /\ \/ /\ pc' = "readback" /\ outcome' \in {"time_limit", "cancelled", "budget"}
            /\ UNCHANGED <<mu_previous, current, average>>
         \/ /\ pc = "decide" /\ pc' = "loop" /\ outcome' = "running" /\ mu_previous' = best.level
            /\ current' = NoEvaluation /\ average' = NoEvaluation
    BY DEF TimeOut, Cancelled, BudgetSpent, Continue, Finish, Undecided, DeviceStays, device, counters,
           PdlpInv, HostTypes
<1>2. /\ TicketInv' /\ BufferTypes'
      /\ UNCHANGED <<adaptive, stream, buffers, Idle, Now, Queued, Combined, Judged, RestartPending>>
      /\ \A name : Running(name)' <=> Running(name)
    BY <1>1, DeviceFacts
<1>3. pc = "decide" => Idle /\ Queued = 0 /\ ~ RestartPending /\ ~ Judged
    BY IdleFacts DEF PdlpInv, StreamShape
<1>4. StreamShape'
    BY <1>1, <1>2, <1>3 DEF PdlpInv, StreamShape
<1>5. HostTypes'
    <2>1. NoEvaluation \in Evaluations
        BY PdlpAssumption DEF Evaluations, NoEvaluation, AllLevels
    <2>2. best.level \in AllLevels
        BY DEF PdlpInv, HostTypes, Evaluations
    <2> QED
        BY <1>1, <1>2, <2>1, <2>2 DEF PdlpInv, HostTypes
<1>6. CounterInv'
    <2>1. ProbesLeft = 0 /\ ProbesLeft' = 0 /\ step' = step
        BY <1>1, <1>2 DEF ProbesLeft, buffers
    <2> HIDE DEF ProbesLeft
    <2> QED
        BY <1>1, <1>2, <2>1, PdlpAssumption DEF PdlpInv, CounterInv
<1>7. SumInv'
    BY <1>1, <1>2, <1>3 DEF PdlpInv, SumInv, CommitLeft, FixedLeft, buffers
<1>8. ProductInv'
    BY <1>1, <1>2, <1>3 DEF PdlpInv, ProductInv, AverageProduct, buffers
<1>9. EvaluationInv'
    <2>1. ~ Running("residuals")
        BY <1>1, HeadCases DEF PdlpInv, HeadFacts, Running
    <2> QED
        BY <1>1, <1>2, <2>1 DEF PdlpInv, EvaluationInv
<1> QED
    BY <1>2, <1>4, <1>5, <1>6, <1>7, <1>8, <1>9 DEF PdlpInv

\* The iterate is read when everything queued has been done to it.
LEMMA ReadBackRuns == PdlpInv /\ ReadBack => PdlpInv'
<1> SUFFICES ASSUME PdlpInv, ReadBack PROVE PdlpInv'
    OBVIOUS
<1>1. /\ DeviceStays /\ Idle /\ pc = "readback" /\ pc' = "done" /\ x_out' = x
      /\ UNCHANGED <<bound, iteration, windows, since, mu_at_restart, mu_previous, accepted_total,
                     accepted_at_restart, current, average, best, outcome>>
    BY DEF ReadBack, Synchronized, DeviceStays, device, counters
<1>2. /\ TicketInv' /\ BufferTypes'
      /\ UNCHANGED <<adaptive, stream, buffers, Idle, Now, Queued, Combined, Judged, RestartPending>>
      /\ \A name : Running(name)' <=> Running(name)
    BY <1>1, DeviceFacts
<1>3. Queued = 0 /\ ~ RestartPending /\ ~ Judged /\ ~ Combined /\ stream \in Seq(Operation)
    BY <1>1, IdleFacts
<1>4. StreamShape' /\ HostTypes'
    BY <1>1, <1>2, <1>3 DEF PdlpInv, StreamShape, HostTypes, BufferTypes
<1>5. CounterInv'
    <2>1. ProbesLeft = 0 /\ ProbesLeft' = 0 /\ step' = step
        BY <1>1, <1>2 DEF ProbesLeft, buffers
    <2> HIDE DEF ProbesLeft
    <2> QED
        BY <1>1, <1>2, <2>1, PdlpAssumption DEF PdlpInv, CounterInv
<1>6. SumInv'
    BY <1>1, <1>2, <1>3 DEF PdlpInv, SumInv, CommitLeft, FixedLeft, buffers
<1>7. ProductInv'
    BY <1>1, <1>2, <1>3 DEF PdlpInv, ProductInv, AverageProduct, buffers
<1>8. EvaluationInv'
    BY <1>1, <1>2, <1>3 DEF PdlpInv, EvaluationInv, Of
<1> QED
    BY <1>2, <1>4, <1>5, <1>6, <1>7, <1>8 DEF PdlpInv

\* Queueing on an idle stream: the operations queued are the stream.
LEMMA IdleEnqueue ==
    ASSUME PdlpInv, Idle, NEW ops \in Seq(Operation), Enqueue(ops), UNCHANGED adaptive
    PROVE  /\ stream' = ops /\ TicketInv' /\ BufferTypes' /\ ~ Combined'
           /\ UNCHANGED <<adaptive, buffers>>
<1>1. stream' = ops
    BY IdleFacts, ConcatEmptySeq DEF Enqueue
<1>2. wrote' = {} /\ left' = {} /\ retire' = 0
    BY IdleFacts DEF Enqueue
<1>3. TicketInv' /\ ~ Combined'
    BY <1>2, TicketsReset
<1>4. BufferTypes'
    BY DEF PdlpInv, BufferTypes, buffers, Enqueue
<1> QED
    BY <1>1, <1>3, <1>4 DEF Enqueue

LEMMA EstimateNormRuns == PdlpInv /\ EstimateNorm => PdlpInv'
<1> SUFFICES ASSUME PdlpInv, EstimateNorm PROVE PdlpInv'
    OBVIOUS
<1> DEFINE ops == <<Op("norm"), Op("norm")>>
<1>1. Idle /\ pc = "start" /\ pc' = "norm" /\ outcome = "running"
      /\ UNCHANGED <<adaptive, bound, iteration, windows, since, mu_at_restart, mu_previous,
                     accepted_total, accepted_at_restart, current, average, best, outcome, x_out>>
    BY DEF EstimateNorm, counters, PdlpInv, StreamShape, HostTypes
<1>2. /\ ops \in Seq(Operation) /\ Len(ops) = 2 /\ ops # <<>>
      /\ \A i \in 1 .. 2 : ops[i] = Op("norm")
    BY OperationsAreTyped
<1>3. /\ stream' = ops /\ TicketInv' /\ BufferTypes' /\ ~ Combined' /\ UNCHANGED <<adaptive, buffers>>
    BY <1>1, <1>2, IdleEnqueue DEF EstimateNorm
<1> HIDE DEF ops
<1>4. StreamShape'
    BY <1>1, <1>2, <1>3 DEF StreamShape, Queued
<1>5. HostTypes'
    BY <1>1 DEF PdlpInv, HostTypes
<1>6. HeadFacts' /\ ~ Idle'
    BY <1>2, <1>3, <1>4, <1>5, HeadCasesAfter DEF Idle
<1>7. \A name \in {"probe", "commit", "residuals", "restart"} : ~ Running(name)'
    BY <1>1, <1>6 DEF HeadFacts, Running
<1>8. CounterInv'
    <2>1. ProbesLeft = 0 /\ ProbesLeft' = 0 /\ step' = step
        BY <1>1, <1>3 DEF ProbesLeft, buffers
    <2> HIDE DEF ProbesLeft
    <2> QED
        BY <1>1, <2>1, PdlpAssumption DEF PdlpInv, CounterInv
<1>9. SumInv'
    <2>1. ~ Judged' /\ ~ RestartPending' /\ ~ Judged /\ ~ RestartPending
        BY <1>1, <1>7, IdleFacts DEF Judged, RestartPending
    <2> QED
        BY <1>1, <1>3, <2>1 DEF PdlpInv, SumInv, CommitLeft, FixedLeft, buffers
<1>10. ProductInv'
    BY <1>1, <1>3, <1>7 DEF PdlpInv, ProductInv, AverageProduct, buffers, RestartPending
<1>11. EvaluationInv'
    BY <1>1, <1>3, <1>7 DEF PdlpInv, EvaluationInv, buffers
<1> QED
    BY <1>3, <1>4, <1>5, <1>8, <1>9, <1>10, <1>11 DEF PdlpInv

\* The average is queued with the number of the terms summed as its divisor.
LEMMA ReadCurrentRuns == PdlpInv /\ ReadCurrent => PdlpInv'
<1> SUFFICES ASSUME PdlpInv, ReadCurrent PROVE PdlpInv'
    OBVIOUS
<1> DEFINE t == Terms(accepted_total')
           ops == <<[op |-> "average", divisor |-> t]>> \o Evaluation("avg", AverageScratch)
<1>1. /\ Idle /\ pc = "current" /\ pc' = "average" /\ outcome = "running" /\ current' = residuals
      /\ accepted_total' = (IF adaptive THEN step.accept_count ELSE accepted_total)
      /\ UNCHANGED <<adaptive, bound, iteration, windows, since, mu_at_restart, mu_previous,
                     accepted_at_restart, average, best, outcome, x_out>>
    BY DEF ReadCurrent, Synchronized, PdlpInv, HostTypes
<1>2. accepted_total' \in Nat /\ t \in Nat
    BY <1>1, PdlpAssumption DEF PdlpInv, CounterInv, BufferTypes, Terms, AtLeastOne
<1>3. Terms(accepted_total)' = t /\ AverageScratch' = AverageScratch /\ AverageScratch \in {"ax", "ax_bar"}
    BY <1>1 DEF Terms, AtLeastOne, AverageScratch
<1>4. Enqueue(ops)
    BY DEF ReadCurrent, QueueAverage
<1> HIDE DEF t
<1>5. /\ ops \in Seq(Operation) /\ Len(ops) = 3
      /\ \A i \in 1 .. 3 : ops[i] = AverageOp(AverageScratch, t, 3 - i)
    <2> DEFINE A == [op |-> "average", divisor |-> t]
               B == [op |-> "product", point |-> "avg", scratch |-> AverageScratch]
               C == [op |-> "residuals", point |-> "avg"]
    <2>1. A \in Operation /\ B \in Operation /\ C \in Operation
        BY <1>2, <1>3, OperationsAreTyped
    <2>2. A = AverageOp(AverageScratch, t, 2) /\ B = AverageOp(AverageScratch, t, 1)
          /\ C = AverageOp(AverageScratch, t, 0)
        BY DEF AverageOp
    <2>3. ops = <<A>> \o <<B, C>>
        BY DEF Evaluation
    <2> HIDE DEF A, B, C, ops
    <2>4. /\ <<A>> \in Seq(Operation) /\ <<B, C>> \in Seq(Operation)
          /\ Len(<<A>>) = 1 /\ Len(<<B, C>>) = 2
        BY <2>1
    <2>5. /\ ops \in Seq(Operation) /\ Len(ops) = 3
          /\ \A i \in 1 .. 3 : ops[i] = IF i <= 1 THEN <<A>>[i] ELSE <<B, C>>[i - 1]
        BY <2>3, <2>4, ConcatProperties
    <2>6. ops[1] = A /\ ops[2] = B /\ ops[3] = C
        BY <2>5
    <2> QED
        BY <2>2, <2>5, <2>6
<1> HIDE DEF ops
<1>6. /\ stream' = ops /\ TicketInv' /\ BufferTypes' /\ ~ Combined' /\ UNCHANGED <<adaptive, buffers>>
    BY <1>1, <1>4, <1>5, IdleEnqueue
<1>7. Queued' = 3
    BY <1>5, <1>6 DEF Queued
<1>8. StreamShape'
    BY <1>1, <1>3, <1>5, <1>6, <1>7 DEF StreamShape
<1>9. HostTypes'
    BY <1>1 DEF PdlpInv, HostTypes, BufferTypes
<1>10. HeadFacts' /\ ~ Idle'
    <2>1. ~ Idle'
        <3>1. Len(ops) = 3 /\ stream' = ops
            BY <1>5, <1>6
        <3> QED
            BY <3>1 DEF Idle
    <2> QED
        BY <1>8, <1>9, <2>1, HeadCasesAfter
<1>11. \A name \in {"probe", "commit", "residuals", "restart"} : ~ Running(name)'
    BY <1>1, <1>7, <1>10 DEF HeadFacts, Running
<1>12. CounterInv'
    <2>1. ProbesLeft = 0 /\ ProbesLeft' = 0 /\ step' = step
        BY <1>1, <1>6 DEF ProbesLeft, buffers
    <2> HIDE DEF ProbesLeft
    <2> QED
        BY <1>1, <1>2, <2>1, PdlpAssumption DEF PdlpInv, CounterInv, BufferTypes
<1>13. SumInv'
    <2>1. ~ Judged' /\ ~ RestartPending' /\ ~ Judged /\ ~ RestartPending /\ Queued = 0
        BY <1>1, <1>11, IdleFacts DEF Judged, RestartPending
    <2> QED
        BY <1>1, <1>6, <1>7, <2>1 DEF PdlpInv, SumInv, CommitLeft, FixedLeft, buffers
<1>14. ProductInv'
    BY <1>1, <1>6, <1>7, <1>11 DEF PdlpInv, ProductInv, AverageProduct, buffers, RestartPending
<1>15. EvaluationInv'
    BY <1>1, <1>6, <1>10, <1>11 DEF PdlpInv, EvaluationInv, buffers, Of
<1> QED
    BY <1>6, <1>8, <1>9, <1>12, <1>13, <1>14, <1>15 DEF PdlpInv

\* The point that converged is the one handed out, once the average is adopted.
LEMMA ConvergeRuns == PdlpInv /\ Converge => PdlpInv'
<1> SUFFICES ASSUME PdlpInv, Converge PROVE PdlpInv'
    OBVIOUS
<1>1. /\ Idle /\ pc = "decide" /\ best.level = 0 /\ pc' = "readback" /\ outcome = "running"
      /\ outcome' = "converged"
      /\ UNCHANGED <<adaptive, bound, iteration, windows, since, mu_at_restart, mu_previous,
                     accepted_total, accepted_at_restart, current, average, best, x_out>>
    BY DEF Converge, Finish, counters, PdlpInv, StreamShape, HostTypes
<1>2. /\ Adopted \in Seq(Operation)
      /\ \/ AverageBetter /\ Adopted # <<>> /\ Len(Adopted) = 1 /\ Adopted[1] = Op("adopt")
         \/ ~ AverageBetter /\ Adopted = <<>>
    BY OperationsAreTyped DEF Adopted
<1>3. /\ stream' = Adopted /\ TicketInv' /\ BufferTypes' /\ ~ Combined' /\ UNCHANGED <<adaptive, buffers>>
    BY <1>1, <1>2, IdleEnqueue DEF Converge
<1>4. /\ stream' \in Seq(Operation) /\ Queued' <= 1 /\ (Idle' <=> ~ AverageBetter)
      /\ ~ Idle' => Now' = Op("adopt")
    <2>1. CASE AverageBetter
        BY <1>2, <1>3, <2>1, TailFacts DEF Idle, Queued, Now
    <2>2. CASE ~ AverageBetter
        BY <1>2, <1>3, <2>2, EmptySeq DEF Idle, Queued
    <2> QED
        BY <2>1, <2>2
<1>5. StreamShape' /\ HostTypes'
    BY <1>1, <1>4 DEF PdlpInv, StreamShape, HostTypes
<1>6. \A name \in {"probe", "commit", "residuals", "restart"} : ~ Running(name)'
    BY <1>4 DEF Running, Op
<1>7. CounterInv'
    <2>1. ProbesLeft = 0 /\ ProbesLeft' = 0 /\ step' = step
        BY <1>1, <1>3 DEF ProbesLeft, buffers
    <2> HIDE DEF ProbesLeft
    <2> QED
        BY <1>1, <2>1, PdlpAssumption DEF PdlpInv, CounterInv
<1>8. SumInv'
    <2>1. ~ Judged' /\ ~ RestartPending' /\ ~ Judged /\ ~ RestartPending
        BY <1>1, <1>6, IdleFacts DEF Judged, RestartPending
    <2> QED
        BY <1>1, <1>3, <2>1 DEF PdlpInv, SumInv, CommitLeft, FixedLeft, buffers
<1>9. ProductInv'
    BY <1>1, <1>3, <1>6 DEF PdlpInv, ProductInv, AverageProduct, buffers, RestartPending
<1>10. EvaluationInv'
    BY <1>1, <1>3, <1>4, <1>6 DEF PdlpInv, EvaluationInv, buffers, Of, AverageBetter
<1> QED
    BY <1>3, <1>5, <1>7, <1>8, <1>9, <1>10 DEF PdlpInv

\* A restart clears the sums and what the host counts with them.
LEMMA RestartRuns == PdlpInv /\ Restart => PdlpInv'
<1> SUFFICES ASSUME PdlpInv, Restart PROVE PdlpInv'
    OBVIOUS
<1> DEFINE from == IF AverageBetter THEN "avg" ELSE "x"
           ops == <<[op |-> "restart", from |-> from]>>
<1>1. /\ Idle /\ pc = "decide" /\ pc' = "loop" /\ outcome = "running" /\ windows' = 0 /\ since' = 0
      /\ accepted_at_restart' = AcceptedAtRestart
      /\ mu_at_restart' = best.level /\ mu_previous' = Diverged
      /\ current' = NoEvaluation /\ average' = NoEvaluation
      /\ UNCHANGED <<adaptive, bound, iteration, accepted_total, best, outcome, x_out>>
    BY DEF Restart, Undecided, PdlpInv, StreamShape, HostTypes
<1>2. from \in {"x", "avg"}
    OBVIOUS
<1>3. Enqueue(ops)
    BY DEF Restart
<1> HIDE DEF from
<1>4. ops \in Seq(Operation) /\ ops # <<>> /\ Len(ops) = 1 /\ ops[1] = [op |-> "restart", from |-> from]
    BY <1>2, OperationsAreTyped
<1> HIDE DEF ops
<1>5. /\ stream' = ops /\ TicketInv' /\ BufferTypes' /\ ~ Combined' /\ UNCHANGED <<adaptive, buffers>>
    BY <1>1, <1>3, <1>4, IdleEnqueue
<1>6. /\ stream' \in Seq(Operation) /\ Queued' = 1 /\ ~ Idle'
      /\ Now' = [op |-> "restart", from |-> from]
    BY <1>4, <1>5, TailFacts DEF Queued, Idle, Now
<1>7. RestartPending' /\ Now'.from \in {"x", "avg"}
    BY <1>2, <1>6 DEF RestartPending, Running
<1>8. StreamShape'
    BY <1>1, <1>6, <1>7 DEF StreamShape
<1>9. HostTypes'
    <2>1. NoEvaluation \in Evaluations /\ Diverged \in AllLevels
        BY PdlpAssumption DEF Evaluations, NoEvaluation, AllLevels
    <2>2. best.level \in AllLevels
        BY DEF PdlpInv, HostTypes, Evaluations
    <2> QED
        BY <1>1, <2>1, <2>2 DEF PdlpInv, HostTypes
<1>10. \A name \in {"probe", "commit", "residuals"} : ~ Running(name)'
    BY <1>6 DEF Running
<1>11. CounterInv'
    <2>1. ProbesLeft = 0 /\ ProbesLeft' = 0 /\ step' = step
        BY <1>1, <1>5 DEF ProbesLeft, buffers
    <2> HIDE DEF ProbesLeft
    <2>2. 0 = 0 * RestartPeriod
        BY PdlpAssumption
    <2> QED
        BY <1>1, <2>1, <2>2, PdlpAssumption DEF PdlpInv, CounterInv, AcceptedAtRestart, BufferTypes
<1>12. SumInv'
    <2>1. ~ Judged'
        BY <1>10 DEF Judged
    <2> QED
        BY <1>1, <1>5, <1>7, <2>1
           DEF PdlpInv, SumInv, CommitLeft, FixedLeft, buffers, CounterInv, AcceptedAtRestart
<1>13. ProductInv'
    BY <1>1, <1>5, <1>7, <1>10 DEF PdlpInv, ProductInv, AverageProduct, buffers
<1>14. EvaluationInv'
    BY <1>1, <1>5, <1>6, <1>10 DEF PdlpInv, EvaluationInv, buffers
<1> QED
    BY <1>5, <1>8, <1>9, <1>11, <1>12, <1>13, <1>14 DEF PdlpInv

-----------------------------------------------------------------------------
(***************************************************************************)
(* The theorems.                                                           *)
(***************************************************************************)
LEMMA PdlpStep == PdlpInv /\ [PdlpNext]_pdlpVars => PdlpInv'
<1> SUFFICES ASSUME PdlpInv, [PdlpNext]_pdlpVars PROVE PdlpInv'
    OBVIOUS
<1>1. CASE Host
    BY <1>1, EstimateNormRuns, BeginRuns, QueueWindowRuns, ReadCurrentRuns, ReadAverageRuns,
       ConvergeRuns, LeaveOrContinueRuns, RestartRuns, ReadBackRuns DEF Host
<1>2. CASE Device
    BY <1>2, CandidateRuns, CommitRuns, FixedRuns, ProductRuns, AverageRuns, RestartedRuns, AdoptRuns,
       KernelEndsRuns, BlockWritesRuns, BlockLeavesRuns DEF Device
<1>3. CASE UNCHANGED pdlpVars
    <2>1. DeviceStays /\ UNCHANGED <<host, counters>>
        BY <1>3 DEF pdlpVars, DeviceStays, device, host, counters
    <2>2. /\ TicketInv' /\ BufferTypes'
          /\ UNCHANGED <<adaptive, stream, buffers, Idle, Now, Queued, Combined, Judged, RestartPending>>
          /\ \A name : Running(name)' <=> Running(name)
        BY <2>1, DeviceFacts
    <2>3. StreamShape' /\ HostTypes'
        BY <2>1, <2>2 DEF PdlpInv, StreamShape, HostTypes, host, counters, AverageScratch, Terms,
           AtLeastOne
    <2>4. CounterInv'
        <3>1. ProbesLeft' = ProbesLeft
            BY <2>1, <2>2 DEF ProbesLeft, host, counters
        <3> HIDE DEF ProbesLeft
        <3> QED
            BY <2>1, <2>2, <3>1 DEF PdlpInv, CounterInv, host, counters, buffers
    <2>5. SumInv'
        BY <2>1, <2>2 DEF PdlpInv, SumInv, CommitLeft, FixedLeft, Terms, AtLeastOne, host, counters,
           buffers
    <2>6. ProductInv'
        BY <2>1, <2>2 DEF PdlpInv, ProductInv, AverageProduct, host, counters, buffers
    <2>7. EvaluationInv'
        BY <2>1, <2>2 DEF PdlpInv, EvaluationInv, Of, PointOf, host, counters, buffers
    <2> QED
        BY <2>2, <2>3, <2>4, <2>5, <2>6, <2>7 DEF PdlpInv
<1> QED
    BY <1>1, <1>2, <1>3 DEF PdlpNext

\* What the invariant says of the properties the runs check.
LEMMA PdlpImplies ==
    PdlpInv => /\ PdlpTypeOK /\ TicketsAreClear /\ EvaluationsAreFresh
               /\ ExtrapolationIsCurrent /\ AverageIsMean /\ ConvergedPointIsBest
<1> SUFFICES ASSUME PdlpInv
             PROVE  /\ PdlpTypeOK /\ TicketsAreClear /\ EvaluationsAreFresh
                    /\ ExtrapolationIsCurrent /\ AverageIsMean /\ ConvergedPointIsBest
    OBVIOUS
<1>1. retire \in 0 .. GridMax - 1 /\ wrote \subseteq 1 .. GridMax /\ left \subseteq wrote
    <2>1. GridN \in Nat /\ GridMax \in Nat \ {0} /\ GridN <= GridMax
        BY PdlpAssumption
    <2>2. CASE ~ Reduces
        BY <2>1, <2>2 DEF PdlpInv, TicketInv
    <2>3. CASE Reduces
        <3>1. Grid \in 1 .. GridMax
            BY <2>1, PdlpAssumption DEF Grid
        <3>2. IsFiniteSet(Blocks) /\ Cardinality(Blocks) = Grid /\ Blocks \subseteq 1 .. GridMax
            <4>1. Blocks \subseteq 1 .. GridMax
                <5>1. Grid \in Nat /\ Grid <= GridMax /\ GridMax \in Nat
                    BY <2>1, <3>1
                <5> QED
                    BY <5>1 DEF Blocks
            <4>2. IsFiniteSet(Blocks) /\ Cardinality(Blocks) = Grid
                BY <3>1, FS_Interval DEF Blocks
            <4> QED
                BY <4>1, <4>2
        <3>3. left \in SUBSET Blocks /\ left \subseteq wrote /\ wrote \subseteq Blocks
            BY <2>3 DEF PdlpInv, TicketInv
        <3>4. /\ Cardinality(left) \in Nat /\ Cardinality(left) <= Grid
              /\ Cardinality(left) = Grid => left = Blocks
            BY <3>2, <3>3, FS_Subset, FS_CardinalityType
        <3>5. left # Blocks => Cardinality(left) \in 0 .. GridMax - 1
            <4>1. Grid \in Nat /\ Grid <= GridMax /\ GridMax \in Nat
                BY <2>1, <3>1
            <4> QED
                BY <3>4, <4>1
        <3> QED
            BY <2>1, <3>2, <3>3, <3>5 DEF PdlpInv, TicketInv
    <2> QED
        BY <2>2, <2>3
<1>2. PdlpTypeOK
    <2>1. accepted_total <= iteration
        <3>1. Queued \in Nat /\ ProbesLeft \in Nat
            <4>1. Queued \in Nat /\ (~ Idle => Queued >= 1)
                BY EmptySeq, TailFacts DEF PdlpInv, StreamShape, Queued, Idle
            <4>2. Running("probe") => Queued > 2
                BY HeadCases DEF PdlpInv, HeadFacts, Running
            <4>3. Queued >= 1 => (Queued - 1) \div 3 \in Nat
                BY <4>1
            <4>4. Queued > 2 /\ Queued % 3 = 1 => (Queued - 1) \div 3 >= 1
                BY <4>1
            <4>5. Running("probe") => Queued % 3 = 1
                BY HeadCases DEF PdlpInv, HeadFacts, Running
            <4> QED
                BY <4>1, <4>2, <4>3, <4>4, <4>5 DEF ProbesLeft
        <3> HIDE DEF ProbesLeft
        <3> QED
            BY <3>1, PdlpAssumption DEF PdlpInv, CounterInv, BufferTypes
    <2> QED
        BY <1>1, <2>1, PdlpAssumption DEF PdlpInv, PdlpTypeOK, BufferTypes, HostTypes, CounterInv
<1>3. TicketsAreClear
    <2>1. left = {} => Cardinality(left) = 0
        BY FS_EmptySet
    <2> QED
        BY <2>1 DEF PdlpInv, TicketInv, TicketsAreClear, Reduces
<1>4. EvaluationsAreFresh /\ ExtrapolationIsCurrent
    BY DEF PdlpInv, EvaluationsAreFresh, ExtrapolationIsCurrent, EvaluationInv, ProductInv, Of
<1>5. AverageIsMean
    <2> SUFFICES ASSUME pc = "decide",
                        IF adaptive THEN x_avg.terms > 0 ELSE iteration % RestartPeriod = 0
                 PROVE  x_avg.divisor = x_avg.terms
        BY DEF AverageIsMean
    <2>1. Idle /\ ~ Judged /\ ~ RestartPending /\ x_avg.terms = sum
          /\ x_avg.divisor = Terms(accepted_total)
        BY IdleFacts DEF PdlpInv, StreamShape, SumInv
    <2>2. CASE adaptive
        <3>1. sum = accepted_total - accepted_at_restart /\ sum > 0
            BY <2>1, <2>2 DEF PdlpInv, SumInv, CommitLeft, CounterInv, BufferTypes
        <3> QED
            BY <2>1, <2>2, <3>1 DEF Terms, AtLeastOne, PdlpInv, BufferTypes
    <2>3. CASE ~ adaptive
        <3>1. sum = since /\ since = windows * RestartPeriod
            BY <2>1, <2>3 DEF PdlpInv, SumInv, FixedLeft, CounterInv, BufferTypes
        <3> QED
            BY <2>1, <2>3, <3>1 DEF Terms
    <2> QED
        BY <2>2, <2>3
<1>6. ConvergedPointIsBest
    BY DEF PdlpInv, ConvergedPointIsBest, EvaluationInv, Of
<1> QED
    BY <1>2, <1>3, <1>4, <1>5, <1>6

\* The stream's order is all the host relies on: whatever the grid and however
\* long a window, the invariant holds from the first kernel to the last copy.
THEOREM PdlpInvariant == PdlpSpec => []PdlpInv
<1> QED
    BY Initially, PdlpStep, PTL DEF PdlpSpec

\* Every variable keeps its type; in particular no counter of the host passes
\* the budget and the ticket counter stays below the grid.
THEOREM PdlpTypeCorrect == PdlpSpec => []PdlpTypeOK
<1> QED
    BY PdlpInvariant, PdlpImplies, PTL

\* No launch of a reduction finds tickets drawn by an earlier one, in whatever
\* order the blocks of each retire.
THEOREM TicketsClear == PdlpSpec => []TicketsAreClear
<1> QED
    BY PdlpInvariant, PdlpImplies, PTL

\* The host decides on complete evaluations of the points it decides about.
THEOREM EvaluationsFresh == PdlpSpec => []EvaluationsAreFresh
<1> QED
    BY PdlpInvariant, PdlpImplies, PTL

\* The dual step always extrapolates the iterates it stands on: the evaluations
\* give back what they bind and overwrite.
THEOREM ExtrapolationCurrent == PdlpSpec => []ExtrapolationIsCurrent
<1> QED
    BY PdlpInvariant, PdlpImplies, PTL

\* The average is divided by the number of iterates that were summed.
THEOREM AverageMean == PdlpSpec => []AverageIsMean
<1> QED
    BY PdlpInvariant, PdlpImplies, PTL

\* What is handed out as converged was itself measured within the tolerance.
THEOREM ConvergedBest == PdlpSpec => []ConvergedPointIsBest
<1> QED
    BY PdlpInvariant, PdlpImplies, PTL
-----------------------------------------------------------------------------
(***************************************************************************)
(* solve_lp.                                                               *)
(***************************************************************************)
Hybrid == request.method = "HYBRID"
Stages == {"start", "engine", "pdlp", "simplex", "select", "gate", "done", "thrown"}

\* What each engine left for the others, as far as it ran.
EnginesHold ==
    /\ stage \in Stages
    /\ simplex \in LpStatus \cup {"NONE"}
    /\ pdlp \in {"NONE", "FAILED", "OK"}
    /\ stage \in {"start", "engine"} => simplex = "NONE" /\ pdlp = "NONE"
    /\ stage = "pdlp" => pdlp = "NONE"
    /\ stage = "simplex" => simplex = "NONE" /\ pdlp # "OK"
    /\ pdlp = "OK" => simplex \notin Proofs /\ (Hybrid => pdlp_good)
    /\ stage = "pdlp" => simplex \notin Proofs \cup {"OPTIMAL"}

\* The engine whose point is selected, or both, have been tried.
Tried == \/ simplex \in Proofs \cup {"OPTIMAL"}
         \/ pdlp = "OK"
         \/ simplex # "NONE" /\ pdlp # "NONE"

SelectionHolds ==
    /\ stage = "select" /\ Hybrid => Tried
    /\ stage = "gate" => /\ source \in {"presolve", "pdlp", "simplex"}
                         /\ simplex \notin Proofs
                         /\ source = "simplex" => simplex = "OPTIMAL"
                         /\ source = "pdlp" => pdlp = "OK"

HybridInv == EnginesHold /\ SelectionHolds /\ HybridIsComplete

\* Before an engine is asked for, neither has run.
LEMMA HybridInitially == LpInit => HybridInv
BY DEF LpInit, HybridInv, EnginesHold, SelectionHolds, HybridIsComplete, ProofsAreKept,
       BothWereTried, Stages, LpStatus, Proofs

\* No step of solve_lp, and none of the first-order method inside it, breaks
\* what the engines left for one another.
LEMMA HybridStep == HybridInv /\ [LpNext]_lpVars => HybridInv'
<1> USE DEF HybridInv, EnginesHold, SelectionHolds, HybridIsComplete, ProofsAreKept,
            BothWereTried, Tried, Hybrid, Stages, LpStatus, Proofs
<1> SUFFICES ASSUME HybridInv, [LpNext]_lpVars PROVE HybridInv'
    OBVIOUS
<1>1. CASE PresolveDecides
    BY <1>1 DEF PresolveDecides, Settle, engines
<1>2. CASE PresolveReduces
    BY <1>2 DEF PresolveReduces, GoTo, engines, solution
<1>3. CASE NoPresolve
    BY <1>3 DEF NoPresolve, GoTo, engines, solution
<1>4. CASE EveryColumnFixed
    BY <1>4 DEF EveryColumnFixed, Settle, engines
<1>5. CASE Lead
    BY <1>5 DEF Lead, Leader, GoTo, engines, solution
<1>6. CASE PdlpRuns
    BY <1>6 DEF PdlpRuns, engines, solution
<1>7. CASE PdlpReturns
    BY <1>7 DEF PdlpReturns, Usable, AfterPdlp, solution
<1>8. CASE PdlpThrows
    BY <1>8 DEF PdlpThrows, AfterPdlp, solution
<1>9. CASE SimplexReturns
    BY <1>9 DEF SimplexReturns, Decided, solution
<1>10. CASE SimplexThrows
    BY <1>10 DEF SimplexThrows, GoTo, engines, solution
<1>11. CASE SelectPdlp
    BY <1>11 DEF SelectPdlp, Settle, engines
<1>12. CASE SelectSimplex
    BY <1>12 DEF SelectSimplex, Settle, engines
<1>13. CASE SelectNothing
    BY <1>13 DEF SelectNothing, Settle, engines
<1>14. CASE Gate
    BY <1>14 DEF Gate, engines
<1>15. CASE UNCHANGED lpVars
    BY <1>15 DEF lpVars, engines, solution
<1> QED
    BY <1>1, <1>2, <1>3, <1>4, <1>5, <1>6, <1>7, <1>8, <1>9, <1>10, <1>11, <1>12, <1>13,
       <1>14, <1>15 DEF LpNext, Finished

\* solve_lp with HYBRID never replaces the simplex's INFEASIBLE or UNBOUNDED by
\* a guess, in whichever order the methods ran, and gives up only when both had
\* their turn, unless the caller's model refuses an optimum of the simplex.
THEOREM HybridComplete == LpSpec => []HybridIsComplete
<1>1. LpInit => HybridInv
    BY HybridInitially
<1>2. HybridInv /\ [LpNext]_lpVars => HybridInv'
    BY HybridStep
<1>3. HybridInv => HybridIsComplete
    BY DEF HybridInv
<1> QED
    BY <1>1, <1>2, <1>3, PTL DEF LpSpec

-----------------------------------------------------------------------------
(***************************************************************************)
(* The first-order method inside the pipeline.                             *)
(***************************************************************************)

\* Every step of the pipeline is a step of the first-order method or leaves it alone.
LEMMA PipelineRunsPdlp == [LpNext]_lpVars => [PdlpNext]_pdlpVars
BY DEF LpNext, lpVars, PresolveDecides, PresolveReduces, NoPresolve, EveryColumnFixed, Lead, PdlpRuns,
       PdlpReturns, PdlpThrows, SimplexReturns, SimplexThrows, SelectPdlp, SelectSimplex,
       SelectNothing, Gate, Finished, GoTo, Settle

\* solve_lp, whatever it does before and after, runs the first-order method as
\* its own module specifies it.
THEOREM PipelineImplementsPdlp == LpSpec => PdlpSpec
<1>1. LpInit => PdlpInit
    BY DEF LpInit
<1> QED
    BY <1>1, PipelineRunsPdlp, PTL DEF LpSpec, PdlpSpec

LpTypes ==
    /\ request \in Requests
    /\ stage \in {"start", "engine", "pdlp", "simplex", "select", "gate", "done", "thrown"}
    /\ simplex \in LpStatus \cup {"NONE"} /\ pdlp \in {"NONE", "FAILED", "OK"}
    /\ simplex_good \in BOOLEAN /\ pdlp_good \in BOOLEAN /\ fallback_used \in BOOLEAN
    /\ status \in LpStatus /\ source \in {"none", "presolve", "pdlp", "simplex"}

\* The simplex leads: HYBRID below the threshold of rows.
SimplexLeads == request.method = "HYBRID" /\ ~ request.large
GaveUp == {"ITERATION_LIMIT", "NUMERICAL_FAILURE"}

\* A point of the first-order method stands from its return to the answer, and
\* behind the leader it is a fallback.
AnswerInv ==
    /\ pdlp = "OK" => pc = "done" /\ outcome = "converged" /\ simplex \in GaveUp \cup {"NONE"}
    /\ stage \in {"start", "engine"} => simplex = "NONE" /\ pdlp = "NONE" /\ ~ fallback_used
    /\ stage \in {"start", "engine"} => source = "none"
    /\ stage = "pdlp" => pdlp = "NONE" /\ simplex \in GaveUp \cup {"NONE"}
    /\ stage = "simplex" => simplex = "NONE" /\ pdlp # "OK"
    /\ SimplexLeads /\ (stage = "pdlp" \/ pdlp # "NONE") => simplex \in GaveUp
    /\ stage \in {"pdlp", "simplex", "select"} => source = "none" /\ ~ fallback_used
    /\ source = "pdlp" => pdlp = "OK"
    /\ fallback_used => SimplexLeads /\ pdlp = "OK"

LEMMA AnswerInitially == LpInit => LpTypes /\ AnswerInv
BY DEF LpInit, LpTypes, AnswerInv, LpStatus, Proofs

LEMMA AnswerStep == LpTypes /\ AnswerInv /\ [LpNext]_lpVars => LpTypes' /\ AnswerInv'
<1> USE DEF LpTypes, AnswerInv, SimplexLeads, GaveUp, LpStatus, Proofs
<1> SUFFICES ASSUME LpTypes, AnswerInv, [LpNext]_lpVars PROVE LpTypes' /\ AnswerInv'
    OBVIOUS
<1>1. CASE PresolveDecides
    BY <1>1 DEF PresolveDecides, Settle, engines, pdlpVars, host
<1>2. CASE PresolveReduces
    BY <1>2 DEF PresolveReduces, GoTo, engines, solution, pdlpVars, host
<1>3. CASE NoPresolve
    BY <1>3 DEF NoPresolve, GoTo, engines, solution, pdlpVars, host
<1>4. CASE EveryColumnFixed
    BY <1>4 DEF EveryColumnFixed, Settle, engines, pdlpVars, host
<1>5. CASE Lead
    BY <1>5 DEF Lead, Leader, GoTo, engines, solution, pdlpVars, host
<1>6. CASE PdlpRuns
    BY <1>6 DEF PdlpRuns, engines, solution
<1>7. CASE PdlpReturns
    BY <1>7 DEF PdlpReturns, Usable, AfterPdlp, solution, pdlpVars, host
<1>8. CASE PdlpThrows
    BY <1>8 DEF PdlpThrows, AfterPdlp, solution, pdlpVars, host
<1>9. CASE SimplexReturns
    BY <1>9 DEF SimplexReturns, Decided, solution, pdlpVars, host
<1>10. CASE SimplexThrows
    BY <1>10 DEF SimplexThrows, GoTo, engines, solution, pdlpVars, host
<1>11. CASE SelectPdlp
    BY <1>11 DEF SelectPdlp, Settle, engines, pdlpVars, host
<1>12. CASE SelectSimplex
    BY <1>12 DEF SelectSimplex, Settle, engines, pdlpVars, host
<1>13. CASE SelectNothing
    BY <1>13 DEF SelectNothing, Settle, engines, pdlpVars, host
<1>14. CASE Gate
    BY <1>14 DEF Gate, engines, pdlpVars, host
<1>15. CASE UNCHANGED lpVars
    BY <1>15 DEF lpVars, engines, solution, pdlpVars, host
<1> QED
    BY <1>1, <1>2, <1>3, <1>4, <1>5, <1>6, <1>7, <1>8, <1>9, <1>10, <1>11, <1>12, <1>13,
       <1>14, <1>15 DEF LpNext, Finished

LEMMA AnswerInvariant == LpSpec => [](LpTypes /\ AnswerInv)
<1> QED
    BY AnswerInitially, AnswerStep, PTL DEF LpSpec

\* However far the host runs ahead of the device, and in whatever order blocks
\* retire, every launch finds a clear ticket counter and the host decides on
\* complete values of the points it decides about: inside solve_lp too.
THEOREM StreamIsConsistent == LpSpec => []StreamConsistent
<1>1. PdlpInv /\ LpTypes => StreamConsistent
    BY PdlpImplies DEF StreamConsistent, LpTypeOK, LpTypes
<1> QED
    BY <1>1, PipelineImplementsPdlp, PdlpInvariant, AnswerInvariant, PTL

\* The dual steps that solve_lp pays for all extrapolate the right iterates.
THEOREM PipelineExtrapolates == LpSpec => []ExtrapolationIsCurrent
<1> QED
    BY PipelineImplementsPdlp, ExtrapolationCurrent, PTL

\* The average solve_lp may answer with is the mean of what was summed.
THEOREM PipelineAverages == LpSpec => []AverageIsMean
<1> QED
    BY PipelineImplementsPdlp, AverageMean, PTL

\* A first-order answer of solve_lp is the point whose residuals were within the
\* tolerance, and fallback_used means that the simplex gave up before.
THEOREM ConvergedPointIsAnswered == LpSpec => []ConvergedPointAnswered
<1>1. PdlpInv /\ AnswerInv => ConvergedPointAnswered
    <2> SUFFICES ASSUME PdlpInv, AnswerInv PROVE ConvergedPointAnswered
        OBVIOUS
    <2>1. ConvergedPointIsBest
        BY PdlpImplies
    <2> QED
        BY <2>1 DEF ConvergedPointAnswered, AnswerConverged, ConvergedPointIsBest, AnswerInv, GaveUp,
           SimplexLeads
<1> QED
    BY <1>1, PipelineImplementsPdlp, PdlpInvariant, AnswerInvariant, PTL

=============================================================================

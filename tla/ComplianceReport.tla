-------------------------- MODULE ComplianceReport --------------------------
(***************************************************************************)
(* What a TPC-C run measures and the compliance report it ends with        *)
(* (internal/workloads/tpcc: the metric side of tpcc.go and procs.go, and  *)
(* report.go; pkg/bench/snapshot.go).                                      *)
(*                                                                         *)
(* The virtual users run transactions under Retry0 and record totals, one  *)
(* duration per transaction into a fixed-bucket histogram, and, on a paced *)
(* run, the New-Orders completed per slot of wall-clock time.  Teardown    *)
(* folds these into a report.  The clock counts whole milliseconds, the    *)
(* resolution durations are recorded with; a rate is a fraction.           *)
(***************************************************************************)
EXTENDS Integers, Sequences, FiniteSets, FiniteSetsExt, SequencesExt

CONSTANTS
    VUs,            \* the virtual users
    Kinds,          \* transactions of the mix that are run
    Variants,       \* "tx": DML steps, "procs": stored procedures
    MaxAttempts,    \* retry-attempts, at least one
    Bounds,         \* upper bounds of the duration buckets, ascending
    ShortCeiling,   \* 5 s, the ceiling of all types but one
    LongCeiling,    \* 20 s, Stock-Level's
    SlotWidth,      \* steadySlotWidth
    SlotCount,      \* steadySlotCount
    BinCount,       \* steadyBinCount
    MinSteadySlots,
    MinSteadyBins,
    MaxTransactions,\* bound: transactions of a run
    MaxClock        \* bound: the time the last one may end

ASSUME ReportAssumption ==
    /\ IsFiniteSet(VUs)
    /\ Kinds \subseteq {"new_order", "payment", "order_status", "delivery",
                        "stock_level"}
    /\ Variants \subseteq {"tx", "procs"}
    /\ {MaxAttempts, SlotWidth, SlotCount, BinCount} \subseteq Nat \ {0}
    /\ {MinSteadySlots, MinSteadyBins, MaxTransactions, MaxClock} \subseteq Nat
    /\ Bounds \in Seq(Nat) /\ Bounds # <<>>
    /\ \A i \in 2..Len(Bounds) : Bounds[i - 1] < Bounds[i]
    /\ {ShortCeiling, LongCeiling} \subseteq Range(Front(Bounds))

Ceiling(k) == IF k = "stock_level" THEN LongCeiling ELSE ShortCeiling

\* mixMin*Pct and mixTolerancePct.
MixMinPct(k) ==
    CASE k = "new_order" -> 45 [] k = "payment" -> 43 [] OTHER -> 4

MixTolerancePct == 1

VARIABLES
    variant,   \* the workload's
    pacing,    \* keying and think times, and verdicts
    phase,     \* of the run: "setup", "run", "teardown", "over"
    cancelled, \* the iterations' context
    clock,
    measureStart, \* when Setup ended
    pc,        \* where each VU stands
    kind,      \* its transaction
    forced,    \* the spec-mandated rollback was decided for it
    attempt,   \* Retry0's attempt
    seen,      \* wasBC, bynameObserved: what the attempt came across
    err,       \* what the transaction's Retry0 returned, "nil" before
    start,     \* when it began
    total,     \* *_total, per type
    hist,      \* *_duration: observations per bucket, the last is overflow
    notes,     \* payment_bc and order_status_byname
    rollback,  \* rollback_decided and rollback_done
    slots,     \* New-Orders completed per slot, <<>> when there is no tracker
    truncated, \* a completion fell past the last slot
    report,    \* the report that was written, if any
    durations, \* history: how many transactions of each type took how long
    completed  \* history: New-Orders that succeeded, and when

measured == <<total, hist, notes, rollback, slots, truncated>>
perVU == <<pc, kind, forced, attempt, seen, err, start>>
run == <<variant, pacing, phase, cancelled, clock, measureStart, report>>
history == <<durations, completed>>
vars == <<run, perVU, measured, history>>

Buckets == 1..(Len(Bounds) + 1)

\* The bucket an observation falls into: the first whose bound it does not exceed.
Bucket(d) ==
    Min({i \in 1..Len(Bounds) : d <= Bounds[i]} \cup {Len(Bounds) + 1})

Count(h) == FoldFunction(+, 0, h)

TypeOK ==
    /\ variant \in Variants
    /\ {pacing, cancelled, truncated} \subseteq BOOLEAN
    /\ phase \in {"setup", "run", "teardown", "over"}
    /\ clock \in 0..(MaxClock + 1)
    /\ measureStart \in -1..MaxClock
    /\ pc \in [VUs -> {"idle", "picked", "attempt", "steady", "record", "stopped"}]
    /\ kind \in [VUs -> Kinds \cup {"none"}]
    /\ {forced, seen} \subseteq [VUs -> BOOLEAN]
    /\ err \in [VUs -> {"nil", "error", "raised"}]
    /\ attempt \in [VUs -> 0..MaxAttempts]
    /\ start \in [VUs -> 0..MaxClock]
    /\ {total, notes} \subseteq [Kinds -> Nat]
    /\ hist \in [Kinds -> [Buckets -> Nat]]
    /\ rollback \in [decided : Nat, done : Nat]
    /\ slots \in {<<>>} \cup [1..SlotCount -> Nat]
    /\ durations \in [Kinds -> [0..MaxClock -> Nat]]
    /\ completed \in Seq(0..MaxClock)

Init ==
    /\ variant \in Variants
    /\ pacing \in BOOLEAN
    /\ phase = "setup"
    /\ cancelled = FALSE
    /\ clock = 0
    /\ measureStart = -1
    /\ pc = [v \in VUs |-> "idle"]
    /\ kind = [v \in VUs |-> "none"]
    /\ forced = [v \in VUs |-> FALSE]
    /\ attempt = [v \in VUs |-> 0]
    /\ seen = [v \in VUs |-> FALSE]
    /\ err = [v \in VUs |-> "nil"]
    /\ start = [v \in VUs |-> 0]
    /\ total = [k \in Kinds |-> 0]
    /\ hist = [k \in Kinds |-> [b \in Buckets |-> 0]]
    /\ notes = [k \in Kinds |-> 0]
    /\ rollback = [decided |-> 0, done |-> 0]
    /\ slots = <<>>
    /\ truncated = FALSE
    /\ report = <<>>
    /\ durations = [k \in Kinds |-> [d \in 0..MaxClock |-> 0]]
    /\ completed = <<>>

-----------------------------------------------------------------------------
(* The run around the transactions.                                        *)

\* The measurement window opens; only a paced run gets a tracker.
SetupDone ==
    /\ phase = "setup"
    /\ phase' = "run"
    /\ measureStart' = clock
    /\ slots' = IF pacing THEN [s \in 1..SlotCount |-> 0] ELSE <<>>
    /\ UNCHANGED <<variant, pacing, cancelled, clock, report, perVU, history>>
    /\ UNCHANGED <<total, hist, notes, rollback, truncated>>

\* Teardown runs, and reports, after a failed Setup as well.
SetupFails ==
    /\ phase = "setup"
    /\ phase' = "teardown"
    /\ UNCHANGED <<variant, pacing, cancelled, clock, measureStart, report>>
    /\ UNCHANGED <<perVU, measured, history>>

Cancel ==
    /\ phase = "run"
    /\ ~cancelled
    /\ cancelled' = TRUE
    /\ UNCHANGED <<variant, pacing, phase, clock, measureStart, report>>
    /\ UNCHANGED <<perVU, measured, history>>

Tick ==
    /\ phase = "run"
    /\ clock < MaxClock
    /\ clock' = clock + 1
    /\ UNCHANGED <<variant, pacing, phase, cancelled, measureStart, report>>
    /\ UNCHANGED <<perVU, measured, history>>

\* Every worker has returned; the clock moves on before Teardown reads it.
WorkersDone ==
    /\ phase = "run"
    /\ \A v \in VUs : pc[v] = "stopped"
    /\ phase' = "teardown"
    /\ clock' = clock + 1
    /\ UNCHANGED <<variant, pacing, cancelled, measureStart, report>>
    /\ UNCHANGED <<perVU, measured, history>>

-----------------------------------------------------------------------------
(* One virtual user.                                                       *)

Goto(v, label) == pc' = [pc EXCEPT ![v] = label]

Begun == Count(total) + Cardinality({v \in VUs : pc[v] = "picked"})

\* The worker's context check and the weighted pick; the keying time that
\* follows on a paced run passes whatever becomes of the context.
Pick(v) ==
    /\ phase = "run"
    /\ pc[v] = "idle"
    /\ ~cancelled
    /\ Begun < MaxTransactions
    /\ Goto(v, "picked")
    /\ kind' \in {[kind EXCEPT ![v] = k] : k \in Kinds}
    /\ UNCHANGED <<run, forced, attempt, seen, err, start, measured, history>>

\* The budget, the deadline or the cancelled context ends the worker.
Leave(v) ==
    /\ phase = "run"
    /\ pc[v] = "idle"
    /\ Goto(v, "stopped")
    /\ UNCHANGED <<run, kind, forced, attempt, seen, err, start, measured, history>>

\* The transaction is counted and its time starts; New-Order decides on the
\* rollback.
StartTx(v) ==
    /\ pc[v] = "picked"
    /\ Goto(v, "attempt")
    /\ total' = [total EXCEPT ![kind[v]] = @ + 1]
    /\ start' = [start EXCEPT ![v] = clock]
    /\ attempt' = [attempt EXCEPT ![v] = 1]
    /\ seen' = [seen EXCEPT ![v] = FALSE]
    /\ err' = [err EXCEPT ![v] = "nil"]
    /\ \E f \in IF kind[v] = "new_order" THEN BOOLEAN ELSE {FALSE} :
           /\ forced' = [forced EXCEPT ![v] = f]
           /\ rollback' = [rollback EXCEPT !.decided = @ + IF f THEN 1 ELSE 0]
    /\ UNCHANGED <<run, kind, hist, notes, slots, truncated, history>>

ReturnsNil(v) ==
    /\ Goto(v, IF kind[v] = "new_order" THEN "steady" ELSE "record")
    /\ UNCHANGED <<err, attempt>>

\* Mutant: only a success is measured.
ReturnsUnmeasured(v, error) ==
    /\ Goto(v, "stopped")
    /\ err' = [err EXCEPT ![v] = error]
    /\ UNCHANGED attempt

Returns(v, error) ==
    /\ Goto(v, "record")
    /\ err' = [err EXCEPT ![v] = error]
    /\ UNCHANGED attempt

Retries(v) ==
    /\ attempt[v] < MaxAttempts
    /\ attempt' = [attempt EXCEPT ![v] = @ + 1]
    /\ UNCHANGED <<pc, err>>

\* Retry0's context check before every attempt.
AttemptCanceled(v) ==
    /\ pc[v] = "attempt"
    /\ cancelled
    /\ Returns(v, "error")
    /\ UNCHANGED <<run, kind, forced, seen, start, measured, history>>

\* Payment's attempt may come to a customer of bad credit; the stored procedure
\* keeps that to itself.
MeetsBadCredit(v) == kind[v] = "payment" /\ variant = "tx"

\* Order-Status's attempt may find its customer by name, or ask the procedure to.
FindsByName(v) == kind[v] = "order_status"

\* Every attempt looks afresh.
Looks(v) ==
    \E b \in IF MeetsBadCredit(v) \/ FindsByName(v) THEN BOOLEAN ELSE {FALSE} :
        seen' = [seen EXCEPT ![v] = b]

\* An error's text: what it begins with, and the cause it wraps.
BodySentinel == [head |-> "tpcc_rollback:", cause |-> "tpcc_rollback:"]
ServerRaise == [head |-> "tx query: ", cause |-> "tpcc_rollback:"]

\* strings.HasPrefix of the whole text.
IsRollbackSentinel(e) == e.head = "tpcc_rollback:"

DoneRollback == rollback' = [rollback EXCEPT !.done = @ + 1]

\* The invalid item of the DML variant: counted before the rollback is tried,
\* which may fail with an error that is retried or not.
SentinelRollback(v) ==
    /\ forced[v] /\ variant = "tx"
    /\ IsRollbackSentinel(BodySentinel)
    /\ DoneRollback
    /\ ReturnsNil(v) \/ Returns(v, "error") \/ Retries(v)

\* The procedure rolls back by itself; what it raises comes back through the
\* driver and is an unknown error to the policy.
ProcedureRollback(v) ==
    /\ forced[v] /\ variant = "procs"
    /\ IF IsRollbackSentinel(ServerRaise)
       THEN DoneRollback /\ ReturnsNil(v)
       ELSE Returns(v, "raised") /\ UNCHANGED rollback

\* One attempt of the transaction: it commits, it rolls back as the
\* specification asks, or it fails with an error that is retried or not.
Attempt(v) ==
    /\ pc[v] = "attempt"
    /\ ~cancelled
    /\ Looks(v)
    /\ \/ /\ \/ ~forced[v] /\ ReturnsNil(v)
             \/ Returns(v, "error")
             \/ Retries(v)
          /\ UNCHANGED rollback
       \/ SentinelRollback(v)
       \/ ProcedureRollback(v)
    /\ UNCHANGED <<run, kind, forced, start, history>>
    /\ UNCHANGED <<total, hist, notes, slots, truncated>>

\* steady.record: the slot that covers now, or the mark that there is none.
Slot == ((clock - measureStart) \div SlotWidth) + 1

RecordSteady(v) ==
    /\ pc[v] = "steady"
    /\ Goto(v, "record")
    /\ completed' = Append(completed, clock)
    /\ CASE slots = <<>>     -> UNCHANGED <<slots, truncated>>
         [] Slot > SlotCount -> truncated' = TRUE /\ UNCHANGED slots
         [] OTHER            -> slots' = [slots EXCEPT ![Slot] = @ + 1]
                                /\ UNCHANGED truncated
    /\ UNCHANGED <<run, kind, forced, attempt, seen, err, start, durations>>
    /\ UNCHANGED <<total, hist, notes, rollback>>

\* The counts after Retry0 and the deferred duration, whatever the outcome; an
\* error ends the worker, otherwise the think time precedes its next check.
RecordDuration(v) ==
    /\ pc[v] = "record"
    /\ Goto(v, IF err[v] = "nil" THEN "idle" ELSE "stopped")
    /\ notes' = [notes EXCEPT ![kind[v]] = @ + IF seen[v] THEN 1 ELSE 0]
    /\ LET d == clock - start[v] IN
       /\ hist' = [hist EXCEPT ![kind[v]][Bucket(d)] = @ + 1]
       /\ durations' = [durations EXCEPT ![kind[v]][d] = @ + 1]
    /\ kind' = [kind EXCEPT ![v] = "none"]
    /\ start' = [start EXCEPT ![v] = 0]
    /\ attempt' = [attempt EXCEPT ![v] = 0]
    /\ forced' = [forced EXCEPT ![v] = FALSE]
    /\ seen' = [seen EXCEPT ![v] = FALSE]
    /\ err' = [err EXCEPT ![v] = "nil"]
    /\ UNCHANGED <<run, completed, total, rollback, slots, truncated>>

VU(v) == \/ Pick(v) \/ Leave(v) \/ StartTx(v) \/ AttemptCanceled(v) \/ Attempt(v)
         \/ RecordSteady(v) \/ RecordDuration(v)

-----------------------------------------------------------------------------
(* The report.                                                             *)

\* Mutant: the rank counts from zero.
RankFromZero(n, q) == ((n - 1) * q) \div 100

\* The bound of the bucket that holds the observation of rank
\* uint((n-1)*q)+1, q in hundredths; the overflow bucket reads as the last bound.
Rank(n, q) == ((n - 1) * q) \div 100 + 1

Quantile(h, q) ==
    IF Count(h) = 0 THEN 0
    ELSE LET upTo(b) == Count([c \in 1..b |-> h[c]])
             b == Min({c \in Buckets : upTo(c) >= Rank(Count(h), q)})
         IN  Bounds[Min({b, Len(Bounds)})]

Measured == [k \in Kinds |-> Count(hist[k])]

MixPass(k) ==
    LET n == Count(Measured)
        floorPct == MixMinPct(k) - MixTolerancePct
    IN  IF n = 0 THEN 0 >= floorPct ELSE 100 * Measured[k] >= floorPct * n

\* A type never measured gets no verdict.
ResponsePass(k) ==
    IF Measured[k] = 0 THEN "none"
    ELSE IF Quantile(hist[k], 90) <= Ceiling(k) THEN "pass" ELSE "fail"

Verdict(b) == IF b THEN "pass" ELSE "fail"

\* Mutant: the part of a slot or a window is dropped.
FloorDiv(a, b) == a \div b

CeilDiv(a, b) == (a + b - 1) \div b

\* steady.snapshot: the slots that began within elapsed.
SeriesOf(elapsed) ==
    SubSeq(slots, 1, Min({CeilDiv(elapsed, SlotWidth), Len(slots)}))

Total(seq) == FoldLeft(+, 0, seq)

\* rebucketRates: New-Orders and slots of each window, the last may be short.
Windows(series) ==
    LET n == Len(series)
        width == CeilDiv(n, Min({BinCount, n}))
        last(i) == Min({i * width, n})
    IN  IF n = 0 THEN <<>>
        ELSE [i \in 1..CeilDiv(n, width) |->
                 LET first == (i - 1) * width + 1 IN
                 [orders |-> Total(SubSeq(series, first, last(i))),
                  slots |-> last(i) - first + 1]]

\* meanStd and the comparison of the coefficient of variation with 0.30: the rates
\* are taken over a common denominator.
Spread(windows) ==
    LET n == Len(windows)
        unit == FoldLeft(LAMBDA u, w : u * w.slots, 1, windows)
        rate == [i \in 1..n |-> windows[i].orders * (unit \div windows[i].slots)]
        sum == Total(rate)
        squares == Total([i \in 1..n |-> rate[i] * rate[i]])
    IN  Verdict(100 * (n * squares - sum * sum) <= 9 * sum * sum)

Steadiness(series) ==
    LET windows == Windows(series)
        active == {i \in DOMAIN windows : windows[i].orders > 0}
    IN  IF Len(series) = 0 \/ Len(series) < MinSteadySlots
             \/ Cardinality(active) < MinSteadyBins
        THEN "insufficient" ELSE Spread(windows)

\* complianceReport: verdicts are for paced runs only.
Report(elapsed) ==
    [paced |-> pacing,
     count |-> Measured,
     mix |-> IF pacing THEN Verdict(\A k \in Kinds : MixPass(k)) ELSE "none",
     response |-> IF pacing
                  THEN Verdict(\A k \in Kinds : ResponsePass(k) # "fail")
                  ELSE "none",
     types |-> [k \in Kinds |-> IF pacing THEN ResponsePass(k) ELSE "none"],
     series |-> SeriesOf(elapsed),
     truncated |-> truncated,
     steadiness |-> IF pacing THEN Steadiness(SeriesOf(elapsed)) ELSE "none"]

\* Teardown: the elapsed time of a failed Setup is since the zero time; the metrics
\* may fail to be collected.
EmitReport ==
    /\ phase = "teardown"
    /\ phase' = "over"
    /\ report' \in {<<>>, <<Report(clock - measureStart)>>}
    /\ UNCHANGED <<variant, pacing, cancelled, clock, measureStart>>
    /\ UNCHANGED <<perVU, measured, history>>

Over == phase = "over" /\ UNCHANGED vars

Next == \/ SetupDone \/ SetupFails \/ Cancel \/ Tick \/ (\E v \in VUs : VU(v))
        \/ WorkersDone \/ EmitReport \/ Over

Spec == Init /\ [][Next]_vars

-----------------------------------------------------------------------------
(* Properties.                                                             *)

Reported == report # <<>>
Within(k) == Count([d \in {e \in 0..MaxClock : e <= Ceiling(k)} |-> durations[k][d]])

\* The verdicts are those of the transactions that ran, although the report sees only
\* histograms.  A type passes when nine in ten of its transactions were within the
\* ceiling, and when it passes that holds but for one of them at most; and a run that
\* passes both its mix and its response times is a paced one that measured every type.
VerdictIsTrue ==
    Reported =>
        /\ report[1].paced => \A k \in Kinds : LET n == Count(durations[k]) IN
            /\ n > 0 /\ 10 * Within(k) >= 9 * n => report[1].types[k] = "pass"
            /\ report[1].types[k] = "pass" => n > 0 /\ 10 * (Within(k) + 1) >= 9 * n
        /\ report[1].mix = "pass" /\ report[1].response = "pass" =>
            /\ report[1].paced
            /\ \A k \in Kinds : Count(durations[k]) > 0 /\ report[1].types[k] = "pass"

\* Every transaction that was started is measured exactly once, when it ends and
\* whatever its retries and its outcome.
MeasuredOnce ==
    \A k \in Kinds :
        total[k] = Count(hist[k]) + Cardinality(
            {v \in VUs : kind[v] = k /\ pc[v] \in {"attempt", "steady", "record"}})

\* The series a paced report judges holds every New-Order that succeeded within its
\* capacity, the last slot included, and says so when it does not hold them all;
\* its windows partition the series and are no more than BinCount.
SeriesIsWhole ==
    Reported /\ slots # <<>> =>
        LET series == report[1].series
            windows == Windows(series)
            early == {i \in DOMAIN completed : completed[i] - measureStart < SlotCount * SlotWidth}
        IN  /\ Total(series) = Cardinality(early)
            /\ report[1].truncated <=> early # DOMAIN completed
            /\ Len(windows) <= BinCount
            /\ Total([i \in DOMAIN windows |-> windows[i].orders]) = Total(series)
            /\ Total([i \in DOMAIN windows |-> windows[i].slots]) = Len(series)

\* "Treat it as a spec-mandated success": a worker is not stopped by the rollback the
\* procedure was asked for.
SpecRollbackSucceeds == \A v \in VUs : err[v] # "raised"
=============================================================================

--------------------------- MODULE RunStatistics ---------------------------
(***************************************************************************)
(* internal/benchrunner/stats.go and what is made of its samples in        *)
(* internal/benchmarkrun (sample.go, metrics.go): counters and a latency   *)
(* histogram under a mutex, filled by the workers, closed by finish and    *)
(* read by whoever asks for results or scrapes metrics.                    *)
(*                                                                         *)
(* All three read the clock before they take the mutex, so a call brings a *)
(* time that may be older than what earlier calls have left: an action is  *)
(* the critical section of one call, with any time up to now.  Samples are *)
(* taken one at a time under the coordinator's mutex.  Time counts from    *)
(* runStartedAt = 0; latencies and bucket bounds are in the same unit.     *)
(* How workers come to make these calls, who finishes a run, what becomes  *)
(* of its latest error and of the client counts is in module ActiveRun.    *)
(***************************************************************************)
EXTENDS Integers, Sequences, FiniteSets, SequencesExt

CONSTANTS
    Kinds,      \* operation kinds of the workload
    Latencies,  \* durations of operations, negative when the clock is set back
    Bounds,     \* upper bounds of the latency buckets
    Warmup,     \* measurementStartedAt
    MaxTime,    \* bound: the clock stops here
    MaxOps      \* bound: operations recorded

ASSUME StatisticsAssumption ==
    /\ Bounds \in Seq(Nat) /\ Bounds # <<>>
    /\ \A i \in 1..(Len(Bounds) - 1) : Bounds[i] < Bounds[i + 1]
    /\ Latencies \subseteq Int
    /\ Warmup \in Nat /\ MaxTime \in Nat /\ MaxOps \in Nat

None == -1      \* a nil *time.Time

Percentiles == {50, 90, 95, 99}

VARIABLES
    now,        \* the clock
    stats,      \* the fields of runStats
    log,        \* history: the operations given to record, as a bag
    sampledAt,  \* when the latest sample was taken
    shown       \* the elapsed time it reported

vars == <<now, stats, log, sampledAt, shown>>

-----------------------------------------------------------------------------
\* buildLatencyBucketBounds, in milliseconds.
buildLatencyBucketBounds ==
    [k \in 1..100 |-> k] \o [k \in 1..80 |-> 100 + (5 * k)] \o
    [k \in 1..50 |-> 500 + (10 * k)] \o [k \in 1..90 |-> 1000 + (100 * k)]

newLatencyHistogram ==
    [counts |-> [i \in 1..(Len(Bounds) + 1) |-> 0],
     total |-> 0, sum |-> 0, min |-> 0, max |-> 0]

MutantBucketIndex(latency) ==
    Cardinality({i \in DOMAIN Bounds : Bounds[i] <= latency}) + 1

\* sort.Search for the first bound that is not exceeded; one past the last
\* bound is the overflow bucket.
BucketIndex(latency) ==
    Cardinality({i \in DOMAIN Bounds : Bounds[i] < latency}) + 1

HistogramRecord(h, duration) ==
    LET latency == IF duration < 0 THEN 0 ELSE duration
    IN  [counts |-> [h.counts EXCEPT ![BucketIndex(latency)] = @ + 1],
         total |-> h.total + 1,
         sum |-> h.sum + latency,
         min |-> IF h.total = 0 \/ latency < h.min THEN latency ELSE h.min,
         max |-> IF h.total = 0 \/ latency > h.max THEN latency ELSE h.max]

Cumulative(h, i) == SumFunctionOnSet(h.counts, 1..i)

metricsSnapshot(h) ==
    [buckets |-> [i \in DOMAIN Bounds |-> Cumulative(h, i)],
     count |-> h.total, sum |-> h.sum]

MutantRank(h, percentile) == (percentile * h.total) \div 100

\* rank is the percentile of the total, rounded up, and at least one.
Rank(h, percentile) ==
    Max({1, ((percentile * h.total) + 99) \div 100})

\* The first bucket that reaches the rank, by its bound; the overflow bucket
\* has none.
quantile(h, percentile) ==
    LET reached == {i \in DOMAIN Bounds :
                       Cumulative(h, i) >= Rank(h, percentile)}
    IN  IF h.total = 0 THEN 0
        ELSE IF reached # {} THEN Bounds[Min(reached)] ELSE h.max

-----------------------------------------------------------------------------
newRunStats ==
    [finishedAt |-> None, succeeded |-> 0, failed |-> 0, total |-> 0,
     perKind |-> [k \in Kinds |-> 0], latency |-> newLatencyHistogram]

\* runStats.record: o is [kind, latency, completedAt, err].
Record(s, o) ==
    IF o.completedAt < Warmup
    THEN s
    ELSE [s EXCEPT !.total = @ + 1,
                   !.succeeded = IF o.err = "" THEN @ + 1 ELSE @,
                   !.failed = IF o.err = "" THEN @ ELSE @ + 1,
                   !.perKind[o.kind] = @ + 1,
                   !.latency = HistogramRecord(@, o.latency)]

Finish(s, at) == [s EXCEPT !.finishedAt = IF @ = None THEN at ELSE @]

MutantElapsed(s, at) ==
    (IF s.finishedAt # None THEN s.finishedAt ELSE at) - Warmup

Elapsed(s, at) ==
    LET endAt == IF s.finishedAt # None THEN s.finishedAt ELSE at
    IN  IF endAt > Warmup THEN endAt - Warmup ELSE 0

\* A quotient is kept as <<numerator, denominator>>.
averageMilliseconds(h) == IF h.total = 0 THEN <<0, 1>> ELSE <<h.sum, h.total>>

sampleLocked(s, at) ==
    [elapsed |-> Elapsed(s, at),
     total |-> s.total, succeeded |-> s.succeeded, failed |-> s.failed,
     perKind |-> s.perKind,
     min |-> s.latency.min, max |-> s.latency.max,
     average |-> averageMilliseconds(s.latency),
     quantiles |-> [p \in Percentiles |-> quantile(s.latency, p)],
     histogram |-> metricsSnapshot(s.latency)]

-----------------------------------------------------------------------------
(* What internal/benchmarkrun derives from a sample.                       *)

ratePerSecond(count, elapsed) ==
    IF count = 0 \/ elapsed <= 0 THEN <<0, 1>> ELSE <<count, elapsed>>

\* Sample.Stats: the figures of GET /benchmark/results that are computed.
SampleStats(s) ==
    [tps |-> ratePerSecond(s.total, s.elapsed),
     operationRates |->
        [k \in Kinds |-> ratePerSecond(s.perKind[k], s.elapsed)]]

\* Sample.Metrics.
Metrics(s, runActive) ==
    [runActive |-> runActive, duration |-> s.elapsed, operations |-> s.total,
     errors |-> s.failed, tps |-> ratePerSecond(s.total, s.elapsed),
     latency |-> s.histogram]

\* The series of GET /metrics.  The last bucket is the one labelled +Inf.
WritePrometheus(m) ==
    [run_active |-> IF m.runActive THEN 1 ELSE 0,
     run_duration_seconds |-> m.duration,
     operations_total |-> m.operations,
     operation_errors_total |-> m.errors,
     tps |-> m.tps,
     latency_bucket |-> Append(m.latency.buckets, m.latency.count),
     latency_count |-> m.latency.count,
     latency_sum |-> m.latency.sum]

-----------------------------------------------------------------------------
Init ==
    /\ now = 0
    /\ stats = newRunStats
    /\ log = EmptyBag
    /\ sampledAt = 0
    /\ shown = 0

Tick ==
    /\ now < MaxTime
    /\ now' = now + 1
    /\ UNCHANGED <<stats, log, sampledAt, shown>>

RecordOperation ==
    /\ BagCardinality(log) < MaxOps
    /\ \E o \in [kind : Kinds, latency : Latencies, completedAt : 0..now,
                err : {"", "error"}] :
          /\ stats' = Record(stats, o)
          /\ log' = log (+) SetToBag({o})
    /\ UNCHANGED <<now, sampledAt, shown>>

\* finishOnce calls it once for a run.
FinishRun ==
    /\ stats.finishedAt = None
    /\ \E at \in 0..now : stats' = Finish(stats, at)
    /\ UNCHANGED <<now, log, sampledAt, shown>>

TakeSample ==
    /\ \E at \in sampledAt..now : shown' = sampleLocked(stats, at).elapsed
    /\ sampledAt' = now
    /\ UNCHANGED <<now, stats, log>>

Next == Tick \/ RecordOperation \/ FinishRun \/ TakeSample

Spec == Init /\ [][Next]_vars

-----------------------------------------------------------------------------
TypeOK ==
    /\ now \in 0..MaxTime
    /\ stats.finishedAt \in {None} \cup 0..now
    /\ stats.perKind \in [Kinds -> Nat]
    /\ stats.latency.counts \in [1..(Len(Bounds) + 1) -> Nat]
    /\ sampledAt \in 0..now /\ shown \in 0..MaxTime

\* The operations the run is measured by: those that complete when the warm-up
\* is over, whenever they began and whenever they are recorded.
Measured == {o \in DOMAIN log : o.completedAt >= Warmup}

Number(S) == SumFunctionOnSet(log, S)

Duration(o) == Max({0, o.latency})

Within(bound) == Number({o \in Measured : Duration(o) <= bound})

(***************************************************************************)
(* Every figure of the results and of a scrape is about the same measured  *)
(* operations: bucket by bucket the exposition counts the operations that  *)
(* took no longer than its bound, +Inf and _count are the operations in    *)
(* total, sum, minimum and maximum are theirs, failures and successes add  *)
(* up, and so do the kinds (stats.go:64-85, 123-157, metrics.go:33-101).   *)
(***************************************************************************)
FiguresMatchOperations ==
    LET s == sampleLocked(stats, now)
        series == WritePrometheus(Metrics(s, TRUE))
        durations == {Duration(o) : o \in Measured}
    IN  /\ series.latency_bucket =
              Append([i \in DOMAIN Bounds |-> Within(Bounds[i])],
                     Number(Measured))
        /\ series.latency_count = Number(Measured)
        /\ series.operations_total = Number(Measured)
        /\ series.latency_sum =
              SumFunctionOnSet([o \in Measured |-> log[o] * Duration(o)],
                               Measured)
        /\ series.operation_errors_total =
              Number({o \in Measured : o.err # ""})
        /\ s.total = s.succeeded + s.failed
        /\ durations # {} => s.min = Min(durations) /\ s.max = Max(durations)
        /\ \A k \in Kinds :
              SampleStats(s).operationRates[k] =
                 ratePerSecond(Number({o \in Measured : o.kind = k}), s.elapsed)

(***************************************************************************)
(* A percentile is what the histogram can say of the operation at its      *)
(* rank: at most the complementary share of the operations was slower than *)
(* it, and that is true of no smaller bound; beyond the last bound it is   *)
(* the slowest operation (stats.go:159-182).                               *)
(***************************************************************************)
PercentilesAreRanks ==
    Measured # {} =>
    \A p \in Percentiles :
       LET q == quantile(stats.latency, p)
           Enough(bound) == 100 * Within(bound) >= p * Number(Measured)
       IN  /\ Enough(q)
           /\ q \in ToSet(Bounds) \cup {stats.latency.max}
           /\ \A i \in DOMAIN Bounds : Bounds[i] < q => ~Enough(Bounds[i])

(***************************************************************************)
(* To whoever polls, elapsed time only goes forward until the run is       *)
(* finished; then it changes at most once more, possibly back, to the time *)
(* finish had read before it got the mutex, and is settled                 *)
(* (runtime.go:102-104, 135, stats.go:91-94, 205-216).                     *)
(***************************************************************************)
ElapsedSettles ==
    [][shown' # shown =>
          IF stats.finishedAt = None
          THEN shown' > shown
          ELSE shown' = Max({0, stats.finishedAt - Warmup})]_vars
=============================================================================

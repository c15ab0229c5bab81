------------------------ MODULE RunStatisticsProofs ------------------------
(***************************************************************************)
(* Proofs about RunStatistics for any bounds, latencies, warm-up and       *)
(* number of operations: the counters agree with each other and with the   *)
(* recorded operations, percentiles are ranks, elapsed time settles.       *)
(***************************************************************************)
EXTENDS RunStatistics, FiniteSums

Histograms ==
    [counts : [1..(Len(Bounds) + 1) -> Nat], total : Nat, sum : Nat,
     min : Nat, max : Nat]

Stats ==
    [finishedAt : Int, succeeded : Nat, failed : Nat, total : Nat,
     perKind : [Kinds -> Nat], latency : Histograms]

(***************************************************************************)
(* The counters under the mutex agree with each other: an operation is     *)
(* counted once as a success or a failure and once by the histogram, whose *)
(* extremes are in order.                                                  *)
(***************************************************************************)
CountersAgree ==
    /\ stats.total = stats.succeeded + stats.failed
    /\ stats.latency.total = stats.total
    /\ stats.latency.min <= stats.latency.max

\* No sample of a run under way has shown more than its time has allowed.
ShownIsPast ==
    stats.finishedAt = None =>
       shown = 0 \/ shown <= sampledAt - Warmup

StatsInv ==
    /\ stats \in Stats
    /\ TypeOK
    /\ CountersAgree
    /\ ShownIsPast

-----------------------------------------------------------------------------
LEMMA ElapsedIsTime ==
    ASSUME NEW s \in Stats, NEW at \in Nat, s.finishedAt \in {None} \cup Nat
    PROVE  /\ Elapsed(s, at) \in Nat
           /\ s.finishedAt = None =>
                 Elapsed(s, at) = IF at > Warmup THEN at - Warmup ELSE 0
           /\ s.finishedAt # None =>
                 Elapsed(s, at) = IF s.finishedAt > Warmup
                                  THEN s.finishedAt - Warmup ELSE 0
  BY StatisticsAssumption DEF Elapsed, None, Stats

LEMMA Clamp == \A x \in Int : Max({0, x}) = IF x > 0 THEN x ELSE 0
  <1>. SUFFICES ASSUME NEW x \in Int
                PROVE  Max({0, x}) = IF x > 0 THEN x ELSE 0
    OBVIOUS
  <1>. DEFINE m == IF x > 0 THEN x ELSE 0
  <1>1. m \in {0, x} /\ \A y \in {0, x} : m >= y
    OBVIOUS
  <1>2. \A n \in {0, x} : (\A y \in {0, x} : n >= y) => n = m
    OBVIOUS
  <1>. QED BY <1>1, <1>2 DEF Max

\* Counting one more under any key keeps the type of a family of counters.
LEMMA CountOne ==
    ASSUME NEW D, NEW f \in [D -> Nat], NEW i
    PROVE  [f EXCEPT ![i] = @ + 1] \in [D -> Nat]
  <1>1. CASE i \in D
    <2>1. f[i] + 1 \in Nat
      BY <1>1
    <2>. QED BY <2>1
  <1>2. CASE i \notin D
    BY <1>2
  <1>. QED BY <1>1, <1>2

\* A histogram keeps its type, counts the operation and orders its extremes.
LEMMA HistogramGrows ==
    ASSUME NEW h \in Histograms, h.min <= h.max, NEW d \in Int
    PROVE  /\ HistogramRecord(h, d) \in Histograms
           /\ HistogramRecord(h, d).total = h.total + 1
           /\ HistogramRecord(h, d).min <= HistogramRecord(h, d).max
  <1>. DEFINE latency == IF d < 0 THEN 0 ELSE d
              counts == [h.counts EXCEPT ![BucketIndex(latency)] = @ + 1]
              min == IF h.total = 0 \/ latency < h.min THEN latency ELSE h.min
              max == IF h.total = 0 \/ latency > h.max THEN latency ELSE h.max
  <1>1. latency \in Nat
    OBVIOUS
  <1>2. /\ h.total \in Nat /\ h.sum \in Nat /\ h.min \in Nat /\ h.max \in Nat
        /\ h.counts \in [1..(Len(Bounds) + 1) -> Nat]
    BY DEF Histograms
  <1>3. counts \in [1..(Len(Bounds) + 1) -> Nat]
    <2>. DEFINE D == 1..(Len(Bounds) + 1)
                i == BucketIndex(latency)
    <2>1. h.counts \in [D -> Nat]
      BY <1>2
    <2>. HIDE DEF D, i
    <2>2. [h.counts EXCEPT ![i] = @ + 1] \in [D -> Nat]
      BY <2>1, CountOne
    <2>. QED BY <2>2 DEF D, i
  <1>4. min \in Nat /\ max \in Nat /\ min <= max
    BY <1>1, <1>2
  <1>5. HistogramRecord(h, d) = [counts |-> counts, total |-> h.total + 1,
                                 sum |-> h.sum + latency, min |-> min, max |-> max]
    BY DEF HistogramRecord
  <1>. HIDE DEF counts, min, max, latency
  <1>. QED BY <1>1, <1>2, <1>3, <1>4, <1>5 DEF Histograms

\* A record call counts its operation in every counter or in none.
LEMMA RecordFacts ==
    ASSUME NEW s \in Stats, s.latency.min <= s.latency.max,
           NEW o, o.latency \in Latencies
    PROVE  /\ Record(s, o) \in Stats
           /\ Record(s, o).finishedAt = s.finishedAt
           /\ \/ Record(s, o) = s
              \/ /\ Record(s, o).total = s.total + 1
                 /\ Record(s, o).latency.total = s.latency.total + 1
                 /\ Record(s, o).succeeded + Record(s, o).failed =
                       s.succeeded + s.failed + 1
           /\ Record(s, o).latency.min <= Record(s, o).latency.max
  <1>1. CASE o.completedAt < Warmup
    BY <1>1 DEF Record
  <1>2. CASE ~(o.completedAt < Warmup)
    <2>. DEFINE succeeded == IF o.err = "" THEN s.succeeded + 1 ELSE s.succeeded
                failed == IF o.err = "" THEN s.failed ELSE s.failed + 1
                total == s.total + 1
                perKind == [s.perKind EXCEPT ![o.kind] = @ + 1]
                latency == HistogramRecord(s.latency, o.latency)
    <2>1. /\ s.succeeded \in Nat /\ s.failed \in Nat /\ s.total \in Nat
          /\ s.perKind \in [Kinds -> Nat] /\ s.latency \in Histograms
      BY DEF Stats
    <2>2. /\ succeeded \in Nat /\ failed \in Nat
          /\ succeeded + failed = s.succeeded + s.failed + 1
      <3>1. CASE o.err = ""
        <4>1. succeeded = s.succeeded + 1 /\ failed = s.failed
          BY <3>1
        <4>. HIDE DEF succeeded, failed
        <4>. QED BY <2>1, <4>1
      <3>2. CASE o.err # ""
        <4>1. succeeded = s.succeeded /\ failed = s.failed + 1
          BY <3>2
        <4>. HIDE DEF succeeded, failed
        <4>. QED BY <2>1, <4>1
      <3>. QED BY <3>1, <3>2
    <2>3. o.latency \in Int
      BY StatisticsAssumption
    <2>4. /\ latency \in Histograms /\ latency.total = s.latency.total + 1
          /\ latency.min <= latency.max
      BY <2>1, <2>3, HistogramGrows
    <2>5. perKind \in [Kinds -> Nat] /\ total \in Nat
      BY <2>1, CountOne
    <2>6. Record(s, o) = [s EXCEPT !.total = total, !.succeeded = succeeded,
                                   !.failed = failed, !.perKind = perKind,
                                   !.latency = latency]
      BY <1>2 DEF Record, Stats
    <2>. HIDE DEF succeeded, failed, perKind, latency
    <2>7. /\ Record(s, o) \in Stats
          /\ Record(s, o).finishedAt = s.finishedAt
          /\ Record(s, o).total = s.total + 1
          /\ Record(s, o).succeeded = succeeded /\ Record(s, o).failed = failed
          /\ Record(s, o).latency = latency
      BY <2>2, <2>4, <2>5, <2>6 DEF Stats
    <2>. QED BY <2>2, <2>4, <2>7
  <1>. QED BY <1>1, <1>2

-----------------------------------------------------------------------------
LEMMA InitStats == Init => StatsInv
  <1>. SUFFICES ASSUME Init PROVE StatsInv
    OBVIOUS
  <1>1. newLatencyHistogram \in Histograms
    BY StatisticsAssumption DEF newLatencyHistogram, Histograms
  <1>2. stats \in Stats
    BY <1>1 DEF Init, newRunStats, Stats, None
  <1>3. TypeOK
    BY StatisticsAssumption
    DEF Init, TypeOK, newRunStats, newLatencyHistogram, None
  <1>4. CountersAgree /\ ShownIsPast
    BY DEF Init, CountersAgree, ShownIsPast, newRunStats, newLatencyHistogram
  <1>. QED BY <1>2, <1>3, <1>4 DEF StatsInv

LEMMA TickKeeps == StatsInv /\ Tick => StatsInv'
  BY StatisticsAssumption
  DEF StatsInv, Tick, Stats, TypeOK, CountersAgree, ShownIsPast, None

LEMMA RecordKeeps == StatsInv /\ RecordOperation => StatsInv'
  <1>. SUFFICES ASSUME StatsInv, RecordOperation PROVE StatsInv'
    OBVIOUS
  <1>1. \E o : o.latency \in Latencies /\ stats' = Record(stats, o)
    BY DEF RecordOperation
  <1>2. PICK o : o.latency \in Latencies /\ stats' = Record(stats, o)
    BY <1>1
  <1>4. stats \in Stats /\ stats.latency.min <= stats.latency.max
    BY DEF StatsInv, CountersAgree
  <1>5. /\ stats' \in Stats
        /\ stats'.finishedAt = stats.finishedAt
        /\ \/ stats' = stats
           \/ /\ stats'.total = stats.total + 1
              /\ stats'.latency.total = stats.latency.total + 1
              /\ stats'.succeeded + stats'.failed =
                    stats.succeeded + stats.failed + 1
        /\ stats'.latency.min <= stats'.latency.max
    BY <1>2, <1>4, RecordFacts
  <1>6. CountersAgree'
    BY <1>4, <1>5 DEF StatsInv, CountersAgree, Stats
  <1>7. UNCHANGED <<now, sampledAt, shown>>
    BY DEF RecordOperation
  <1>8. TypeOK'
    BY <1>5, <1>7 DEF StatsInv, TypeOK, Stats, Histograms
  <1>9. ShownIsPast'
    BY <1>5, <1>7 DEF StatsInv, ShownIsPast
  <1>. QED BY <1>5, <1>6, <1>8, <1>9 DEF StatsInv

LEMMA FinishKeeps == StatsInv /\ FinishRun => StatsInv'
  <1>. SUFFICES ASSUME StatsInv, FinishRun PROVE StatsInv'
    OBVIOUS
  <1>1. PICK at \in 0..now : stats' = [stats EXCEPT !.finishedAt = at]
    BY DEF FinishRun, Finish, StatsInv, Stats
  <1>2. at \in Nat /\ now \in Nat
    BY StatisticsAssumption DEF StatsInv, TypeOK
  <1>3. /\ stats' \in Stats /\ stats'.finishedAt = at
        /\ stats'.latency = stats.latency /\ stats'.total = stats.total
        /\ stats'.perKind = stats.perKind
        /\ stats'.succeeded = stats.succeeded /\ stats'.failed = stats.failed
    BY <1>1, <1>2 DEF StatsInv, Stats
  <1>4. UNCHANGED <<now, sampledAt, shown>>
    BY DEF FinishRun
  <1>5. TypeOK'
    BY <1>3, <1>4 DEF StatsInv, TypeOK
  <1>6. CountersAgree' /\ ShownIsPast'
    BY <1>2, <1>3 DEF StatsInv, CountersAgree, ShownIsPast, None
  <1>. QED BY <1>3, <1>5, <1>6 DEF StatsInv

\* A sample shows the time since the warm-up, up to the end of the run.
LEMMA SampleShows ==
    ASSUME StatsInv, TakeSample
    PROVE  /\ shown' \in Nat /\ sampledAt' = now /\ UNCHANGED <<now, stats>>
           /\ stats.finishedAt = None =>
                 /\ shown' = 0 \/ shown' <= now - Warmup
                 /\ shown' >= shown
           /\ stats.finishedAt # None =>
                 /\ shown' <= MaxTime
                 /\ shown' = Max({0, stats.finishedAt - Warmup})
  <1>1. PICK at \in sampledAt..now : shown' = Elapsed(stats, at)
    BY DEF TakeSample, sampleLocked
  <1>2. /\ now \in Nat /\ now <= MaxTime /\ sampledAt \in Nat
        /\ shown \in Nat /\ stats.finishedAt \in {None} \cup Nat
        /\ stats.finishedAt # None => stats.finishedAt <= now
        /\ Warmup \in Nat /\ MaxTime \in Nat
    BY StatisticsAssumption DEF StatsInv, TypeOK
  <1>3. at \in Nat /\ sampledAt <= at /\ at <= now
    BY <1>2
  <1>4. stats \in Stats
    BY DEF StatsInv
  <1>5. /\ shown' \in Nat
        /\ stats.finishedAt = None =>
              shown' = IF at > Warmup THEN at - Warmup ELSE 0
        /\ stats.finishedAt # None =>
              shown' = IF stats.finishedAt > Warmup
                       THEN stats.finishedAt - Warmup ELSE 0
    BY <1>1, <1>2, <1>3, <1>4, ElapsedIsTime
  <1>6. sampledAt' = now /\ UNCHANGED <<now, stats>>
    BY DEF TakeSample
  <1>7. ASSUME stats.finishedAt = None
        PROVE  (shown' = 0 \/ shown' <= now - Warmup) /\ shown' >= shown
    <2>1. shown = 0 \/ shown <= sampledAt - Warmup
      BY <1>7 DEF StatsInv, ShownIsPast
    <2>. QED BY <1>2, <1>3, <1>5, <1>7, <2>1
  <1>8. ASSUME stats.finishedAt # None
        PROVE  shown' <= MaxTime /\ shown' = Max({0, stats.finishedAt - Warmup})
    <2>1. Max({0, stats.finishedAt - Warmup}) =
             IF stats.finishedAt - Warmup > 0 THEN stats.finishedAt - Warmup ELSE 0
      BY <1>2, <1>8, Clamp
    <2>. QED BY <1>2, <1>5, <1>8, <2>1
  <1>. QED BY <1>5, <1>6, <1>7, <1>8

LEMMA SampleKeeps == StatsInv /\ TakeSample => StatsInv'
  <1>. SUFFICES ASSUME StatsInv, TakeSample PROVE StatsInv'
    OBVIOUS
  <1>1. now \in Nat /\ now <= MaxTime /\ Warmup \in Nat /\ MaxTime \in Nat
    BY StatisticsAssumption DEF StatsInv, TypeOK
  <1>2. shown' \in 0..MaxTime
    BY <1>1, SampleShows
  <1>3. TypeOK'
    BY <1>1, <1>2, SampleShows DEF StatsInv, TypeOK
  <1>4. CountersAgree' /\ (stats \in Stats)'
    BY SampleShows DEF StatsInv, CountersAgree
  <1>5. ShownIsPast'
    BY SampleShows DEF ShownIsPast
  <1>. QED BY <1>3, <1>4, <1>5 DEF StatsInv

(***************************************************************************)
(* However record, finish and the readers follow each other at the mutex,  *)
(* the statistics are well formed and their counters agree.                *)
(***************************************************************************)
THEOREM StatsInvariance == Spec => []StatsInv
  <1>1. StatsInv /\ UNCHANGED vars => StatsInv'
    BY DEF StatsInv, TypeOK, CountersAgree, ShownIsPast, vars
  <1>2. StatsInv /\ [Next]_vars => StatsInv'
    BY <1>1, TickKeeps, RecordKeeps, FinishKeeps, SampleKeeps DEF Next
  <1>. QED BY <1>2, InitStats, PTL DEF Spec

(***************************************************************************)
(* Counters, the histogram and the elapsed time have their types.          *)
(***************************************************************************)
THEOREM StatsTypeCorrect == Spec => []TypeOK
  <1>1. StatsInv => TypeOK
    BY DEF StatsInv
  <1>. QED BY <1>1, StatsInvariance, PTL

(***************************************************************************)
(* Every measured operation is a success or a failure and is in the        *)
(* histogram (stats.go:64-85, 123-143).                                    *)
(***************************************************************************)
THEOREM CountersAlwaysAgree == Spec => []CountersAgree
  <1>1. StatsInv => CountersAgree
    BY DEF StatsInv
  <1>. QED BY <1>1, StatsInvariance, PTL

(***************************************************************************)
(* Elapsed time goes forward until finish, then changes at most once, to   *)
(* the time that finish had read.                                          *)
(***************************************************************************)
THEOREM ElapsedAlwaysSettles == Spec => ElapsedSettles
  <1>. DEFINE Settles ==
          shown' # shown =>
             IF stats.finishedAt = None
             THEN shown' > shown
             ELSE shown' = Max({0, stats.finishedAt - Warmup})
  <1>1. ASSUME StatsInv, Next PROVE Settles
    <2>1. shown \in Nat
      BY <1>1, StatisticsAssumption DEF StatsInv, TypeOK
    <2>2. CASE TakeSample
      BY <1>1, <2>1, <2>2, SampleShows
    <2>3. CASE Tick \/ RecordOperation \/ FinishRun
      BY <2>3 DEF Tick, RecordOperation, FinishRun
    <2>. QED BY <1>1, <2>2, <2>3 DEF Next
  <1>2. StatsInv /\ [Next]_vars => [Settles]_vars
    BY <1>1
  <1>. HIDE DEF Settles
  <1>3. Spec => [][Settles]_vars
    BY <1>2, StatsInvariance, PTL DEF Spec
  <1>. QED BY <1>3 DEF ElapsedSettles, Settles

-----------------------------------------------------------------------------
(* The recorded operations and the figures made of them.                   *)

Failures == {o \in Measured : o.err # ""}

OfKind(k) == {o \in Measured : o.kind = k}

Quick(bound) == {o \in Measured : Duration(o) <= bound}

Times == [o \in Measured |-> log[o] * Duration(o)]

\* The log is a bag of operations, with at least one copy of each.
LogIsBag ==
    /\ IsFiniteSet(DOMAIN log)
    /\ \A o \in DOMAIN log : o.latency \in Latencies /\ log[o] \in Nat \ {0}

Extremes ==
    /\ \A o \in Measured : /\ stats.latency.min <= Duration(o)
                           /\ Duration(o) <= stats.latency.max
    /\ Measured # {} => /\ \E o \in Measured : stats.latency.min = Duration(o)
                        /\ \E o \in Measured : stats.latency.max = Duration(o)

(***************************************************************************)
(* Each counter is the number of the measured operations it is about, and  *)
(* the histogram holds their durations.                                    *)
(***************************************************************************)
LogAgrees ==
    /\ LogIsBag
    /\ stats.total = Number(Measured)
    /\ stats.failed = Number(Failures)
    /\ \A k \in Kinds : stats.perKind[k] = Number(OfKind(k))
    /\ \A i \in DOMAIN Bounds :
          Cumulative(stats.latency, i) = Number(Quick(Bounds[i]))
    /\ stats.latency.sum = SumFunctionOnSet(Times, Measured)
    /\ Extremes

\* The bag c is b with one more of o.
Joined(b, o, c) ==
    /\ DOMAIN c = DOMAIN b \cup {o}
    /\ \A x \in DOMAIN b \ {o} : c[x] = b[x]
    /\ c[o] = IF o \in DOMAIN b THEN b[o] + 1 ELSE 1

LEMMA BagGrows ==
    ASSUME NEW b, \A x \in DOMAIN b : b[x] \in Nat \ {0},
           NEW o, NEW c, c = b (+) SetToBag({o})
    PROVE  Joined(b, o, c)
  <1>1. c = [x \in DOMAIN b \cup {o} |->
                (IF x \in DOMAIN b THEN b[x] ELSE 0) + (IF x \in {o} THEN 1 ELSE 0)]
    BY DEF (+), SetToBag
  <1>2. DOMAIN c = DOMAIN b \cup {o}
    BY <1>1
  <1>3. \A x \in DOMAIN b \ {o} : c[x] = b[x]
    BY <1>1
  <1>4. c[o] = IF o \in DOMAIN b THEN b[o] + 1 ELSE 1
    BY <1>1
  <1>. QED BY <1>2, <1>3, <1>4 DEF Joined

\* The operations of a set that o joins are one more, and no others are.
LEMMA NumberGrows ==
    ASSUME NEW b, NEW o, NEW c, Joined(b, o, c),
           IsFiniteSet(DOMAIN b), \A x \in DOMAIN b : b[x] \in Nat \ {0},
           NEW S, S \subseteq DOMAIN b
    PROVE  /\ o \notin S => SumFunctionOnSet(c, S) = SumFunctionOnSet(b, S)
           /\ (o \in DOMAIN b => o \in S) =>
                 SumFunctionOnSet(c, S \cup {o}) = SumFunctionOnSet(b, S) + 1
  <1>1. /\ \A x \in DOMAIN b \ {o} : c[x] = b[x]
        /\ c[o] = IF o \in DOMAIN b THEN b[o] + 1 ELSE 1
    BY DEF Joined
  <1>2. IsFiniteSet(S) /\ \A x \in S : b[x] \in Nat
    BY FS_Subset
  <1>3. ASSUME o \notin S
        PROVE  SumFunctionOnSet(c, S) = SumFunctionOnSet(b, S)
    <2>1. \A x \in S : b[x] \in Nat /\ c[x] = b[x]
      BY <1>1, <1>2, <1>3
    <2>. QED BY <1>2, <2>1, SumAgrees
  <1>4. ASSUME o \in DOMAIN b => o \in S
        PROVE  SumFunctionOnSet(c, S \cup {o}) = SumFunctionOnSet(b, S) + 1
    <2>1. /\ \A x \in S \ {o} : c[x] = b[x]
          /\ c[o] = IF o \in S THEN b[o] + 1 ELSE 1
      BY <1>1, <1>4
    <2>2. PICK d \in Nat : d = 1
      OBVIOUS
    <2>3. (o \in S => c[o] = b[o] + d) /\ (o \notin S => c[o] = d)
      BY <2>1, <2>2
    <2>4. \A x \in S \ {o} : c[x] = b[x]
      BY <2>1
    <2>5. SumFunctionOnSet(c, S \cup {o}) = SumFunctionOnSet(b, S) + d
      BY <1>2, <2>3, <2>4, SumGrows
    <2>. QED BY <2>2, <2>5
  <1>. QED BY <1>3, <1>4

LEMMA DurationIs ==
    \A o : o.latency \in Int =>
              /\ Duration(o) \in Nat
              /\ Duration(o) = IF o.latency < 0 THEN 0 ELSE o.latency
  <1>. SUFFICES ASSUME NEW o, o.latency \in Int
                PROVE  /\ Duration(o) \in Nat
                       /\ Duration(o) = IF o.latency < 0 THEN 0 ELSE o.latency
    OBVIOUS
  <1>1. Duration(o) = IF o.latency > 0 THEN o.latency ELSE 0
    BY Clamp DEF Duration
  <1>. QED BY <1>1

-----------------------------------------------------------------------------
(* The histogram.                                                          *)

\* The bounds are in strictly increasing order.
LEMMA BoundsIncrease ==
    \A i, j \in DOMAIN Bounds : i < j => Bounds[i] < Bounds[j]
  <1>. DEFINE n == Len(Bounds)
  <1>1. /\ n \in Nat /\ DOMAIN Bounds = 1..n
        /\ \A i \in 1..n : Bounds[i] \in Nat
        /\ \A i \in 1..(n - 1) : Bounds[i] < Bounds[i + 1]
    BY StatisticsAssumption
  <1>. HIDE DEF n
  <1>2. ASSUME NEW i \in 1..n, NEW j \in 1..n, i < j PROVE Bounds[i] < Bounds[j]
    <2>. DEFINE Late == {k \in 1..n : i < k /\ ~(Bounds[i] < Bounds[k])}
    <2>1. ASSUME Late # {} PROVE FALSE
      <3>1. Late \in SUBSET Nat
        BY <1>1
      <3>2. PICK k \in Late : \A l \in Late : k <= l
        <4>. HIDE DEF Late
        <4>. QED BY <2>1, <3>1, LeastElement
      <3>3. k - 1 \notin Late
        BY <3>1, <3>2
      <3>4. k - 1 \in 1..(n - 1) /\ k - 1 \in 1..n
        BY <1>1, <1>2, <3>2
      <3>5. Bounds[k - 1] < Bounds[k]
        BY <1>1, <3>4
      <3>6. k - 1 = i \/ Bounds[i] < Bounds[k - 1]
        BY <1>2, <3>2, <3>3, <3>4
      <3>7. Bounds[i] \in Nat /\ Bounds[k] \in Nat /\ Bounds[k - 1] \in Nat
        BY <1>1, <3>2, <3>4
      <3>. QED BY <3>2, <3>5, <3>6, <3>7
    <2>. QED BY <1>2, <2>1
  <1>. QED BY <1>1, <1>2

\* Bucket i and those before it hold what took no longer than bound i.
LEMMA BucketOfBound ==
    ASSUME NEW d \in Nat
    PROVE  /\ BucketIndex(d) \in 1..(Len(Bounds) + 1)
           /\ \A i \in DOMAIN Bounds : BucketIndex(d) <= i <=> d <= Bounds[i]
  <1>. DEFINE n == Len(Bounds)
              Below == {i \in DOMAIN Bounds : Bounds[i] < d}
              Reached == {i \in 1..(n + 1) : i = n + 1 \/ ~(Bounds[i] < d)}
  <1>1. /\ n \in Nat /\ DOMAIN Bounds = 1..n
        /\ \A i \in 1..n : Bounds[i] \in Nat
    BY StatisticsAssumption
  <1>. HIDE DEF n
  <1>2. PICK k \in Reached : \A l \in Reached : k <= l
    <2>1. Reached \in SUBSET Nat /\ n + 1 \in Reached
      BY <1>1
    <2>. HIDE DEF Reached
    <2>. QED BY <2>1, LeastElement
  <1>3. k \in 1..(n + 1) /\ k <= n + 1
    BY <1>1, <1>2
  <1>4. Below = 1..(k - 1)
    <2>1. ASSUME NEW i \in 1..n, i < k PROVE Bounds[i] < d
      <3>1. i \notin Reached
        BY <1>1, <1>2, <1>3, <2>1
      <3>. QED BY <1>1, <3>1
    <2>2. ASSUME NEW i \in 1..n, Bounds[i] < d PROVE i < k
      <3>1. k = n + 1 \/ (k \in 1..n /\ ~(Bounds[k] < d))
        BY <1>1, <1>2
      <3>2. CASE k = n + 1
        BY <1>1, <3>2
      <3>3. CASE k \in 1..n /\ ~(Bounds[k] < d)
        <4>1. k < i => Bounds[k] < Bounds[i]
          BY <1>1, <3>3, BoundsIncrease
        <4>2. Bounds[i] \in Nat /\ Bounds[k] \in Nat
          BY <1>1, <3>3
        <4>. QED BY <1>1, <2>2, <3>3, <4>1, <4>2
      <3>. QED BY <3>1, <3>2, <3>3
    <2>. QED BY <1>1, <1>3, <2>1, <2>2
  <1>5. Cardinality(Below) = k - 1
    <2>. HIDE DEF Below
    <2>1. k - 1 \in Nat
      BY <1>1, <1>3
    <2>. QED BY <1>3, <1>4, <2>1, FS_Interval
  <1>6. BucketIndex(d) = k
    <2>1. BucketIndex(d) = Cardinality(Below) + 1
      BY DEF BucketIndex
    <2>. HIDE DEF Below
    <2>. QED BY <1>1, <1>3, <1>5, <2>1
  <1>7. \A i \in 1..n : k <= i <=> ~(Bounds[i] < d)
    <2>. SUFFICES ASSUME NEW i \in 1..n PROVE k <= i <=> ~(Bounds[i] < d)
      OBVIOUS
    <2>1. i \in 1..(k - 1) <=> Bounds[i] < d
      BY <1>1, <1>4
    <2>. HIDE DEF Below, Reached
    <2>. QED BY <1>1, <1>3, <2>1
  <1>8. \A i \in 1..n : ~(Bounds[i] < d) <=> d <= Bounds[i]
    BY <1>1
  <1>. QED BY <1>1, <1>3, <1>6, <1>7, <1>8 DEF n

\* A cumulative count grows by an operation that is not past its bucket.
LEMMA CumulativeGrows ==
    ASSUME NEW h \in Histograms, NEW d \in Int, NEW i \in DOMAIN Bounds
    PROVE  Cumulative(HistogramRecord(h, d), i) =
              Cumulative(h, i) +
                 IF (IF d < 0 THEN 0 ELSE d) <= Bounds[i] THEN 1 ELSE 0
  <1>. DEFINE e == IF d < 0 THEN 0 ELSE d
              y == BucketIndex(e)
              D == 1..(Len(Bounds) + 1)
              w == h.counts
              v == [w EXCEPT ![y] = @ + 1]
  <1>1. w \in [D -> Nat]
    BY DEF Histograms
  <1>2. HistogramRecord(h, d).counts = v
    BY DEF HistogramRecord
  <1>3. e \in Nat
    OBVIOUS
  <1>. HIDE DEF e
  <1>4. y \in D /\ (y <= i <=> e <= Bounds[i])
    BY <1>3, BucketOfBound
  <1>5. i \in Nat /\ 1..i \in SUBSET D /\ IsFiniteSet(1..i)
    <2>1. i \in 1..Len(Bounds) /\ Len(Bounds) \in Nat
      BY StatisticsAssumption
    <2>2. i \in Int /\ IsFiniteSet(1..i)
      BY <2>1, FS_Interval
    <2>. QED BY <2>1, <2>2
  <1>6. y \in Nat
    BY <1>4
  <1>. HIDE DEF y, D, w
  <1>7. /\ \A x \in 1..i : w[x] \in Nat
        /\ \A x \in (1..i) \ {y} : v[x] = w[x]
        /\ v[y] = w[y] + 1
    BY <1>1, <1>4, <1>5
  <1>. HIDE DEF v
  <1>8. CASE y <= i
    <2>1. y \in 1..i /\ (1..i) \cup {y} = 1..i
      BY <1>4, <1>5, <1>6, <1>8 DEF D
    <2>. DEFINE I == 1..i
    <2>. HIDE DEF I
    <2>2. SumFunctionOnSet(v, I \cup {y}) = SumFunctionOnSet(w, I) + 1
      <3>1. PICK c \in Nat : c = 1
        OBVIOUS
      <3>2. /\ IsFiniteSet(I) /\ \A x \in I : w[x] \in Nat
            /\ \A x \in I \ {y} : v[x] = w[x]
        BY <1>5, <1>7 DEF I
      <3>3. (y \in I => v[y] = w[y] + c) /\ y \in I
        BY <1>7, <2>1, <3>1 DEF I
      <3>4. SumFunctionOnSet(v, I \cup {y}) = SumFunctionOnSet(w, I) + c
        BY <3>2, <3>3, SumGrows
      <3>. QED BY <3>1, <3>4
    <2>3. SumFunctionOnSet(v, I) = SumFunctionOnSet(w, I) + 1
      BY <2>1, <2>2 DEF I
    <2>. QED BY <1>2, <1>4, <1>8, <2>3 DEF Cumulative, w, e, I
  <1>9. CASE ~(y <= i)
    <2>1. y \notin 1..i
      BY <1>5, <1>6, <1>9
    <2>2. SumFunctionOnSet(v, 1..i) = SumFunctionOnSet(w, 1..i)
      BY <1>5, <1>7, <2>1, SumAgrees
    <2>3. SumFunctionOnSet(w, 1..i) \in Nat
      BY <1>5, <1>7, SumType
    <2>. QED BY <1>2, <1>4, <1>9, <2>2, <2>3 DEF Cumulative, w, e
  <1>. QED BY <1>8, <1>9
-----------------------------------------------------------------------------
(* The figures follow the log from one record to the next.                 *)

\* What a call of record that counts does to each counter.
LEMMA RecordFields ==
    ASSUME NEW s \in Stats, NEW o, ~(o.completedAt < Warmup)
    PROVE  /\ Record(s, o).total = s.total + 1
           /\ Record(s, o).failed =
                 IF o.err # "" THEN s.failed + 1 ELSE s.failed
           /\ Record(s, o).perKind = [s.perKind EXCEPT ![o.kind] = @ + 1]
           /\ Record(s, o).latency = HistogramRecord(s.latency, o.latency)
  BY DEF Record, Stats

\* A call that counts nothing, or an action that records nothing.
LEMMA FiguresStand ==
    ASSUME LogAgrees, LogIsBag', Measured' = Measured,
           \A S \in SUBSET Measured : SumFunctionOnSet(log', S) = Number(S),
           \A x \in Measured : log'[x] = log[x],
           stats'.total = stats.total, stats'.failed = stats.failed,
           stats'.perKind = stats.perKind, stats'.latency = stats.latency
    PROVE  LogAgrees'
  <1>1. Failures' = Failures /\ \A k : OfKind(k)' = OfKind(k)
    BY DEF Failures, OfKind
  <1>2. \A bound : Quick(bound)' = Quick(bound)
    BY DEF Quick, Duration
  <1>3. Times' = Times
    BY DEF Times, Duration
  <1>4. /\ Measured \in SUBSET Measured /\ Failures \in SUBSET Measured
        /\ \A k : OfKind(k) \in SUBSET Measured
        /\ \A bound : Quick(bound) \in SUBSET Measured
    BY DEF Failures, OfKind, Quick
  <1>5. (stats.total = Number(Measured))'
    BY <1>4 DEF LogAgrees, Number
  <1>6. (stats.failed = Number(Failures))'
    BY <1>1, <1>4 DEF LogAgrees, Number
  <1>7. (\A k \in Kinds : stats.perKind[k] = Number(OfKind(k)))'
    BY <1>1, <1>4 DEF LogAgrees, Number
  <1>8. (\A i \in DOMAIN Bounds :
            Cumulative(stats.latency, i) = Number(Quick(Bounds[i])))'
    BY <1>2, <1>4 DEF LogAgrees, Number, Cumulative
  <1>9. (stats.latency.sum = SumFunctionOnSet(Times, Measured))'
    BY <1>3 DEF LogAgrees
  <1>10. Extremes'
    BY DEF LogAgrees, Extremes, Duration
  <1>. QED BY <1>5, <1>6, <1>7, <1>8, <1>9, <1>10 DEF LogAgrees

\* The log has one more of an operation, which is measured or is not.
LEMMA LogGrows ==
    ASSUME LogIsBag, NEW o, o.latency \in Latencies, o.completedAt \in Int,
           Joined(log, o, log')
    PROVE  /\ LogIsBag'
           /\ o.completedAt < Warmup => o \notin Measured /\ Measured' = Measured
           /\ ~(o.completedAt < Warmup) =>
                 /\ Measured' = Measured \cup {o}
                 /\ o \in DOMAIN log => o \in Measured
  <1>1. /\ DOMAIN log' = DOMAIN log \cup {o}
        /\ \A x \in DOMAIN log \ {o} : log'[x] = log[x]
        /\ log'[o] = IF o \in DOMAIN log THEN log[o] + 1 ELSE 1
    BY DEF Joined
  <1>2. LogIsBag'
    <2>1. IsFiniteSet(DOMAIN log')
      BY <1>1, FS_AddElement DEF LogIsBag
    <2>2. ASSUME NEW x \in DOMAIN log'
          PROVE  x.latency \in Latencies /\ log'[x] \in Nat \ {0}
      <3>1. CASE x = o
        <4>1. o \in DOMAIN log => log[o] \in Nat \ {0}
          BY DEF LogIsBag
        <4>2. log'[o] \in Nat \ {0}
          BY <1>1, <4>1
        <4>. QED BY <3>1, <4>2
      <3>2. CASE x # o
        BY <1>1, <3>2 DEF LogIsBag
      <3>. QED BY <3>1, <3>2
    <2>. QED BY <2>1, <2>2 DEF LogIsBag
  <1>3. Warmup \in Int
    BY StatisticsAssumption
  <1>4. o.completedAt < Warmup <=> ~(o.completedAt >= Warmup)
    BY <1>3
  <1>. QED BY <1>1, <1>2, <1>4 DEF Measured

\* The set of an operation's failure, kind or speed gains it or stays.
LEMMA SelectionCounts ==
    ASSUME LogIsBag, NEW o, Joined(log, o, log'), o \in DOMAIN log => o \in Measured,
           NEW A \in SUBSET Measured, NEW B,
           \/ B = A \cup {o} /\ (o \in Measured => o \in A)
           \/ B = A /\ o \notin A
    PROVE  /\ o \in B => SumFunctionOnSet(log', B) = Number(A) + 1
           /\ o \notin B => SumFunctionOnSet(log', B) = Number(A)
  <1>1. A \subseteq DOMAIN log /\ (o \in A => o \in DOMAIN log)
    BY DEF Measured
  <1>2. IsFiniteSet(DOMAIN log) /\ \A x \in DOMAIN log : log[x] \in Nat \ {0}
    BY DEF LogIsBag
  <1>3. /\ o \notin A => SumFunctionOnSet(log', A) = SumFunctionOnSet(log, A)
        /\ (o \in DOMAIN log => o \in A) =>
              SumFunctionOnSet(log', A \cup {o}) = SumFunctionOnSet(log, A) + 1
    BY <1>1, <1>2, NumberGrows
  <1>4. CASE B = A \cup {o} /\ (o \in Measured => o \in A)
    BY <1>3, <1>4 DEF Number
  <1>5. CASE B = A /\ o \notin A
    BY <1>3, <1>5 DEF Number
  <1>. QED BY <1>4, <1>5

\* What the measured operations took in all, when o joins them.
LEMMA TimesGrow ==
    ASSUME LogIsBag, NEW o, o.latency \in Int, Joined(log, o, log'),
           Measured' = Measured \cup {o}, o \in DOMAIN log => o \in Measured
    PROVE  SumFunctionOnSet(Times', Measured \cup {o}) =
              SumFunctionOnSet(Times, Measured) + Duration(o)
  <1>1. /\ \A x \in DOMAIN log \ {o} : log'[x] = log[x]
        /\ log'[o] = IF o \in DOMAIN log THEN log[o] + 1 ELSE 1
    BY DEF Joined
  <1>2. /\ IsFiniteSet(Measured) /\ Measured \subseteq DOMAIN log
        /\ \A x \in Measured : log[x] \in Nat
    BY FS_Subset DEF LogIsBag, Measured
  <1>3. Duration(o) \in Nat /\ \A x \in Measured : Duration(x) \in Nat
    BY StatisticsAssumption, DurationIs DEF LogIsBag, Measured
  <1>4. /\ \A x \in Measured : Times[x] = log[x] * Duration(x)
        /\ \A x \in Measured \cup {o} : Times'[x] = log'[x] * Duration(x)
    BY DEF Times, Duration
  <1>5. \A m, n \in Nat : m * n \in Nat /\ (m + 1) * n = m * n + n /\ 1 * n = n
    OBVIOUS
  <1>6. \A x \in Measured : Times[x] \in Nat
    BY <1>2, <1>3, <1>4, <1>5
  <1>7. \A x \in Measured \ {o} : Times'[x] = Times[x]
    BY <1>1, <1>2, <1>4
  <1>8. o \in Measured => Times'[o] = Times[o] + Duration(o)
    <2>. SUFFICES ASSUME o \in Measured
                  PROVE  Times'[o] = Times[o] + Duration(o)
      OBVIOUS
    <2>1. log'[o] = log[o] + 1 /\ log[o] \in Nat
      BY <1>1, <1>2
    <2>. QED BY <1>3, <1>4, <1>5, <2>1
  <1>9. o \notin Measured => Times'[o] = Duration(o)
    <2>. SUFFICES ASSUME o \notin Measured PROVE Times'[o] = Duration(o)
      OBVIOUS
    <2>1. log'[o] = 1
      BY <1>1
    <2>. QED BY <1>3, <1>4, <1>5, <2>1
  <1>. DEFINE v == Times'
              w == Times
              S == Measured
              d == Duration(o)
  <1>10. /\ IsFiniteSet(S) /\ d \in Nat /\ \A x \in S : w[x] \in Nat
         /\ \A x \in S \ {o} : v[x] = w[x]
         /\ (o \in S => v[o] = w[o] + d) /\ (o \notin S => v[o] = d)
    BY <1>2, <1>3, <1>6, <1>7, <1>8, <1>9
  <1>. HIDE DEF v, w, S, d
  <1>11. SumFunctionOnSet(v, S \cup {o}) = SumFunctionOnSet(w, S) + d
    BY <1>10, SumGrows
  <1>. QED BY <1>11 DEF v, w, S, d

\* The smallest and the largest duration, when d joins those recorded.
LEMMA ExtremesGrow ==
    ASSUME StatsInv, LogAgrees, NEW o, o.latency \in Latencies,
           Measured' = Measured \cup {o},
           stats'.latency = HistogramRecord(stats.latency, o.latency)
    PROVE  Extremes'
  <1>. DEFINE d == Duration(o)
              h == stats.latency
              min == IF h.total = 0 \/ d < h.min THEN d ELSE h.min
              max == IF h.total = 0 \/ d > h.max THEN d ELSE h.max
  <1>1. d \in Nat /\ d = IF o.latency < 0 THEN 0 ELSE o.latency
    BY StatisticsAssumption, DurationIs
  <1>2. stats'.latency.min = min /\ stats'.latency.max = max
    BY <1>1 DEF HistogramRecord
  <1>3. \A x \in Measured : Duration(x) \in Nat
    BY StatisticsAssumption, DurationIs DEF LogAgrees, LogIsBag, Measured
  <1>4. h.min \in Nat /\ h.max \in Nat /\ h.total \in Nat
    BY DEF StatsInv, Stats, Histograms
  <1>5. h.total = 0 <=> Measured = {}
    <2>1. h.total = Number(Measured)
      BY DEF StatsInv, CountersAgree, LogAgrees
    <2>2. Measured = {} => Number(Measured) = 0
      BY SumOfNone DEF Number
    <2>3. ASSUME NEW x \in Measured PROVE Number(Measured) # 0
      <3>1. /\ IsFiniteSet(Measured) /\ \A y \in Measured : log[y] \in Nat
            /\ log[x] \in Nat \ {0}
        BY FS_Subset DEF LogAgrees, LogIsBag, Measured
      <3>2. log[x] <= Number(Measured) /\ Number(Measured) \in Nat
        BY <3>1, SumBounds, SumType DEF Number
      <3>. QED BY <3>1, <3>2
    <2>. QED BY <2>1, <2>2, <2>3
  <1>6. /\ \A x \in Measured : h.min <= Duration(x) /\ Duration(x) <= h.max
        /\ Measured # {} => /\ \E x \in Measured : h.min = Duration(x)
                            /\ \E x \in Measured : h.max = Duration(x)
    BY DEF LogAgrees, Extremes
  <1>. HIDE DEF d
  <1>7. d = Duration(o)
    BY DEF d
  <1>8. min \in Nat /\ max \in Nat /\ min <= d /\ d <= max
    BY <1>1, <1>4
  <1>9. \A x \in Measured : min <= Duration(x) /\ Duration(x) <= max
    <2>. SUFFICES ASSUME NEW x \in Measured
                  PROVE  min <= Duration(x) /\ Duration(x) <= max
      OBVIOUS
    <2>1. h.total # 0 /\ h.min <= Duration(x) /\ Duration(x) <= h.max
      BY <1>5, <1>6
    <2>2. Duration(x) \in Nat
      BY <1>3
    <2>. HIDE DEF h
    <2>. QED BY <1>1, <1>4, <2>1, <2>2
  <1>10. (min = d \/ \E x \in Measured : min = Duration(x)) /\
         (max = d \/ \E x \in Measured : max = Duration(x))
    <2>1. CASE h.total = 0
      BY <2>1
    <2>2. CASE h.total # 0
      BY <1>5, <1>6, <2>2
    <2>. QED BY <2>1, <2>2
  <1>. HIDE DEF min, max, h
  <1>11. \A x \in Measured' : stats'.latency.min <= Duration(x)
                              /\ Duration(x) <= stats'.latency.max
    BY <1>2, <1>7, <1>8, <1>9
  <1>12. /\ \E x \in Measured' : stats'.latency.min = Duration(x)
         /\ \E x \in Measured' : stats'.latency.max = Duration(x)
    BY <1>2, <1>7, <1>10
  <1>. QED BY <1>11, <1>12 DEF Extremes, Duration

LEMMA RecordAgrees ==
    ASSUME StatsInv, LogAgrees, NEW o, o.latency \in Latencies,
           o.completedAt \in Int,
           stats' = Record(stats, o), Joined(log, o, log')
    PROVE  LogAgrees'
  <1>1. LogIsBag
    BY DEF LogAgrees
  <1>2. Joined(log, o, log')
    OBVIOUS
  <1>3. /\ LogIsBag'
        /\ o.completedAt < Warmup => o \notin Measured /\ Measured' = Measured
        /\ ~(o.completedAt < Warmup) =>
              /\ Measured' = Measured \cup {o}
              /\ o \in DOMAIN log => o \in Measured
    BY <1>1, <1>2, LogGrows
  <1>4. CASE o.completedAt < Warmup
    <2>1. stats' = stats
      BY <1>4 DEF Record
    <2>2. \A S \in SUBSET Measured : SumFunctionOnSet(log', S) = Number(S)
      <3>. SUFFICES ASSUME NEW S \in SUBSET Measured
                    PROVE  SumFunctionOnSet(log', S) = Number(S)
        OBVIOUS
      <3>1. S \subseteq DOMAIN log /\ o \notin S
        BY <1>3, <1>4 DEF Measured
      <3>2. IsFiniteSet(DOMAIN log) /\ \A x \in DOMAIN log : log[x] \in Nat \ {0}
        BY <1>1 DEF LogIsBag
      <3>3. /\ o \notin S => SumFunctionOnSet(log', S) = SumFunctionOnSet(log, S)
            /\ (o \in DOMAIN log => o \in S) =>
                  SumFunctionOnSet(log', S \cup {o}) = SumFunctionOnSet(log, S) + 1
        BY <1>2, <3>1, <3>2, NumberGrows
      <3>. QED BY <3>1, <3>3 DEF Number
    <2>3. \A x \in Measured : log'[x] = log[x]
      BY <1>2, <1>3, <1>4 DEF Joined, Measured
    <2>. QED BY <1>3, <1>4, <2>1, <2>2, <2>3, FiguresStand
  <1>5. CASE ~(o.completedAt < Warmup)
    <2>. DEFINE h == stats.latency
                d == Duration(o)
    <2>1. /\ Measured' = Measured \cup {o}
          /\ o \in DOMAIN log => o \in Measured
      BY <1>3, <1>5
    <2>2. stats \in Stats /\ h \in Histograms /\ o.latency \in Int
      BY StatisticsAssumption DEF StatsInv, Stats
    <2>3. /\ stats'.total = stats.total + 1
          /\ stats'.failed = IF o.err # "" THEN stats.failed + 1 ELSE stats.failed
          /\ stats'.perKind = [stats.perKind EXCEPT ![o.kind] = @ + 1]
          /\ stats'.latency = HistogramRecord(h, o.latency)
      BY <1>5, <2>2, RecordFields
    <2>4. d \in Nat /\ d = IF o.latency < 0 THEN 0 ELSE o.latency
      BY <2>2, DurationIs
    <2>5. (stats.total = Number(Measured))'
      <3>1. Measured' = Measured \cup {o}
            /\ (o \in Measured => o \in Measured) /\ o \in Measured'
        BY <2>1
      <3>2. SumFunctionOnSet(log', Measured') = Number(Measured) + 1
        BY <1>1, <1>2, <2>1, <3>1, SelectionCounts
      <3>. QED BY <2>3, <3>2 DEF LogAgrees, Number
    <2>6. (stats.failed = Number(Failures))'
      <3>1. Failures \in SUBSET Measured
        BY DEF Failures
      <3>2. CASE o.err # ""
        <4>1. /\ Failures' = Failures \cup {o} /\ o \in Failures'
              /\ o \in Measured => o \in Failures
          BY <2>1, <3>2 DEF Failures
        <4>2. stats'.failed = stats.failed + 1
          BY <2>3, <3>2
        <4>3. SumFunctionOnSet(log', Failures') = Number(Failures) + 1
          BY <1>1, <1>2, <2>1, <3>1, <4>1, SelectionCounts
        <4>. QED BY <4>2, <4>3 DEF LogAgrees, Number
      <3>3. CASE o.err = ""
        <4>1. Failures' = Failures /\ o \notin Failures
          BY <2>1, <3>3 DEF Failures
        <4>2. stats'.failed = stats.failed
          BY <2>3, <3>3
        <4>3. SumFunctionOnSet(log', Failures') = Number(Failures)
          BY <1>1, <1>2, <2>1, <3>1, <4>1, SelectionCounts
        <4>. QED BY <4>2, <4>3 DEF LogAgrees, Number
      <3>. QED BY <3>2, <3>3
    <2>7. (\A k \in Kinds : stats.perKind[k] = Number(OfKind(k)))'
      <3>. SUFFICES ASSUME NEW k \in Kinds
                    PROVE  stats'.perKind[k] = SumFunctionOnSet(log', OfKind(k)')
        BY DEF Number
      <3>1. OfKind(k) \in SUBSET Measured /\ stats.perKind[k] = Number(OfKind(k))
        BY DEF OfKind, LogAgrees
      <3>2. stats.perKind \in [Kinds -> Nat]
        BY <2>2 DEF Stats
      <3>3. CASE o.kind = k
        <4>1. /\ OfKind(k)' = OfKind(k) \cup {o} /\ o \in OfKind(k)'
              /\ o \in Measured => o \in OfKind(k)
          BY <2>1, <3>3 DEF OfKind
        <4>2. stats'.perKind[k] = stats.perKind[k] + 1
          BY <2>3, <3>2, <3>3
        <4>3. SumFunctionOnSet(log', OfKind(k)') = Number(OfKind(k)) + 1
          BY <1>1, <1>2, <2>1, <3>1, <4>1, SelectionCounts
        <4>. QED BY <3>1, <4>2, <4>3
      <3>4. CASE o.kind # k
        <4>1. OfKind(k)' = OfKind(k) /\ o \notin OfKind(k)
          BY <2>1, <3>4 DEF OfKind
        <4>2. stats'.perKind[k] = stats.perKind[k]
          BY <2>3, <3>2, <3>4
        <4>3. SumFunctionOnSet(log', OfKind(k)') = Number(OfKind(k))
          BY <1>1, <1>2, <2>1, <3>1, <4>1, SelectionCounts
        <4>. QED BY <3>1, <4>2, <4>3
      <3>. QED BY <3>3, <3>4
    <2>8. (\A i \in DOMAIN Bounds :
              Cumulative(stats.latency, i) = Number(Quick(Bounds[i])))'
      <3>. SUFFICES ASSUME NEW i \in DOMAIN Bounds
                    PROVE  Cumulative(stats'.latency, i)
                              = SumFunctionOnSet(log', Quick(Bounds[i])')
        BY DEF Number, Cumulative
      <3>. DEFINE A == Quick(Bounds[i])
      <3>1. A \in SUBSET Measured /\ Cumulative(h, i) = Number(A)
        BY DEF Quick, LogAgrees
      <3>2. Cumulative(stats'.latency, i) =
               Cumulative(h, i) + IF d <= Bounds[i] THEN 1 ELSE 0
        <4>1. Cumulative(HistogramRecord(h, o.latency), i) =
                 Cumulative(h, i) +
                    IF (IF o.latency < 0 THEN 0 ELSE o.latency) <= Bounds[i]
                    THEN 1 ELSE 0
          BY <2>2, CumulativeGrows
        <4>. HIDE DEF d, h
        <4>. QED BY <2>3, <2>4, <4>1
      <3>3. Number(A) \in Nat
        <4>1. IsFiniteSet(A) /\ \A x \in A : log[x] \in Nat
          BY <1>1, <3>1, FS_Subset DEF LogIsBag, Measured
        <4>. HIDE DEF A
        <4>. QED BY <4>1, SumType DEF Number
      <3>4. CASE d <= Bounds[i]
        <4>1. /\ A' = A \cup {o} /\ o \in A' /\ (o \in Measured => o \in A)
          BY <2>1, <3>4 DEF Quick, Duration
        <4>. HIDE DEF A
        <4>2. SumFunctionOnSet(log', A') = Number(A) + 1
          BY <1>1, <1>2, <2>1, <3>1, <4>1, SelectionCounts
        <4>3. Cumulative(stats'.latency, i) = Cumulative(h, i) + 1
          BY <3>2, <3>4
        <4>. QED BY <3>1, <4>2, <4>3 DEF A
      <3>5. CASE ~(d <= Bounds[i])
        <4>1. A' = A /\ o \notin A
          BY <2>1, <3>5 DEF Quick, Duration
        <4>. HIDE DEF A
        <4>2. SumFunctionOnSet(log', A') = Number(A)
          BY <1>1, <1>2, <2>1, <3>1, <4>1, SelectionCounts
        <4>3. Cumulative(stats'.latency, i) = Cumulative(h, i) + 0
          BY <3>2, <3>5
        <4>. HIDE DEF d, h
        <4>. QED BY <3>1, <3>3, <4>2, <4>3 DEF A
      <3>. QED BY <3>4, <3>5
    <2>9. (stats.latency.sum = SumFunctionOnSet(Times, Measured))'
      <3>1. stats'.latency.sum = h.sum + d
        <4>1. HistogramRecord(h, o.latency).sum =
                 h.sum + IF o.latency < 0 THEN 0 ELSE o.latency
          BY DEF HistogramRecord
        <4>. HIDE DEF d, h
        <4>. QED BY <2>3, <2>4, <4>1
      <3>2. SumFunctionOnSet(Times', Measured \cup {o}) =
               SumFunctionOnSet(Times, Measured) + d
        BY <1>1, <1>2, <2>1, <2>2, TimesGrow
      <3>. QED BY <2>1, <3>1, <3>2 DEF LogAgrees
    <2>10. Extremes'
      BY <2>1, <2>3, ExtremesGrow
    <2>. QED BY <1>3, <2>5, <2>6, <2>7, <2>8, <2>9, <2>10 DEF LogAgrees
  <1>. QED BY <1>4, <1>5

LEMMA InitAgrees == Init => LogAgrees
  <1>. SUFFICES ASSUME Init PROVE LogAgrees
    OBVIOUS
  <1>1. DOMAIN log = {}
    BY DEF Init, EmptyBag, SetToBag
  <1>2. Measured = {}
    BY <1>1 DEF Measured
  <1>3. /\ Failures = {} /\ \A k : OfKind(k) = {}
        /\ \A bound : Quick(bound) = {}
    BY <1>2 DEF Failures, OfKind, Quick
  <1>4. Number({}) = 0
    BY SumOfNone DEF Number
  <1>5. /\ stats.total = 0 /\ stats.failed = 0
        /\ \A k \in Kinds : stats.perKind[k] = 0
        /\ stats.latency.sum = 0
        /\ stats.latency.counts = [i \in 1..(Len(Bounds) + 1) |-> 0]
    BY DEF Init, newRunStats, newLatencyHistogram
  <1>6. ASSUME NEW i \in DOMAIN Bounds PROVE Cumulative(stats.latency, i) = 0
    <2>1. i \in 1..Len(Bounds) /\ Len(Bounds) \in Nat
      BY StatisticsAssumption
    <2>2. IsFiniteSet(1..i)
      BY <2>1, FS_Interval
    <2>3. \A j \in 1..i : stats.latency.counts[j] = 0
      BY <1>5, <2>1
    <2>. QED BY <2>2, <2>3, SumOfZeros DEF Cumulative
  <1>7. LogIsBag
    BY <1>1, FS_EmptySet DEF LogIsBag
  <1>8. SumFunctionOnSet(Times, Measured) = 0
    BY <1>2, SumOfNone
  <1>. QED BY <1>2, <1>3, <1>4, <1>5, <1>6, <1>7, <1>8 DEF LogAgrees, Extremes

\* Only record changes what the figures are made of.
LEMMA OthersAgree ==
    ASSUME StatsInv, LogAgrees, Tick \/ FinishRun \/ TakeSample \/ UNCHANGED vars
    PROVE  LogAgrees'
  <1>1. log' = log
    BY DEF Tick, FinishRun, TakeSample, vars
  <1>2. /\ stats'.total = stats.total /\ stats'.failed = stats.failed
        /\ stats'.perKind = stats.perKind /\ stats'.latency = stats.latency
    <2>1. CASE FinishRun
      <3>1. PICK at : stats' = [stats EXCEPT !.finishedAt = at]
        BY <2>1 DEF FinishRun, Finish, StatsInv, Stats
      <3>. QED BY <3>1 DEF StatsInv, Stats
    <2>2. CASE Tick \/ TakeSample \/ UNCHANGED vars
      BY <2>2 DEF Tick, TakeSample, vars
    <2>. QED BY <2>1, <2>2
  <1>3. LogIsBag' /\ Measured' = Measured
    BY <1>1 DEF LogAgrees, LogIsBag, Measured
  <1>4. /\ \A S \in SUBSET Measured : SumFunctionOnSet(log', S) = Number(S)
        /\ \A x \in Measured : log'[x] = log[x]
    BY <1>1 DEF Number
  <1>. QED BY <1>2, <1>3, <1>4, FiguresStand

LEMMA RecordingAgrees == StatsInv /\ LogAgrees /\ RecordOperation => LogAgrees'
  <1>. SUFFICES ASSUME StatsInv, LogAgrees, RecordOperation PROVE LogAgrees'
    OBVIOUS
  <1>1. \E o : /\ o.latency \in Latencies /\ o.completedAt \in 0..now
               /\ stats' = Record(stats, o) /\ log' = log (+) SetToBag({o})
    BY DEF RecordOperation
  <1>2. PICK o : /\ o.latency \in Latencies /\ o.completedAt \in 0..now
                 /\ stats' = Record(stats, o) /\ log' = log (+) SetToBag({o})
    BY <1>1
  <1>3. o.completedAt \in Int
    BY <1>2
  <1>4. Joined(log, o, log')
    BY <1>2, BagGrows DEF LogAgrees, LogIsBag
  <1>. QED BY <1>2, <1>3, <1>4, RecordAgrees

(***************************************************************************)
(* Whatever is recorded in whatever order, late and long warm-up calls     *)
(* included, the counters and the histogram are those of the measured      *)
(* operations.                                                             *)
(***************************************************************************)
THEOREM LogAlwaysAgrees == Spec => []LogAgrees
  <1>1. StatsInv /\ LogAgrees /\ [Next]_vars => LogAgrees'
    BY OthersAgree, RecordingAgrees DEF Next
  <1>. QED BY <1>1, InitAgrees, StatsInvariance, PTL DEF Spec

-----------------------------------------------------------------------------
(* What the results, the exposition and the percentiles make of them.      *)

LEMMA LeastIsMin ==
    ASSUME NEW T \in SUBSET Int, NEW m \in T, \A x \in T : m <= x
    PROVE  Min(T) = m
  <1>1. \A x \in T : (\A y \in T : x <= y) => x = m
    OBVIOUS
  <1>. QED BY <1>1 DEF Min

LEMMA GreatestIsMax ==
    ASSUME NEW T \in SUBSET Int, NEW m \in T, \A x \in T : x <= m
    PROVE  Max(T) = m
  <1>1. \A x \in T : (\A y \in T : x >= y) => x = m
    OBVIOUS
  <1>2. \A x \in T : m >= x
    OBVIOUS
  <1>. QED BY <1>1, <1>2 DEF Max

LEMMA FiguresMatch == StatsInv /\ LogAgrees => FiguresMatchOperations
  <1>. SUFFICES ASSUME StatsInv, LogAgrees PROVE FiguresMatchOperations
    OBVIOUS
  <1>. DEFINE s == sampleLocked(stats, now)
              series == WritePrometheus(Metrics(s, TRUE))
              durations == {Duration(o) : o \in Measured}
              buckets == [i \in DOMAIN Bounds |-> Cumulative(stats.latency, i)]
  <1>1. /\ s.total = stats.total /\ s.succeeded = stats.succeeded
        /\ s.failed = stats.failed /\ s.perKind = stats.perKind
        /\ s.min = stats.latency.min /\ s.max = stats.latency.max
        /\ s.histogram = [buckets |-> buckets, count |-> stats.latency.total,
                          sum |-> stats.latency.sum]
    BY DEF sampleLocked, metricsSnapshot
  <1>2. /\ series.latency_bucket = Append(s.histogram.buckets, s.histogram.count)
        /\ series.latency_count = s.histogram.count
        /\ series.latency_sum = s.histogram.sum
        /\ series.operations_total = s.total
        /\ series.operation_errors_total = s.failed
    BY DEF WritePrometheus, Metrics
  <1>3. \A k \in Kinds : SampleStats(s).operationRates[k] =
                            ratePerSecond(s.perKind[k], s.elapsed)
    BY DEF SampleStats
  <1>. HIDE DEF s, series
  <1>4. buckets = [i \in DOMAIN Bounds |-> Within(Bounds[i])]
    BY DEF LogAgrees, Within, Quick
  <1>5. stats.latency.total = Number(Measured) /\ stats.total = Number(Measured)
    BY DEF StatsInv, CountersAgree, LogAgrees
  <1>6. series.latency_bucket = Append([i \in DOMAIN Bounds |-> Within(Bounds[i])],
                                       Number(Measured))
    BY <1>1, <1>2, <1>4, <1>5
  <1>7. series.latency_count = Number(Measured)
        /\ series.operations_total = Number(Measured)
    BY <1>1, <1>2, <1>5
  <1>8. series.latency_sum =
           SumFunctionOnSet([o \in Measured |-> log[o] * Duration(o)], Measured)
    BY <1>1, <1>2 DEF LogAgrees, Times
  <1>9. series.operation_errors_total = Number({o \in Measured : o.err # ""})
    BY <1>1, <1>2 DEF LogAgrees, Failures
  <1>10. s.total = s.succeeded + s.failed
    BY <1>1 DEF StatsInv, CountersAgree
  <1>11. ASSUME durations # {}
         PROVE  s.min = Min(durations) /\ s.max = Max(durations)
    <2>1. durations \in SUBSET Int
      <3>1. \A o \in Measured : o.latency \in Int
        BY StatisticsAssumption DEF LogAgrees, LogIsBag, Measured
      <3>2. \A o \in Measured : Duration(o) \in Int
        BY <3>1, DurationIs
      <3>. QED BY <3>2
    <2>2. /\ stats.latency.min \in durations
          /\ stats.latency.max \in durations
          /\ \A x \in durations : stats.latency.min <= x
          /\ \A x \in durations : x <= stats.latency.max
      BY <1>11 DEF LogAgrees, Extremes
    <2>. HIDE DEF durations
    <2>. QED BY <1>1, <2>1, <2>2, LeastIsMin, GreatestIsMax
  <1>12. ASSUME NEW k \in Kinds
         PROVE  SampleStats(s).operationRates[k] =
                   ratePerSecond(Number({o \in Measured : o.kind = k}), s.elapsed)
    BY <1>1, <1>3 DEF LogAgrees, OfKind
  <1>. QED BY <1>6, <1>7, <1>8, <1>9, <1>10, <1>11, <1>12
           DEF FiguresMatchOperations, s, series

(***************************************************************************)
(* In every state, the results and the exposition are figures of the same  *)
(* measured operations (stats.go:64-85, 123-157, metrics.go:33-101).       *)
(***************************************************************************)
THEOREM FiguresAlwaysMatch == Spec => []FiguresMatchOperations
  BY FiguresMatch, StatsInvariance, LogAlwaysAgrees, PTL

\* The rank is reached as soon as the share is.
LEMMA RankIsShare ==
    ASSUME NEW h, h.total \in Nat \ {0}, NEW p \in Percentiles
    PROVE  /\ Rank(h, p) \in Nat
           /\ \A c \in Nat : c >= Rank(h, p) <=> 100 * c >= p * h.total
  <1>. DEFINE n == h.total
              r == ((p * n) + 99) \div 100
              m == IF r > 1 THEN r ELSE 1
  <1>1. n \in Nat \ {0}
    OBVIOUS
  <1>2. p = 50 \/ p = 90 \/ p = 95 \/ p = 99
    BY DEF Percentiles
  <1>3. Rank(h, p) = Max({1, r})
    BY DEF Rank
  <1>. HIDE DEF n
  <1>4. r \in Nat
    BY <1>1, <1>2
  <1>5. \A c \in Nat : (c >= r /\ c >= 1) <=> 100 * c >= p * n
    BY <1>1, <1>2
  <1>. HIDE DEF r
  <1>6. Max({1, r}) = m
    <2>1. m \in {1, r} /\ {1, r} \in SUBSET Int /\ \A x \in {1, r} : x <= m
      BY <1>4
    <2>. HIDE DEF m
    <2>. QED BY <2>1, GreatestIsMax
  <1>7. m \in Nat /\ \A c \in Nat : c >= m <=> (c >= r /\ c >= 1)
    BY <1>4
  <1>. HIDE DEF m
  <1>8. \A c \in Nat : c >= m <=> 100 * c >= p * n
    BY <1>5, <1>7
  <1>. QED BY <1>3, <1>6, <1>7, <1>8 DEF n

LEMMA PercentilesRank == StatsInv /\ LogAgrees => PercentilesAreRanks
  <1>. SUFFICES ASSUME StatsInv, LogAgrees, Measured # {}, NEW p \in Percentiles
                PROVE  LET q == quantile(stats.latency, p)
                           Enough(bound) ==
                              100 * Within(bound) >= p * Number(Measured)
                       IN  /\ Enough(q)
                           /\ q \in ToSet(Bounds) \cup {stats.latency.max}
                           /\ \A i \in DOMAIN Bounds :
                                 Bounds[i] < q => ~Enough(Bounds[i])
    BY DEF PercentilesAreRanks
  <1>. DEFINE h == stats.latency
              q == quantile(h, p)
              n == Number(Measured)
              r == Rank(h, p)
              reached == {i \in DOMAIN Bounds : Cumulative(h, i) >= r}
              Enough(bound) == 100 * Within(bound) >= p * n
              len == Len(Bounds)
  <1>1. /\ IsFiniteSet(Measured) /\ Measured \subseteq DOMAIN log
        /\ \A x \in Measured : log[x] \in Nat \ {0}
    BY FS_Subset DEF LogAgrees, LogIsBag, Measured
  <1>2. n \in Nat \ {0} /\ h.total = n
    <2>1. PICK x \in Measured : TRUE
      OBVIOUS
    <2>2. \A y \in Measured : log[y] \in Nat
      BY <1>1
    <2>3. log[x] <= n /\ n \in Nat
      BY <1>1, <2>2, SumBounds, SumType DEF Number
    <2>4. log[x] \in Nat \ {0}
      BY <1>1
    <2>5. h.total = n
      BY DEF StatsInv, CountersAgree, LogAgrees
    <2>. QED BY <2>3, <2>4, <2>5
  <1>3. \A bound : Within(bound) \in Nat
    <2>. SUFFICES ASSUME NEW bound PROVE Within(bound) \in Nat
      OBVIOUS
    <2>1. Quick(bound) \subseteq Measured
      BY DEF Quick
    <2>2. IsFiniteSet(Quick(bound)) /\ \A x \in Quick(bound) : log[x] \in Nat
      BY <1>1, <2>1, FS_Subset
    <2>3. SumFunctionOnSet(log, Quick(bound)) \in Nat
      BY <2>2, SumType
    <2>. QED BY <2>3 DEF Within, Number, Quick
  <1>4. \A i \in DOMAIN Bounds : Cumulative(h, i) = Within(Bounds[i])
    BY DEF LogAgrees, Within, Quick
  <1>5. r \in Nat /\ \A c \in Nat : c >= r <=> 100 * c >= p * n
    BY <1>2, RankIsShare
  <1>6. Within(h.max) = n
    <2>1. Quick(h.max) = Measured
      BY DEF LogAgrees, Extremes, Quick
    <2>. QED BY <2>1 DEF Within, Quick
  <1>7. p \in Nat /\ p <= 100
    BY DEF Percentiles
  <1>8. Enough(h.max)
    <2>1. 100 * n >= p * n
      BY <1>2, <1>7 DEF Percentiles
    <2>. QED BY <1>6, <2>1
  <1>9. /\ len \in Nat /\ DOMAIN Bounds = 1..len /\ \A i \in 1..len : Bounds[i] \in Nat
    BY StatisticsAssumption
  <1>10. \A i \in DOMAIN Bounds : Enough(Bounds[i]) <=> i \in reached
    <2>. SUFFICES ASSUME NEW i \in DOMAIN Bounds
                  PROVE  Enough(Bounds[i]) <=> i \in reached
      OBVIOUS
    <2>1. Enough(Bounds[i]) <=> Within(Bounds[i]) >= r
      BY <1>3, <1>5
    <2>. QED BY <1>4, <2>1
  <1>11. q = IF h.total = 0 THEN 0
             ELSE IF reached # {} THEN Bounds[Min(reached)] ELSE h.max
    BY DEF quantile
  <1>12. reached \in SUBSET Nat
    BY <1>9
  <1>. HIDE DEF h, q, n, r, Enough, len
  <1>13. reached # {} =>
            /\ Min(reached) \in reached /\ Min(reached) \in Nat
            /\ \A i \in reached : Min(reached) <= i
    <2>. HIDE DEF reached
    <2>. SUFFICES ASSUME reached # {}
                  PROVE  /\ Min(reached) \in reached /\ Min(reached) \in Nat
                         /\ \A i \in reached : Min(reached) <= i
      OBVIOUS
    <2>1. PICK m \in reached : \A i \in reached : m <= i
      BY <1>12, LeastElement
    <2>2. reached \in SUBSET Int
      BY <1>12
    <2>3. Min(reached) = m
      BY <2>1, <2>2, LeastIsMin
    <2>. QED BY <1>12, <2>1, <2>3
  <1>14. CASE reached # {}
    <2>. DEFINE m == Min(reached)
    <2>1. m \in reached /\ m \in 1..len /\ m \in DOMAIN Bounds
      BY <1>9, <1>13, <1>14
    <2>. HIDE DEF reached
    <2>2. \A i \in reached : m <= i
      BY <1>13, <1>14
    <2>3. q = Bounds[m]
      BY <1>2, <1>11, <1>14
    <2>. HIDE DEF m
    <2>4. Enough(q) /\ q \in ToSet(Bounds)
      BY <1>10, <2>1, <2>3 DEF ToSet
    <2>5. ASSUME NEW i \in DOMAIN Bounds, Bounds[i] < q PROVE ~Enough(Bounds[i])
      <3>1. m < i => Bounds[m] < Bounds[i]
        BY <2>1, BoundsIncrease
      <3>2. i \in Nat /\ m \in Nat /\ Bounds[i] \in Nat /\ Bounds[m] \in Nat
        BY <1>9, <2>1
      <3>3. i < m
        BY <2>3, <2>5, <3>1, <3>2
      <3>4. i \notin reached
        BY <2>2, <3>2, <3>3
      <3>. QED BY <1>10, <3>4
    <2>. QED BY <2>4, <2>5 DEF q, Enough, h, n
  <1>15. CASE reached = {}
    <2>1. q = h.max
      <3>. HIDE DEF reached
      <3>. QED BY <1>2, <1>11, <1>15
    <2>2. \A i \in DOMAIN Bounds : ~Enough(Bounds[i])
      BY <1>10, <1>15
    <2>. HIDE DEF reached
    <2>. QED BY <1>8, <2>1, <2>2 DEF q, Enough, h, n
  <1>. QED BY <1>14, <1>15

(***************************************************************************)
(* In every state in which something is measured, a percentile is the      *)
(* least bound that enough of the operations are within, or the slowest    *)
(* operation (stats.go:159-182).                                           *)
(***************************************************************************)
THEOREM PercentilesAlwaysRanks == Spec => []PercentilesAreRanks
  BY PercentilesRank, StatsInvariance, LogAlwaysAgrees, PTL
=============================================================================

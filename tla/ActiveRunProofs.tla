-------------------------- MODULE ActiveRunProofs --------------------------
(***************************************************************************)
(* Proofs about ActiveRun for every size of the pool, every set of client  *)
(* targets and any number of alterations: the counters of the pool, its    *)
(* size, that done is closed only after finish, that the verdict shows in  *)
(* the statistics, and what a worker may still count once its context has  *)
(* ended.                                                                  *)
(***************************************************************************)
EXTENDS ActiveRun, FiniteSums

\* Goroutines that have not called wg.Done, and those that count as active.
AliveWorkers == {w \in WorkerIDs : Alive(w)}

ActiveWorkers == {w \in WorkerIDs : pc[w] \in InLoop \cup {"leaving"}}

(***************************************************************************)
(* Workers are numbered as they are started, and the map holds only        *)
(* workers that are about and whose own context is live.                   *)
(***************************************************************************)
Numbered ==
    /\ \A w \in WorkerIDs : w >= nextID => pc[w] = "none" /\ w \notin cancelled
    /\ \A w \in workers : w \in ActiveWorkers /\ w \notin cancelled
    /\ resizing # 0 => nextID + resizing <= MaxWorkers

\* A worker leaves only because its context is done, and finish ends it last.
LeaversAreDone ==
    /\ \A w \in WorkerIDs : pc[w] \in {"leaving", "stopped", "gone"} => CtxDone(w)
    /\ stopCtx = "done" <=> once = "done"
    /\ finalErr # "counted"

(***************************************************************************)
(* Until finish has cancelled the run's context the pool is not empty and, *)
(* but for a resize that is under way, as large as was asked for.          *)
(***************************************************************************)
PoolIsStaffed ==
    /\ resizing # 0 => stats.configured = resizing
    /\ stopCtx = "live" =>
          /\ workers # {}
          /\ resizing = 0 => Cardinality(workers) = stats.configured

(***************************************************************************)
(* Once awaitCompletion has been woken every worker of the run is gone,    *)
(* and one that a late Alter starts finds its context done: it can only    *)
(* wait at the gate, fail an operation with the cancellation, or leave.    *)
(***************************************************************************)
Harmless(w) ==
    \/ pc[w] \in {"none", "gate", "ticking", "stranded", "leaving", "stopped",
                  "gone"}
    \/ pc[w] = "operating" /\ outcome[w] = "canceled"

Drained ==
    /\ awaiter \in {"woken", "released", "closing", "over"} =>
          /\ stopCtx = "done"
          /\ \A w \in WorkerIDs : Harmless(w)
    /\ done = "closed" => awaiter = "over"

\* A worker that has counted an operation late begins no other that counts.
LateOnce ==
    \A w \in WorkerIDs :
       late[w] # 0 => /\ late[w] = 1
                      /\ CtxDone(w)
                      /\ Harmless(w) \/ pc[w] = "recorded"

PoolInv ==
    /\ PoolAccounting
    /\ Numbered
    /\ LeaversAreDone
    /\ PoolIsStaffed
    /\ Drained
    /\ LateOnce

(***************************************************************************)
(* Where an error is on its way to the verdict: a cancellation is dropped  *)
(* before it is recorded, and a worker that has recorded an error finds it *)
(* in the statistics until somebody has decided the verdict.               *)
(***************************************************************************)
ErrorsTraced ==
    /\ \A w \in WorkerIDs : pc[w] \in {"warm", "recording"} =>
          outcome[w] # "canceled"
    /\ once = "free" => finalErr = "none"
    /\ \A w \in WorkerIDs : once = "free" /\ pc[w] \in {"recorded", "failing"} =>
          stats.latestError = "workload"
    /\ VerdictShowsInStatistics

-----------------------------------------------------------------------------
\* The k lowest numbers of W, as resizeWorkers keeps them.
LowestOf(W, k) == {w \in W : Cardinality({v \in W : v < w}) < k}

(***************************************************************************)
(* The k lowest of a finite set of numbers are k, for every k there is     *)
(* room for: a smaller pool is as large as was asked for.                  *)
(***************************************************************************)
LEMMA LowestCount ==
    ASSUME NEW W \in SUBSET Nat, IsFiniteSet(W), NEW k \in 0..Cardinality(W)
    PROVE  Cardinality(LowestOf(W, k)) = k
  <1>. DEFINE N == Cardinality(W)
              rank(w) == Cardinality({v \in W : v < w})
              Low(n) == LowestOf(W, n)
              Bad == {n \in 0..N : Cardinality(Low(n)) # n}
  <1>1. N \in Nat
    BY FS_CardinalityType
  <1>2. \A w \in W : rank(w) \in Nat /\ IsFiniteSet({v \in W : v < w})
    BY FS_Subset, FS_CardinalityType
  <1>3. \A n \in 0..N : Low(n) \subseteq W /\ IsFiniteSet(Low(n))
    BY FS_Subset DEF LowestOf
  <1>4. SUFFICES ASSUME Bad # {} PROVE FALSE
    OBVIOUS
  <1>5. PICK n \in Bad : \A m \in Bad : n <= m
    <2>1. Bad \in SUBSET Nat
      BY <1>1
    <2>. HIDE DEF Bad
    <2>. QED BY <2>1, <1>4, LeastElement
  <1>6. n # 0
    <2>1. \A w \in W : ~(rank(w) < 0)
      BY <1>2
    <2>2. Low(0) = {w \in W : rank(w) < 0}
      BY DEF LowestOf
    <2>3. Low(0) = {}
      BY <2>1, <2>2
    <2>. QED BY <2>3, <1>5, FS_EmptySet
  <1>. DEFINE j == n - 1
  <1>7. j \in 0..N /\ j \in Nat /\ n = j + 1 /\ j < N /\ n \in 0..N
    BY <1>1, <1>5, <1>6
  <1>8. Cardinality(Low(j)) = j
    BY <1>5, <1>7
  <1>9. W \ Low(j) # {}
    BY <1>3, <1>7, <1>8
  <1>10. PICK m \in W \ Low(j) : \A y \in W \ Low(j) : m <= y
    BY <1>9, LeastElement
  <1>11. {v \in W : v < m} = Low(j)
    <2>1. ASSUME NEW v \in W, v < m PROVE v \in Low(j)
      BY <1>10, <2>1
    <2>2. ASSUME NEW v \in Low(j) PROVE v < m
      <3>. SUFFICES ASSUME ~(v < m) PROVE FALSE
        OBVIOUS
      <3>1. v \in W /\ m \in W /\ v \in Nat /\ m \in Nat
        BY <1>3, <1>7, <1>10, <2>2
      <3>2. \A u \in Nat : u < m => u < v
        BY <3>1
      <3>a. {u \in W : u < m} \subseteq {u \in W : u < v}
        BY <3>2
      <3>3. rank(m) <= rank(v)
        BY <1>2, <3>1, <3>a, FS_Subset
      <3>4. rank(v) < j
        BY <2>2 DEF LowestOf
      <3>5. rank(m) < j
        BY <1>2, <1>7, <3>1, <3>3, <3>4
      <3>. QED BY <1>10, <3>5 DEF LowestOf
    <2>. QED BY <1>3, <1>7, <2>1, <2>2
  <1>a. Cardinality(Low(j) \cup {m}) = n
    <2>1. IsFiniteSet(Low(j)) /\ m \notin Low(j)
      BY <1>3, <1>7, <1>10
    <2>2. Cardinality(Low(j) \cup {m}) = Cardinality(Low(j)) + 1
      BY <2>1, FS_AddElement
    <2>. QED BY <2>2, <1>7, <1>8
  <1>12. Low(n) = Low(j) \cup {m}
    <2>1. ASSUME NEW w \in Low(j) PROVE w \in Low(n)
      <3>1. w \in W /\ rank(w) < j
        BY <2>1 DEF LowestOf
      <3>2. rank(w) < n
        BY <1>2, <1>7, <3>1
      <3>. QED BY <3>1, <3>2 DEF LowestOf
    <2>2. m \in Low(n)
      <3>1. rank(m) = j
        BY <1>8, <1>11
      <3>. QED BY <1>7, <1>10, <3>1 DEF LowestOf
    <2>3. ASSUME NEW w \in Low(n), w \notin Low(j), w # m PROVE FALSE
      <3>1. w \in W /\ rank(w) < n
        BY <2>3 DEF LowestOf
      <3>2. m < w /\ m \in Nat /\ w \in Nat
        BY <1>10, <2>3, <3>1
      <3>a. \A v \in Nat : v < m => v < w
        BY <3>2
      <3>3. Low(j) \cup {m} \subseteq {v \in W : v < w}
        BY <1>10, <1>11, <3>2, <3>a
      <3>5. n <= rank(w)
        <4>1. IsFiniteSet({v \in W : v < w})
          BY <1>2, <3>1
        <4>2. Cardinality(Low(j) \cup {m}) <= Cardinality({v \in W : v < w})
          BY <4>1, <3>3, FS_Subset
        <4>. QED BY <4>2, <1>a
      <3>6. rank(w) \in Nat /\ n \in Nat
        BY <1>2, <1>7, <3>1
      <3>. QED BY <3>1, <3>5, <3>6
    <2>. QED BY <2>1, <2>2, <2>3
  <1>13. Cardinality(Low(n)) = n
    BY <1>a, <1>12
  <1>. QED BY <1>5, <1>13

-----------------------------------------------------------------------------
LEMMA Bounds ==
    /\ MaxWorkers \in Nat /\ MaxWorkers >= 1 /\ MaxAlters \in Nat
    /\ MaxOps \in Nat /\ InitialClients \in 1..MaxWorkers
    /\ ClientTargets \subseteq 1..MaxWorkers
    /\ WorkerIDs \subseteq Nat /\ IsFiniteSet(WorkerIDs)
    /\ \A w \in WorkerIDs : w < MaxWorkers
    /\ Cardinality(WorkerIDs) = MaxWorkers
  <1>1. /\ MaxWorkers \in Nat /\ MaxWorkers >= 1 /\ MaxAlters \in Nat
        /\ MaxOps \in Nat /\ InitialClients \in 1..MaxWorkers
        /\ ClientTargets \subseteq 1..MaxWorkers
    BY PoolAssumption
  <1>2. /\ WorkerIDs \subseteq Nat
        /\ \A w \in WorkerIDs : w < MaxWorkers
    BY <1>1 DEF WorkerIDs
  <1>3. IsFiniteSet(WorkerIDs) /\ Cardinality(WorkerIDs) = MaxWorkers
    BY <1>1, FS_Interval DEF WorkerIDs
  <1>. QED BY <1>1, <1>2, <1>3

\* Sets of workers are finite, and no larger than the bound.
LEMMA Finite ==
    ASSUME NEW S \in SUBSET WorkerIDs
    PROVE  IsFiniteSet(S) /\ Cardinality(S) \in 0..MaxWorkers
  <1>1. IsFiniteSet(S) /\ Cardinality(S) <= MaxWorkers
    BY Bounds, FS_Subset
  <1>. QED BY <1>1, Bounds, FS_CardinalityType

StatsType == [active : Nat, configured : 1..MaxWorkers, total : Nat,
              failed : Nat, latestError : Errors \ {"counted"}]

(***************************************************************************)
(* What is recorded of an operation is a sample of the statistics, in      *)
(* which the sizes of the pool are not touched.                            *)
(***************************************************************************)
LEMMA RecordFacts ==
    ASSUME stats \in StatsType, NEW place, NEW err \in Errors
    PROVE  /\ Record(place, err) \in StatsType
           /\ Record(place, err).active = stats.active
           /\ Record(place, err).configured = stats.configured
  <1>. DEFINE text == IF err = "none" THEN stats.latestError ELSE ErrorText(err)
              total == IF place = "warm" THEN stats.total ELSE stats.total + 1
              fails == IF place = "warm" \/ err = "none" THEN stats.failed
                       ELSE stats.failed + 1
  <1>1. stats.total \in Nat /\ stats.failed \in Nat
    BY DEF StatsType
  <1>2. total \in Nat /\ fails \in Nat
    BY <1>1
  <1>3. text \in Errors \ {"counted"}
    BY DEF StatsType, ErrorText, Errors
  <1>4. Record(place, err) = [stats EXCEPT !.latestError = text,
                                           !.total = total, !.failed = fails]
    BY DEF Record, StatsType
  <1>. HIDE DEF text, total, fails
  <1>. QED BY <1>2, <1>3, <1>4 DEF StatsType

LEMMA StrandFacts ==
    ASSUME TypeOK
    PROVE  /\ Strand \in [WorkerIDs -> Places]
           /\ \A w \in WorkerIDs :
                 Strand[w] = IF pc[w] = "ticking" THEN "stranded" ELSE pc[w]
  BY DEF TypeOK, Strand, Places, InLoop

LEMMA InitType == Init => TypeOK
  <1>. SUFFICES ASSUME Init PROVE TypeOK
    OBVIOUS
  <1>1. 0..(InitialClients - 1) \subseteq WorkerIDs /\ InitialClients \in 1..MaxWorkers
    BY Bounds DEF WorkerIDs
  <1>2. pc \in [WorkerIDs -> Places]
    BY DEF Init, Places, InLoop
  <1>3. outcome \in [WorkerIDs -> Errors] /\ late \in [WorkerIDs -> Nat]
    BY DEF Init, Errors
  <1>4. stats \in StatsType
    BY <1>1, Bounds DEF Init, StatsType, Errors
  <1>5. /\ workers \subseteq WorkerIDs /\ nextID \in 0..MaxWorkers
        /\ wg \in 0..MaxWorkers /\ alters \in 0..MaxAlters
    BY <1>1, Bounds DEF Init
  <1>. QED BY <1>2, <1>3, <1>4, <1>5 DEF Init, TypeOK, StatsType, Errors

(***************************************************************************)
(* Every step of a worker keeps the types; the counter of the WaitGroup    *)
(* does not fall below zero because it counts the workers that are about.  *)
(***************************************************************************)
LEMMA WorkerStepType ==
    ASSUME TypeOK, PoolInv, NEW w \in WorkerIDs, WorkerStep(w)
    PROVE  TypeOK'
  <1>. USE DEF Move, pool, ending, outside
  <1>0. /\ pc \in [WorkerIDs -> Places] /\ outcome \in [WorkerIDs -> Errors]
        /\ late \in [WorkerIDs -> Nat] /\ stats \in StatsType
    BY DEF TypeOK, StatsType
  <1>1. CASE ReadTicker(w)
    <2>1. pc' \in [WorkerIDs -> Places] /\ outcome' \in [WorkerIDs -> Errors]
      BY <1>0, <1>1 DEF ReadTicker, Places, InLoop, Errors
    <2>. QED BY <2>1, <1>1 DEF ReadTicker, TypeOK
  <1>2. CASE Tick(w)
    <2>1. pc' \in [WorkerIDs -> Places] /\ outcome' \in [WorkerIDs -> Errors]
      BY <1>0, <1>2 DEF Tick, Places, InLoop, Errors
    <2>. QED BY <2>1, <1>2 DEF Tick, TypeOK
  <1>3. CASE WaitCancelled(w)
    <2>1. pc' \in [WorkerIDs -> Places]
      BY <1>0, <1>3 DEF WaitCancelled, Places, InLoop
    <2>. QED BY <2>1, <1>3 DEF WaitCancelled, TypeOK
  <1>4. CASE RunOnceReturns(w)
    <2>1. pc' \in [WorkerIDs -> Places] /\ outcome' \in [WorkerIDs -> Errors]
      BY <1>0, <1>4 DEF RunOnceReturns, Places, InLoop, Errors
    <2>. QED BY <2>1, <1>4 DEF RunOnceReturns, TypeOK
  <1>5. CASE RecordOperation(w)
    <2>1. pc' \in [WorkerIDs -> Places]
      BY <1>0, <1>5 DEF RecordOperation, Places, InLoop
    <2>2. late' \in [WorkerIDs -> Nat]
      BY <1>0, <1>5 DEF RecordOperation
    <2>3. stats' \in StatsType
      BY <1>0, <1>5, RecordFacts DEF RecordOperation
    <2>. QED BY <2>1, <2>2, <2>3, <1>5 DEF RecordOperation, TypeOK, StatsType
  <1>6. CASE AfterFailure(w)
    <2>1. pc' \in [WorkerIDs -> Places] /\ outcome' \in [WorkerIDs -> Errors]
      BY <1>0, <1>6 DEF AfterFailure, Places, InLoop, Errors
    <2>. QED BY <2>1, <1>6 DEF AfterFailure, TypeOK
  <1>7. CASE WorkerFails(w)
    BY <1>7 DEF WorkerFails, Decide, TypeOK, Errors
  <1>8. CASE FinishReturns(w)
    <2>1. pc' \in [WorkerIDs -> Places]
      BY <1>0, <1>8 DEF FinishReturns, Places
    <2>. QED BY <2>1, <1>8 DEF FinishReturns, TypeOK
  <1>9. CASE WorkerStopped(w)
    <2>1. pc' \in [WorkerIDs -> Places] /\ late' \in [WorkerIDs -> Nat]
      BY <1>0, <1>9 DEF WorkerStopped, Places
    <2>. DEFINE act == IF stats.active > 0 THEN stats.active - 1 ELSE stats.active
    <2>2. act \in Nat
      BY <1>0 DEF StatsType
    <2>3. stats' = [stats EXCEPT !.active = act]
      BY <1>0, <1>9 DEF WorkerStopped
    <2>. HIDE DEF act
    <2>4. stats' \in StatsType
      BY <1>0, <2>2, <2>3 DEF StatsType
    <2>5. workers' \subseteq WorkerIDs
      BY <1>9 DEF WorkerStopped, TypeOK
    <2>. QED BY <2>1, <2>4, <2>5, <1>9 DEF WorkerStopped, TypeOK, StatsType
  <1>10. CASE WorkerDone(w)
    <2>1. pc' \in [WorkerIDs -> Places]
      BY <1>0, <1>10 DEF WorkerDone, Places
    <2>2. wg = Cardinality(AliveWorkers) /\ w \in AliveWorkers
      BY <1>10 DEF PoolInv, PoolAccounting, AliveWorkers, Alive, WorkerDone
    <2>3. IsFiniteSet(AliveWorkers)
      BY Finite DEF AliveWorkers
    <2>4. wg # 0
      BY <2>2, <2>3, FS_EmptySet
    <2>5. wg' \in 0..MaxWorkers
      BY <2>4, <1>10, Bounds DEF WorkerDone, TypeOK
    <2>6. awaiter' \in {"start", "blocked", "woken", "released", "closing",
                        "over"}
      BY <1>10 DEF WorkerDone, TypeOK
    <2>. QED BY <2>1, <2>5, <2>6, <1>10 DEF WorkerDone, TypeOK
  <1>. QED BY <1>1, <1>2, <1>3, <1>4, <1>5, <1>6, <1>7, <1>8, <1>9, <1>10
           DEF WorkerStep

-----------------------------------------------------------------------------
\* What resizeWorkers computes under r.mu.
Missing == resizing - Cardinality(workers)

Fresh == {w \in WorkerIDs : w >= nextID /\ w < nextID + Missing}

(***************************************************************************)
(* A growing pool: the fresh numbers are as many as are missing, nobody    *)
(* has had them before, and the bound leaves room for them.                *)
(***************************************************************************)
LEMMA GrowFacts ==
    ASSUME TypeOK, PoolInv, resizing # 0, Missing >= 0
    PROVE  /\ Missing \in Nat
           /\ nextID + Missing \in 0..MaxWorkers
           /\ IsFiniteSet(Fresh) /\ Cardinality(Fresh) = Missing
           /\ \A w \in Fresh : pc[w] = "none" /\ w \notin cancelled
           /\ Fresh \cap workers = {}
           /\ Cardinality(workers \cup Fresh) = resizing
           /\ resizing \in 1..MaxWorkers
  <1>1. resizing \in 1..MaxWorkers /\ nextID \in 0..MaxWorkers
    BY Bounds DEF TypeOK
  <1>2. IsFiniteSet(workers) /\ Cardinality(workers) \in 0..MaxWorkers
    BY Finite DEF TypeOK
  <1>3. nextID + resizing <= MaxWorkers
    BY DEF PoolInv, Numbered
  <1>4. /\ Missing \in Nat /\ Missing <= resizing
        /\ nextID + Missing \in 0..MaxWorkers
    BY <1>1, <1>2, <1>3, Bounds DEF Missing
  <1>5. Fresh = nextID..(nextID + Missing - 1)
    BY <1>1, <1>4, Bounds DEF Fresh, WorkerIDs
  <1>6. IsFiniteSet(Fresh) /\ Cardinality(Fresh) = Missing
    BY <1>1, <1>4, <1>5, FS_Interval
  <1>7. \A w \in Fresh : pc[w] = "none" /\ w \notin cancelled
    BY DEF Fresh, PoolInv, Numbered
  <1>8. Fresh \cap workers = {}
    <2>1. \A w \in workers : pc[w] # "none"
      BY DEF PoolInv, Numbered, ActiveWorkers, InLoop
    <2>. QED BY <2>1, <1>7
  <1>9. Cardinality(workers \cup Fresh) = resizing
    <2>1. Cardinality(workers \cup Fresh)
            = Cardinality(workers) + Cardinality(Fresh)
                 - Cardinality(workers \cap Fresh)
      BY <1>2, <1>6, FS_Union
    <2>2. Cardinality(workers \cap Fresh) = 0
      BY <1>8, FS_EmptySet
    <2>. QED BY <2>1, <2>2, <1>1, <1>2, <1>6 DEF Missing
  <1>. QED BY <1>1, <1>4, <1>6, <1>7, <1>8, <1>9

(***************************************************************************)
(* A shrinking pool keeps exactly as many workers as were asked for.       *)
(***************************************************************************)
LEMMA ShrinkFacts ==
    ASSUME TypeOK, PoolInv, resizing # 0, ~(Missing >= 0)
    PROVE  /\ Kept(resizing) \subseteq workers
           /\ Cardinality(Kept(resizing)) = resizing
           /\ resizing \in 1..MaxWorkers
  <1>1. resizing \in 1..MaxWorkers
    BY Bounds DEF TypeOK
  <1>2. IsFiniteSet(workers) /\ Cardinality(workers) \in 0..MaxWorkers
    BY Finite DEF TypeOK
  <1>3. resizing \in 0..Cardinality(workers)
    BY <1>1, <1>2 DEF Missing
  <1>4. workers \in SUBSET Nat
    BY Bounds DEF TypeOK
  <1>5. Cardinality(LowestOf(workers, resizing)) = resizing
    BY <1>2, <1>3, <1>4, LowestCount
  <1>6. Kept(resizing) = LowestOf(workers, resizing)
    BY DEF Kept, LowestOf
  <1>. QED BY <1>1, <1>5, <1>6 DEF Kept

LEMMA ResizePoolType ==
    ASSUME TypeOK, PoolInv, ResizePool
    PROVE  TypeOK'
  <1>. USE DEF pool, ending, outside
  <1>0. stats \in StatsType /\ resizing # 0
    BY DEF TypeOK, StatsType, ResizePool
  <1>1. CASE Missing >= 0
    <2>1. /\ Missing \in Nat /\ nextID + Missing \in 0..MaxWorkers
          /\ IsFiniteSet(Fresh) /\ Cardinality(Fresh) = Missing
          /\ \A w \in Fresh : pc[w] = "none"
      BY <1>0, <1>1, GrowFacts
    <2>2. /\ workers' = workers \cup Fresh /\ nextID' = nextID + Missing
          /\ wg' = wg + Missing /\ stats' = [stats EXCEPT !.active = @ + Missing]
          /\ pc' = [w \in WorkerIDs |-> IF w \in Fresh THEN "gate" ELSE pc[w]]
          /\ cancelled' = cancelled
      BY <1>1 DEF ResizePool, Missing, Fresh
    <2>3. workers' \subseteq WorkerIDs
      BY <2>2 DEF Fresh, TypeOK
    <2>4. pc' \in [WorkerIDs -> Places]
      BY <2>2 DEF TypeOK, Places, InLoop
    <2>5. stats' \in StatsType
      <3>1. stats.active + Missing \in Nat
        BY <1>0, <2>1 DEF StatsType
      <3>. QED BY <1>0, <2>2, <3>1 DEF StatsType
    <2>6. wg' \in 0..MaxWorkers
      <3>1. AliveWorkers \cap Fresh = {}
        BY <2>1 DEF AliveWorkers, Alive, InLoop
      <3>2. IsFiniteSet(AliveWorkers) /\ AliveWorkers \cup Fresh \subseteq WorkerIDs
        BY Finite DEF AliveWorkers, Fresh
      <3>3. Cardinality(AliveWorkers \cup Fresh)
              = Cardinality(AliveWorkers) + Cardinality(Fresh)
                   - Cardinality(AliveWorkers \cap Fresh)
        BY <2>1, <3>2, FS_Union
      <3>4. Cardinality(AliveWorkers \cap Fresh) = 0
        BY <3>1, FS_EmptySet
      <3>5. wg = Cardinality(AliveWorkers)
        BY DEF PoolInv, PoolAccounting, AliveWorkers
      <3>6. wg \in 0..MaxWorkers
        BY DEF TypeOK
      <3>7. wg + Missing = Cardinality(AliveWorkers \cup Fresh)
        BY <2>1, <3>3, <3>4, <3>5, <3>6, Bounds
      <3>. QED BY <2>2, <3>2, <3>7, Finite
    <2>. QED BY <2>1, <2>2, <2>3, <2>4, <2>5, <2>6
             DEF ResizePool, TypeOK, StatsType
  <1>2. CASE ~(Missing >= 0)
    <2>1. /\ workers' = Kept(resizing) /\ cancelled' = CancelRemoved
          /\ UNCHANGED <<nextID, wg, stats, pc>>
      BY <1>2 DEF ResizePool, Missing
    <2>2. workers' \subseteq WorkerIDs /\ cancelled' \subseteq WorkerIDs
      BY <2>1, <1>0, <1>2, ShrinkFacts DEF CancelRemoved, TypeOK
    <2>. QED BY <2>1, <2>2 DEF ResizePool, TypeOK
  <1>. QED BY <1>1, <1>2

LEMMA NextType == TypeOK /\ PoolInv /\ [Next]_vars => TypeOK'
  <1>. SUFFICES ASSUME TypeOK, PoolInv, [Next]_vars PROVE TypeOK'
    OBVIOUS
  <1>. USE DEF pool, ending, outside
  <1>0. stats \in StatsType
    BY DEF TypeOK, StatsType
  <1>1. ASSUME NEW w \in WorkerIDs, WorkerStep(w) PROVE TypeOK'
    BY <1>1, WorkerStepType
  <1>2. CASE AwaitWorkers \/ AwaitWoken \/ CloseDone
    BY <1>2 DEF AwaitWorkers, AwaitWoken, CloseDone, TypeOK
  <1>3. CASE CloseGate
    BY <1>3, StrandFacts DEF CloseGate, TypeOK
  <1>4. CASE FinishStats
    <2>1. stats' \in StatsType
      BY <1>0, <1>4 DEF FinishStats, StatsType, TypeOK, PoolInv, LeaversAreDone
    <2>. QED BY <2>1, <1>4 DEF FinishStats, TypeOK, StatsType
  <1>5. CASE FinishCancel
    BY <1>5 DEF FinishCancel, TypeOK
  <1>6. CASE WatchParent \/ WatchDuration
    BY <1>6 DEF WatchParent, WatchDuration, Decide, TypeOK, Errors
  <1>7. CASE AlterPace
    <2>1. alters' \in 0..MaxAlters
      BY <1>7, Bounds DEF AlterPace, MayAlter, TypeOK
    <2>. QED BY <1>7, <2>1, StrandFacts DEF AlterPace, TypeOK
  <1>8. ASSUME NEW target \in ClientTargets, AlterClients(target) PROVE TypeOK'
    <2>1. alters' \in 0..MaxAlters
      BY <1>8, Bounds DEF AlterClients, MayAlter, TypeOK
    <2>2. target \in 1..MaxWorkers
      BY Bounds
    <2>3. stats' \in StatsType
      BY <1>0, <1>8, <2>2 DEF AlterClients, StatsType
    <2>. QED BY <1>8, <2>1, <2>3 DEF AlterClients, TypeOK, StatsType
  <1>9. CASE ResizePool
    BY <1>9, ResizePoolType
  <1>10. CASE Stop \/ Collect \/ WarmupEnds
    BY <1>10 DEF Stop, Collect, WarmupEnds, TypeOK
  <1>11. CASE UNCHANGED vars
    BY <1>11 DEF vars, TypeOK
  <1>. QED BY <1>1, <1>2, <1>3, <1>4, <1>5, <1>6, <1>7, <1>8, <1>9, <1>10,
              <1>11 DEF Next, AwaiterStep, FinishStep

-----------------------------------------------------------------------------
LEMMA InitPool == Init => PoolInv
  <1>. SUFFICES ASSUME Init PROVE PoolInv
    OBVIOUS
  <1>. DEFINE first == 0..(InitialClients - 1)
  <1>1. /\ first \subseteq WorkerIDs /\ InitialClients \in 1..MaxWorkers
        /\ \A w \in WorkerIDs : w \in first <=> ~(w >= InitialClients)
    BY Bounds DEF WorkerIDs
  <1>2. Cardinality(first) = InitialClients /\ first # {}
    <2>1. /\ InitialClients - 1 \in Int /\ ~(0 > InitialClients - 1)
          /\ InitialClients - 1 - 0 + 1 = InitialClients
      BY <1>1, Bounds
    <2>2. Cardinality(first) = InitialClients
      BY <2>1, FS_Interval
    <2>3. 0 \in first
      BY <1>1, Bounds
    <2>. QED BY <2>2, <2>3
  <1>3. \A w \in WorkerIDs : pc[w] = IF w \in first THEN "gate" ELSE "none"
    BY DEF Init
  <1>4. /\ workers = first /\ nextID = InitialClients /\ cancelled = {}
        /\ wg = InitialClients /\ stats.active = InitialClients
        /\ stats.configured = InitialClients /\ stopCtx = "live"
        /\ once = "free" /\ finalErr = "none" /\ awaiter = "start"
        /\ done = "open" /\ resizing = 0
        /\ \A w \in WorkerIDs : late[w] = 0
    BY DEF Init
  <1>. HIDE DEF first
  <1>5. AliveWorkers = first /\ ActiveWorkers = first
    BY <1>1, <1>3 DEF AliveWorkers, ActiveWorkers, Alive, InLoop
  <1>6. PoolAccounting
    BY <1>2, <1>3, <1>4, <1>5
    DEF PoolAccounting, AliveWorkers, ActiveWorkers, InLoop
  <1>7. Numbered
    BY <1>1, <1>3, <1>4, <1>5 DEF Numbered
  <1>8. LeaversAreDone
    BY <1>3, <1>4 DEF LeaversAreDone
  <1>9. PoolIsStaffed
    BY <1>2, <1>4 DEF PoolIsStaffed
  <1>10. Drained /\ LateOnce
    BY <1>4 DEF Drained, LateOnce
  <1>. QED BY <1>6, <1>7, <1>8, <1>9, <1>10 DEF PoolInv

(***************************************************************************)
(* A worker that stays in its loop, or leaves it because its context is    *)
(* done, changes nothing in the accounts of the pool.                      *)
(***************************************************************************)
LEMMA MoveKeeps ==
    ASSUME TypeOK, PoolInv, TypeOK',
           NEW w \in WorkerIDs, NEW p \in InLoop \cup {"leaving"},
           pc[w] \in InLoop, pc' = [pc EXCEPT ![w] = p],
           UNCHANGED <<workers, nextID, cancelled, stopCtx, once, finalErr, wg,
                       awaiter, done, resizing>>,
           stats'.active = stats.active, stats'.configured = stats.configured,
           p = "leaving" => CtxDone(w),
           \A v \in WorkerIDs \ {w} : /\ outcome'[v] = outcome[v]
                                      /\ late'[v] = late[v],
           stopCtx = "done" /\ Harmless(w) => Harmless(w)',
           late'[w] # 0 => /\ late'[w] = 1 /\ CtxDone(w)
                           /\ Harmless(w)' \/ p = "recorded"
    PROVE  PoolInv'
  <1>1. /\ pc'[w] = p
        /\ \A v \in WorkerIDs \ {w} : pc'[v] = pc[v]
    BY DEF TypeOK
  <1>2. AliveWorkers' = AliveWorkers /\ ActiveWorkers' = ActiveWorkers
    BY <1>1 DEF AliveWorkers, ActiveWorkers, Alive
  <1>3. \A v \in WorkerIDs : CtxDone(v)' = CtxDone(v)
    BY DEF CtxDone
  <1>4. \A v \in WorkerIDs \ {w} : Harmless(v)' = Harmless(v)
    BY <1>1 DEF Harmless
  <1>5. PoolAccounting'
    BY <1>1, <1>2 DEF PoolAccounting, PoolInv, AliveWorkers, ActiveWorkers
  <1>6. Numbered'
    BY <1>1, <1>2 DEF Numbered, PoolInv, InLoop
  <1>7. LeaversAreDone'
    <2>1. ASSUME NEW v \in WorkerIDs, pc'[v] \in {"leaving", "stopped", "gone"}
          PROVE  CtxDone(v)'
      BY <2>1, <1>1, <1>3 DEF LeaversAreDone, PoolInv, InLoop
    <2>. QED BY <2>1 DEF LeaversAreDone, PoolInv
  <1>8. PoolIsStaffed'
    BY DEF PoolIsStaffed, PoolInv
  <1>9. Drained'
    BY <1>4 DEF Drained, PoolInv
  <1>10. LateOnce'
    BY <1>1, <1>3, <1>4 DEF LateOnce, PoolInv
  <1>. QED BY <1>5, <1>6, <1>7, <1>8, <1>9, <1>10 DEF PoolInv

LEMMA LoopStepPool ==
    ASSUME TypeOK, PoolInv, TypeOK', NEW w \in WorkerIDs,
           \/ ReadTicker(w) \/ Tick(w) \/ WaitCancelled(w) \/ RunOnceReturns(w)
           \/ RecordOperation(w) \/ AfterFailure(w) \/ FinishReturns(w)
    PROVE  PoolInv'
  <1>. USE DEF Move, pool, ending, outside
  <1>0. /\ pc \in [WorkerIDs -> Places] /\ outcome \in [WorkerIDs -> Errors]
        /\ late \in [WorkerIDs -> Nat] /\ stats \in StatsType
    BY DEF TypeOK, StatsType
  <1>a. late[w] # 0 => /\ late[w] = 1 /\ CtxDone(w)
                       /\ Harmless(w) \/ pc[w] = "recorded"
    BY DEF PoolInv, LateOnce
  <1>b. stopCtx = "done" => CtxDone(w)
    BY DEF CtxDone
  <1>1. CASE ReadTicker(w) \/ Tick(w)
    <2>1. PICK p \in {"operating", "ticking"} :
             /\ pc' = [pc EXCEPT ![w] = p]
             /\ p = "operating" => outcome'[w] = IF CtxDone(w) THEN "canceled" ELSE "none"
             /\ p = "operating" \/ outcome' = outcome
      BY <1>0, <1>1 DEF ReadTicker, Tick
    <2>2. /\ pc[w] \in {"gate", "ticking"} /\ UNCHANGED <<pool, ending, outside, stats>>
          /\ \A v \in WorkerIDs \ {w} : outcome'[v] = outcome[v]
      BY <1>0, <1>1 DEF ReadTicker, Tick
    <2>3. pc'[w] = p
      BY <1>0, <2>1
    <2>4. CtxDone(w) => Harmless(w)'
      BY <2>1, <2>3 DEF Harmless
    <2>5. pc[w] \in InLoop /\ p \in InLoop
      BY <2>1, <2>2 DEF InLoop
    <2>. QED BY <1>a, <1>b, <2>1, <2>2, <2>4, <2>5, MoveKeeps DEF InLoop
  <1>2. CASE WaitCancelled(w)
    <2>1. /\ pc' = [pc EXCEPT ![w] = "leaving"] /\ pc[w] \in InLoop
          /\ UNCHANGED <<outcome, pool, ending, outside, stats>> /\ CtxDone(w)
      BY <1>2 DEF WaitCancelled, WaitAborts, InLoop
    <2>2. Harmless(w)'
      BY <1>0, <2>1 DEF Harmless
    <2>. QED BY <1>a, <2>1, <2>2, MoveKeeps
  <1>3. CASE RunOnceReturns(w)
    <2>1. PICK err \in Errors :
             /\ err = "canceled" => CtxDone(w)
             /\ outcome[w] = "canceled" => err = "canceled"
             /\ outcome' = [outcome EXCEPT
                               ![w] = IF Dropped(w, err) THEN "none" ELSE err]
             /\ Move(w, IF Dropped(w, err) THEN "leaving"
                        ELSE IF window = "warmup" THEN "warm" ELSE "recording")
      BY <1>3 DEF RunOnceReturns
    <2>2. pc[w] = "operating" /\ UNCHANGED <<pool, ending, outside, stats>>
      BY <1>3 DEF RunOnceReturns
    <2>3. PICK p \in {"leaving", "warm", "recording"} :
             /\ pc' = [pc EXCEPT ![w] = p]
             /\ p = "leaving" <=> Dropped(w, err)
      BY <2>1
    <2>4. Harmless(w) => p = "leaving"
      BY <2>1, <2>2, <2>3 DEF Harmless, Dropped
    <2>5. pc'[w] = p
      BY <1>0, <2>3
    <2>6. p = "leaving" => Harmless(w)' /\ CtxDone(w)
      BY <2>3, <2>5 DEF Harmless, Dropped
    <2>7. /\ pc[w] \in InLoop /\ p \in InLoop \cup {"leaving"}
          /\ pc[w] # "recorded"
          /\ \A v \in WorkerIDs \ {w} : outcome'[v] = outcome[v]
      BY <1>0, <2>1, <2>2 DEF InLoop
    <2>. QED BY <1>a, <2>2, <2>3, <2>4, <2>6, <2>7, MoveKeeps
  <1>4. CASE RecordOperation(w)
    <2>1. /\ pc[w] \in {"warm", "recording"}
          /\ stats' = Record(pc[w], outcome[w])
          /\ late' = IF CtxDone(w) /\ pc[w] = "recording"
                     THEN [late EXCEPT ![w] = @ + 1] ELSE late
          /\ Move(w, IF outcome[w] = "none" THEN "gate" ELSE "recorded")
          /\ UNCHANGED <<outcome, workers, nextID, cancelled, wg, ending, outside>>
      BY <1>4 DEF RecordOperation
    <2>2. PICK p \in {"gate", "recorded"} : pc' = [pc EXCEPT ![w] = p]
      BY <2>1
    <2>3. pc'[w] = p
      BY <1>0, <2>2
    <2>4. ~Harmless(w) /\ pc[w] # "recorded" /\ late[w] = 0
      BY <1>a, <2>1 DEF Harmless
    <2>5. /\ late'[w] # 0 => late'[w] = 1 /\ CtxDone(w)
          /\ \A v \in WorkerIDs \ {w} : late'[v] = late[v]
      BY <1>0, <2>1, <2>4
    <2>6. Harmless(w)' \/ p = "recorded"
      BY <2>3 DEF Harmless
    <2>7. stats'.active = stats.active /\ stats'.configured = stats.configured
      BY <1>0, <2>1, RecordFacts
    <2>8. pc[w] \in InLoop /\ p \in InLoop /\ p # "leaving"
      BY <2>1 DEF InLoop
    <2>. QED BY <2>1, <2>2, <2>4, <2>5, <2>6, <2>7, <2>8, MoveKeeps
  <1>5. CASE AfterFailure(w)
    <2>1. /\ pc[w] = "recorded"
          /\ Move(w, IF CtxDone(w) THEN "leaving"
                     ELSE IF outcome[w] = "counted" THEN "gate" ELSE "failing")
          /\ outcome' = [outcome EXCEPT ![w] = "none"]
          /\ UNCHANGED <<pool, ending, outside, stats>>
      BY <1>5 DEF AfterFailure
    <2>2. PICK p \in {"leaving", "gate", "failing"} :
             pc' = [pc EXCEPT ![w] = p] /\ (p = "leaving" <=> CtxDone(w))
      BY <2>1
    <2>3. pc'[w] = p
      BY <1>0, <2>2
    <2>4. ~Harmless(w) /\ (p = "leaving" => Harmless(w)')
      BY <2>1, <2>3 DEF Harmless
    <2>5. /\ pc[w] \in InLoop /\ p \in InLoop \cup {"leaving"}
          /\ \A v \in WorkerIDs \ {w} : outcome'[v] = outcome[v]
      BY <1>0, <2>1 DEF InLoop
    <2>. QED BY <1>a, <2>1, <2>2, <2>4, <2>5, MoveKeeps
  <1>6. CASE FinishReturns(w)
    <2>1. /\ pc[w] = "failing" /\ once = "done"
          /\ pc' = [pc EXCEPT ![w] = "leaving"]
          /\ UNCHANGED <<outcome, pool, ending, outside, stats>>
      BY <1>6 DEF FinishReturns
    <2>2. CtxDone(w)
      BY <1>b, <2>1 DEF PoolInv, LeaversAreDone
    <2>3. pc'[w] = "leaving"
      BY <1>0, <2>1
    <2>4. Harmless(w)' /\ pc[w] \in InLoop
      BY <2>1, <2>3 DEF Harmless, InLoop
    <2>. QED BY <1>a, <2>1, <2>2, <2>4, MoveKeeps
  <1>. QED BY <1>1, <1>2, <1>3, <1>4, <1>5, <1>6

(***************************************************************************)
(* What holds of the workers goes on holding when none of them moves, but  *)
(* for the ones a stopped ticker leaves stranded, and no context comes     *)
(* back to life.                                                           *)
(***************************************************************************)
LEMMA WorkersRest ==
    ASSUME TypeOK, PoolInv,
           \A w \in WorkerIDs :
              pc'[w] = pc[w] \/ (pc[w] = "ticking" /\ pc'[w] = "stranded"),
           UNCHANGED <<outcome, workers, nextID, cancelled, wg, late>>,
           stats'.active = stats.active,
           stopCtx = "done" => stopCtx' = "done",
           resizing' # 0 => nextID + resizing' <= MaxWorkers
    PROVE  /\ PoolAccounting' /\ Numbered' /\ LateOnce'
           /\ \A w \in WorkerIDs :
                 /\ pc'[w] \in {"leaving", "stopped", "gone"} => CtxDone(w)'
                 /\ Harmless(w) => Harmless(w)'
  <1>1. AliveWorkers' = AliveWorkers /\ ActiveWorkers' = ActiveWorkers
    BY DEF AliveWorkers, ActiveWorkers, Alive, InLoop
  <1>2. \A w \in WorkerIDs : CtxDone(w) => CtxDone(w)'
    BY DEF CtxDone
  <1>3. \A w \in WorkerIDs : Harmless(w) => Harmless(w)'
    BY DEF Harmless
  <1>4. PoolAccounting'
    <2>1. ASSUME NEW w \in WorkerIDs, pc'[w] \in InLoop
          PROVE  w \in workers \/ w \in cancelled
      <3>1. pc[w] \in InLoop
        BY <2>1 DEF InLoop
      <3>. QED BY <3>1 DEF PoolInv, PoolAccounting
    <2>. QED BY <1>1, <2>1 DEF PoolAccounting, PoolInv, AliveWorkers, ActiveWorkers
  <1>5. Numbered'
    BY <1>1 DEF Numbered, PoolInv
  <1>6. LateOnce'
    <2>1. \A w \in WorkerIDs : pc[w] = "recorded" => pc'[w] = "recorded"
      OBVIOUS
    <2>. QED BY <1>2, <1>3, <2>1 DEF LateOnce, PoolInv
  <1>7. \A w \in WorkerIDs : pc'[w] \in {"leaving", "stopped", "gone"} => CtxDone(w)'
    BY <1>2 DEF LeaversAreDone, PoolInv
  <1>. QED BY <1>3, <1>4, <1>5, <1>6, <1>7

\* finish, in its three steps, whoever calls it.
LEMMA FinishPool ==
    ASSUME TypeOK, PoolInv,
           \/ WatchParent \/ WatchDuration \/ FinishStep
           \/ \E w \in WorkerIDs : WorkerFails(w)
    PROVE  PoolInv'
  <1>. USE DEF pool, ending, outside
  <1>1. /\ UNCHANGED <<pc, outcome, pool, awaiter, done, resizing>>
        /\ stopCtx = "done" => stopCtx' = "done"
        /\ stats'.active = stats.active /\ stats'.configured = stats.configured
    BY DEF WatchParent, WatchDuration, WorkerFails, Decide, FinishStep,
       FinishStats, FinishCancel, TypeOK
  <1>2. stopCtx' = "live" => stopCtx = "live"
    BY <1>1 DEF TypeOK
  <1>3. (stopCtx' = "done" <=> once' = "done") /\ finalErr' # "counted"
    BY DEF WatchParent, WatchDuration, WorkerFails, Decide, MayDecide,
       FinishStep, FinishStats, FinishCancel, PoolInv, LeaversAreDone
  <1>4. resizing' # 0 => nextID + resizing' <= MaxWorkers
    BY <1>1 DEF PoolInv, Numbered
  <1>5. /\ PoolAccounting' /\ Numbered' /\ LateOnce'
        /\ \A w \in WorkerIDs :
              /\ pc'[w] \in {"leaving", "stopped", "gone"} => CtxDone(w)'
              /\ Harmless(w) => Harmless(w)'
    BY <1>1, <1>4, WorkersRest
  <1>6. LeaversAreDone'
    BY <1>3, <1>5 DEF LeaversAreDone
  <1>7. PoolIsStaffed'
    BY <1>1, <1>2 DEF PoolIsStaffed, PoolInv
  <1>8. Drained'
    BY <1>1, <1>5 DEF Drained, PoolInv
  <1>. QED BY <1>5, <1>6, <1>7, <1>8 DEF PoolInv

(***************************************************************************)
(* awaitCompletion.  A zero counter means that nobody is about; since the  *)
(* pool of a live run is never empty, the run's context must be done.      *)
(***************************************************************************)
LEMMA NobodyLeft ==
    ASSUME TypeOK, PoolInv, AliveWorkers = {}
    PROVE  stopCtx = "done" /\ \A w \in WorkerIDs : Harmless(w)
  <1>1. workers = {}
    BY DEF PoolInv, Numbered, ActiveWorkers, AliveWorkers, Alive
  <1>2. stopCtx = "done"
    BY <1>1 DEF PoolInv, PoolIsStaffed, TypeOK
  <1>3. ASSUME NEW w \in WorkerIDs PROVE Harmless(w)
    <2>1. pc[w] \in {"none", "gone"}
      BY DEF AliveWorkers, Alive, TypeOK, Places
    <2>. QED BY <2>1 DEF Harmless
  <1>. QED BY <1>2, <1>3

LEMMA AwaiterPool ==
    ASSUME TypeOK, PoolInv, AwaiterStep
    PROVE  PoolInv'
  <1>. USE DEF pool, ending, outside
  <1>1. /\ UNCHANGED <<outcome, pool, once, finalErr, stopCtx, resizing, stats>>
        /\ \A w \in WorkerIDs :
              pc'[w] = pc[w] \/ (pc[w] = "ticking" /\ pc'[w] = "stranded")
    BY StrandFacts DEF AwaiterStep, AwaitWorkers, AwaitWoken, CloseGate, CloseDone
  <1>2. resizing' # 0 => nextID + resizing' <= MaxWorkers
    BY <1>1 DEF PoolInv, Numbered
  <1>3. /\ PoolAccounting' /\ Numbered' /\ LateOnce'
        /\ \A w \in WorkerIDs :
              /\ pc'[w] \in {"leaving", "stopped", "gone"} => CtxDone(w)'
              /\ Harmless(w) => Harmless(w)'
    BY <1>1, <1>2, WorkersRest
  <1>4. LeaversAreDone' /\ PoolIsStaffed'
    BY <1>1, <1>3 DEF LeaversAreDone, PoolIsStaffed, PoolInv
  <1>5. Drained'
    <2>1. CASE AwaitWorkers
      <3>1. awaiter' = IF wg = 0 THEN "released" ELSE "blocked"
        BY <2>1 DEF AwaitWorkers
      <3>2. done' = done /\ done # "closed"
        BY <2>1 DEF AwaitWorkers, PoolInv, Drained, TypeOK
      <3>3. wg = 0 => AliveWorkers = {}
        <4>1. wg = Cardinality(AliveWorkers) /\ AliveWorkers \subseteq WorkerIDs
          BY DEF PoolInv, PoolAccounting, AliveWorkers
        <4>. QED BY <4>1, Finite, FS_EmptySet
      <3>. QED BY <1>1, <1>3, <3>1, <3>2, <3>3, NobodyLeft DEF Drained
    <2>2. CASE AwaitWoken \/ CloseGate \/ CloseDone
      <3>1. /\ awaiter \in {"woken", "released", "closing"}
            /\ done' = "closed" => awaiter' = "over" \/ done = "closed"
        BY <2>2 DEF AwaitWoken, CloseGate, CloseDone
      <3>. QED BY <1>1, <1>3, <3>1 DEF Drained, PoolInv
    <2>. QED BY <2>1, <2>2 DEF AwaiterStep
  <1>. QED BY <1>3, <1>4, <1>5 DEF PoolInv

\* Alter up to r.mu.Lock, and the steps of the coordinator and the clock.
LEMMA OutsidePool ==
    ASSUME TypeOK, PoolInv,
           \/ AlterPace \/ Stop \/ Collect \/ WarmupEnds
           \/ \E target \in ClientTargets : AlterClients(target)
    PROVE  PoolInv'
  <1>. USE DEF pool, ending, outside, MayAlter
  <1>1. /\ UNCHANGED <<outcome, pool, ending>>
        /\ \A w \in WorkerIDs :
              pc'[w] = pc[w] \/ (pc[w] = "ticking" /\ pc'[w] = "stranded")
    BY StrandFacts DEF AlterPace, Stop, Collect, WarmupEnds, AlterClients
  <1>2. /\ stats'.active = stats.active
        /\ resizing' = 0 => resizing = 0 /\ stats' = stats
        /\ resizing' # 0 => \/ stats'.configured = resizing'
                            \/ resizing' = resizing /\ stats' = stats
    BY Bounds DEF AlterPace, Stop, Collect, WarmupEnds, AlterClients, TypeOK
  <1>3. resizing' # 0 => nextID + resizing' <= MaxWorkers
    BY DEF AlterPace, Stop, Collect, WarmupEnds, AlterClients, PoolInv, Numbered
  <1>4. /\ PoolAccounting' /\ Numbered' /\ LateOnce'
        /\ \A w \in WorkerIDs :
              /\ pc'[w] \in {"leaving", "stopped", "gone"} => CtxDone(w)'
              /\ Harmless(w) => Harmless(w)'
    BY <1>1, <1>2, <1>3, WorkersRest
  <1>5. LeaversAreDone' /\ Drained'
    BY <1>1, <1>4 DEF LeaversAreDone, Drained, PoolInv
  <1>6. PoolIsStaffed'
    BY <1>1, <1>2 DEF PoolIsStaffed, PoolInv
  <1>. QED BY <1>4, <1>5, <1>6 DEF PoolInv

(***************************************************************************)
(* workerStopped.  While the run's context is live a leaving worker was    *)
(* cancelled, so a resize took it out of the map before it left.           *)
(***************************************************************************)
LEMMA WorkerStoppedPool ==
    ASSUME TypeOK, PoolInv, NEW w \in WorkerIDs, WorkerStopped(w)
    PROVE  PoolInv'
  <1>. USE DEF Move, pool, ending, outside
  <1>1. /\ pc[w] = "leaving" /\ workers' = workers \ {w}
        /\ pc' = [pc EXCEPT ![w] = "stopped"] /\ late' = [late EXCEPT ![w] = 0]
        /\ UNCHANGED <<nextID, cancelled, wg, outcome, once, finalErr, stopCtx,
                       awaiter, done, resizing>>
    BY DEF WorkerStopped
  <1>2. /\ pc'[w] = "stopped" /\ late'[w] = 0
        /\ \A v \in WorkerIDs \ {w} : pc'[v] = pc[v] /\ late'[v] = late[v]
    BY <1>1 DEF TypeOK
  <1>3. AliveWorkers' = AliveWorkers /\ ActiveWorkers' = ActiveWorkers \ {w}
    BY <1>1, <1>2 DEF AliveWorkers, ActiveWorkers, Alive, InLoop
  <1>4. \A v \in WorkerIDs : CtxDone(v)' = CtxDone(v)
    BY <1>1 DEF CtxDone
  <1>5. /\ CtxDone(w) /\ Harmless(w)'
        /\ \A v \in WorkerIDs \ {w} : Harmless(v)' = Harmless(v)
    BY <1>1, <1>2 DEF PoolInv, LeaversAreDone, Harmless
  <1>6. stats'.active = Cardinality(ActiveWorkers')
    <2>1. stats.active = Cardinality(ActiveWorkers) /\ w \in ActiveWorkers
      BY <1>1 DEF PoolInv, PoolAccounting, ActiveWorkers
    <2>2. IsFiniteSet(ActiveWorkers)
      BY Finite DEF ActiveWorkers
    <2>3. Cardinality(ActiveWorkers \ {w}) = Cardinality(ActiveWorkers) - 1
      BY <2>1, <2>2, FS_RemoveElement
    <2>4. stats.active \in Nat /\ stats.active # 0
      BY <2>1, <2>2, FS_EmptySet DEF TypeOK
    <2>5. stats'.active = IF stats.active > 0 THEN stats.active - 1 ELSE stats.active
      BY DEF WorkerStopped, TypeOK
    <2>. QED BY <1>3, <2>1, <2>3, <2>4, <2>5
  <1>7. PoolAccounting'
    <2>1. ASSUME NEW v \in WorkerIDs, pc'[v] \in InLoop
          PROVE  v \in workers' \/ v \in cancelled'
      <3>1. v # w
        BY <1>2, <2>1 DEF InLoop
      <3>. QED BY <3>1, <1>1, <1>2, <2>1 DEF PoolInv, PoolAccounting
    <2>2. wg' = Cardinality(AliveWorkers')
      BY <1>1, <1>3 DEF PoolInv, PoolAccounting, AliveWorkers
    <2>. QED BY <1>6, <2>1, <2>2 DEF PoolAccounting, AliveWorkers, ActiveWorkers
  <1>8. Numbered'
    <2>1. \A v \in WorkerIDs : v >= nextID => v # w
      BY <1>1 DEF PoolInv, Numbered
    <2>. QED BY <1>1, <1>2, <1>3, <2>1 DEF PoolInv, Numbered
  <1>9. LeaversAreDone'
    <2>1. ASSUME NEW v \in WorkerIDs, pc'[v] \in {"leaving", "stopped", "gone"}
          PROVE  CtxDone(v)'
      BY <2>1, <1>2, <1>4, <1>5 DEF LeaversAreDone, PoolInv
    <2>. QED BY <2>1, <1>1 DEF LeaversAreDone, PoolInv
  <1>10. PoolIsStaffed'
    <2>1. stats'.configured = stats.configured
      BY DEF WorkerStopped, TypeOK
    <2>2. stopCtx = "live" => w \notin workers
      BY <1>5 DEF CtxDone, PoolInv, Numbered
    <2>3. stopCtx = "live" => workers' = workers
      BY <1>1, <2>2
    <2>. QED BY <1>1, <2>1, <2>3 DEF PoolIsStaffed, PoolInv
  <1>11. Drained'
    BY <1>1, <1>5 DEF Drained, PoolInv
  <1>12. LateOnce'
    BY <1>2, <1>4, <1>5 DEF LateOnce, PoolInv
  <1>. QED BY <1>7, <1>8, <1>9, <1>10, <1>11, <1>12 DEF PoolInv

(***************************************************************************)
(* wg.Done.  The one that takes the counter to zero is the last worker.    *)
(***************************************************************************)
LEMMA WorkerDonePool ==
    ASSUME TypeOK, PoolInv, NEW w \in WorkerIDs, WorkerDone(w)
    PROVE  PoolInv'
  <1>. USE DEF Move, pool, ending, outside
  <1>1. /\ pc[w] = "stopped" /\ wg' = wg - 1
        /\ pc' = [pc EXCEPT ![w] = "gone"]
        /\ awaiter' = IF wg = 1 /\ awaiter = "blocked" THEN "woken" ELSE awaiter
        /\ UNCHANGED <<workers, nextID, cancelled, late, outcome, once, finalErr,
                       stopCtx, done, resizing, stats>>
    BY DEF WorkerDone
  <1>2. pc'[w] = "gone" /\ \A v \in WorkerIDs \ {w} : pc'[v] = pc[v]
    BY <1>1 DEF TypeOK
  <1>3. AliveWorkers' = AliveWorkers \ {w} /\ ActiveWorkers' = ActiveWorkers
    BY <1>1, <1>2 DEF AliveWorkers, ActiveWorkers, Alive, InLoop
  <1>4. \A v \in WorkerIDs : CtxDone(v)' = CtxDone(v)
    BY <1>1 DEF CtxDone
  <1>5. /\ CtxDone(w) /\ Harmless(w)'
        /\ \A v \in WorkerIDs \ {w} : Harmless(v)' = Harmless(v)
    BY <1>1, <1>2 DEF PoolInv, LeaversAreDone, Harmless
  <1>a. /\ wg = Cardinality(AliveWorkers) /\ w \in AliveWorkers
        /\ IsFiniteSet(AliveWorkers)
    BY <1>1, Finite DEF PoolInv, PoolAccounting, AliveWorkers, Alive
  <1>6. wg' = Cardinality(AliveWorkers')
    <2>1. Cardinality(AliveWorkers \ {w}) = Cardinality(AliveWorkers) - 1
      BY <1>a, FS_RemoveElement
    <2>. QED BY <1>1, <1>3, <1>a, <2>1
  <1>7. PoolAccounting'
    <2>1. ASSUME NEW v \in WorkerIDs, pc'[v] \in InLoop
          PROVE  v \in workers' \/ v \in cancelled'
      <3>1. v # w
        BY <1>2, <2>1 DEF InLoop
      <3>. QED BY <3>1, <1>1, <1>2, <2>1 DEF PoolInv, PoolAccounting
    <2>2. stats'.active = Cardinality(ActiveWorkers')
      BY <1>1, <1>3 DEF PoolInv, PoolAccounting, ActiveWorkers
    <2>. QED BY <1>6, <2>1, <2>2 DEF PoolAccounting, AliveWorkers, ActiveWorkers
  <1>8. Numbered'
    <2>1. \A v \in WorkerIDs : v >= nextID => v # w
      BY <1>1 DEF PoolInv, Numbered
    <2>. QED BY <1>1, <1>2, <1>3, <2>1 DEF PoolInv, Numbered
  <1>9. LeaversAreDone'
    <2>1. ASSUME NEW v \in WorkerIDs, pc'[v] \in {"leaving", "stopped", "gone"}
          PROVE  CtxDone(v)'
      BY <2>1, <1>2, <1>4, <1>5 DEF LeaversAreDone, PoolInv
    <2>. QED BY <2>1, <1>1 DEF LeaversAreDone, PoolInv
  <1>10. PoolIsStaffed'
    BY <1>1 DEF PoolIsStaffed, PoolInv
  <1>11. Drained'
    <2>1. CASE wg = 1 /\ awaiter = "blocked"
      <3>1. AliveWorkers = {w}
        <4>1. PICK x : AliveWorkers = {x}
          BY <1>a, <2>1, FS_Singleton
        <4>. QED BY <4>1, <1>a
      <3>2. \A v \in WorkerIDs \ {w} : pc[v] \in {"none", "gone"}
        BY <3>1 DEF AliveWorkers, Alive, TypeOK, Places
      <3>3. \A v \in WorkerIDs : Harmless(v)'
        BY <1>5, <3>2 DEF Harmless
      <3>4. workers = {}
        <4>1. w \notin workers
          BY <1>1 DEF PoolInv, Numbered, ActiveWorkers, InLoop
        <4>2. workers \subseteq AliveWorkers
          BY DEF PoolInv, Numbered, ActiveWorkers, AliveWorkers, Alive
        <4>. QED BY <3>1, <4>1, <4>2
      <3>5. stopCtx = "done"
        BY <3>4 DEF PoolInv, PoolIsStaffed, TypeOK
      <3>6. done # "closed"
        BY <2>1 DEF PoolInv, Drained
      <3>. QED BY <1>1, <3>3, <3>5, <3>6 DEF Drained
    <2>2. CASE ~(wg = 1 /\ awaiter = "blocked")
      BY <1>1, <1>5, <2>2 DEF Drained, PoolInv
    <2>. QED BY <2>1, <2>2
  <1>12. LateOnce'
    <2>1. ASSUME NEW v \in WorkerIDs, late'[v] # 0
          PROVE  /\ late'[v] = 1 /\ CtxDone(v)'
                 /\ Harmless(v)' \/ pc'[v] = "recorded"
      BY <2>1, <1>1, <1>2, <1>4, <1>5 DEF LateOnce, PoolInv
    <2>. QED BY <2>1 DEF LateOnce
  <1>. QED BY <1>7, <1>8, <1>9, <1>10, <1>11, <1>12 DEF PoolInv

(***************************************************************************)
(* Sets of workers that a growing pool adds its fresh ones to.             *)
(***************************************************************************)
LEMMA AddFresh ==
    ASSUME TypeOK, PoolInv, resizing # 0, Missing >= 0,
           NEW S \in SUBSET WorkerIDs, \A w \in S : pc[w] # "none"
    PROVE  Cardinality(S \cup Fresh) = Cardinality(S) + Missing
  <1>1. /\ Missing \in Nat /\ IsFiniteSet(Fresh) /\ Cardinality(Fresh) = Missing
        /\ \A w \in Fresh : pc[w] = "none"
    BY GrowFacts
  <1>2. IsFiniteSet(S) /\ Cardinality(S) \in 0..MaxWorkers
    BY Finite
  <1>3. S \cap Fresh = {}
    BY <1>1
  <1>4. Cardinality(S \cup Fresh)
          = Cardinality(S) + Cardinality(Fresh) - Cardinality(S \cap Fresh)
    BY <1>1, <1>2, FS_Union
  <1>5. Cardinality(S \cap Fresh) = 0
    BY <1>3, FS_EmptySet
  <1>. QED BY <1>1, <1>2, <1>4, <1>5

LEMMA ResizePoolKeeps ==
    ASSUME TypeOK, PoolInv, ResizePool
    PROVE  PoolInv'
  <1>. USE DEF pool, ending, outside
  <1>0. /\ resizing # 0 /\ resizing' = 0
        /\ UNCHANGED <<outcome, late, once, finalErr, stopCtx, awaiter, done>>
    BY DEF ResizePool
  <1>1. CASE Missing >= 0
    <2>1. /\ Missing \in Nat /\ nextID + Missing \in 0..MaxWorkers
          /\ \A w \in Fresh : pc[w] = "none" /\ w \notin cancelled
          /\ Cardinality(workers \cup Fresh) = resizing
          /\ resizing \in 1..MaxWorkers
      BY <1>0, <1>1, GrowFacts
    <2>2. /\ workers' = workers \cup Fresh /\ nextID' = nextID + Missing
          /\ wg' = wg + Missing /\ stats' = [stats EXCEPT !.active = @ + Missing]
          /\ pc' = [w \in WorkerIDs |-> IF w \in Fresh THEN "gate" ELSE pc[w]]
          /\ cancelled' = cancelled
      BY <1>1 DEF ResizePool, Missing, Fresh
    <2>3. /\ stats'.active = stats.active + Missing
          /\ stats'.configured = stats.configured
      BY <2>2 DEF TypeOK
    <2>4. \A w \in WorkerIDs : pc'[w] = IF w \in Fresh THEN "gate" ELSE pc[w]
      BY <2>2
    <2>5. Fresh \subseteq WorkerIDs
      BY DEF Fresh
    <2>6. /\ AliveWorkers' = AliveWorkers \cup Fresh
          /\ ActiveWorkers' = ActiveWorkers \cup Fresh
      BY <2>4, <2>5 DEF AliveWorkers, ActiveWorkers, Alive, InLoop
    <2>7. \A w \in WorkerIDs : CtxDone(w)' = CtxDone(w)
      BY <1>0, <2>2 DEF CtxDone
    <2>8. \A w \in WorkerIDs : Harmless(w) => Harmless(w)'
      BY <1>0, <2>4 DEF Harmless
    <2>9. PoolAccounting'
      <3>1. /\ AliveWorkers \subseteq WorkerIDs /\ ActiveWorkers \subseteq WorkerIDs
            /\ \A w \in AliveWorkers : pc[w] # "none"
            /\ \A w \in ActiveWorkers : pc[w] # "none"
        BY DEF AliveWorkers, ActiveWorkers, Alive, InLoop
      <3>2. Cardinality(AliveWorkers') = Cardinality(AliveWorkers) + Missing
        BY <1>0, <1>1, <2>6, <3>1, AddFresh
      <3>3. Cardinality(ActiveWorkers') = Cardinality(ActiveWorkers) + Missing
        BY <1>0, <1>1, <2>6, <3>1, AddFresh
      <3>4. wg = Cardinality(AliveWorkers) /\ stats.active = Cardinality(ActiveWorkers)
        BY DEF PoolInv, PoolAccounting, AliveWorkers, ActiveWorkers
      <3>5. wg' = Cardinality(AliveWorkers') /\ stats'.active = Cardinality(ActiveWorkers')
        BY <2>2, <2>3, <3>2, <3>3, <3>4
      <3>6. ASSUME NEW w \in WorkerIDs, pc'[w] \in InLoop
            PROVE  w \in workers' \/ w \in cancelled'
        BY <2>2, <2>4, <3>6 DEF PoolInv, PoolAccounting
      <3>. QED BY <3>5, <3>6 DEF PoolAccounting, AliveWorkers, ActiveWorkers
    <2>10. Numbered'
      <3>1. \A w \in WorkerIDs : w >= nextID' => w >= nextID /\ w \notin Fresh
        BY <2>1, <2>2, Bounds DEF Fresh, TypeOK
      <3>2. \A w \in workers' : w \in ActiveWorkers' /\ w \notin cancelled'
        BY <2>1, <2>2, <2>6 DEF PoolInv, Numbered
      <3>. QED BY <1>0, <2>2, <2>4, <3>1, <3>2 DEF PoolInv, Numbered
    <2>11. LeaversAreDone'
      <3>1. ASSUME NEW w \in WorkerIDs, pc'[w] \in {"leaving", "stopped", "gone"}
            PROVE  CtxDone(w)'
        BY <2>4, <2>7, <3>1 DEF LeaversAreDone, PoolInv
      <3>. QED BY <1>0, <3>1 DEF LeaversAreDone, PoolInv
    <2>12. PoolIsStaffed'
      <3>1. Cardinality(workers') # 0
        BY <2>1, <2>2
      <3>2. workers' # {}
        BY <3>1, FS_EmptySet
      <3>3. Cardinality(workers') = resizing
        BY <2>1, <2>2
      <3>. QED BY <1>0, <2>3, <3>2, <3>3 DEF PoolIsStaffed, PoolInv
    <2>13. Drained'
      BY <1>0, <2>8 DEF Drained, PoolInv
    <2>14. LateOnce'
      <3>1. \A w \in WorkerIDs : pc[w] = "recorded" => pc'[w] = "recorded"
        BY <2>1, <2>4
      <3>. QED BY <1>0, <2>7, <2>8, <3>1 DEF LateOnce, PoolInv
    <2>. QED BY <2>9, <2>10, <2>11, <2>12, <2>13, <2>14 DEF PoolInv
  <1>2. CASE ~(Missing >= 0)
    <2>1. /\ Kept(resizing) \subseteq workers
          /\ Cardinality(Kept(resizing)) = resizing
          /\ resizing \in 1..MaxWorkers
      BY <1>0, <1>2, ShrinkFacts
    <2>2. /\ workers' = Kept(resizing)
          /\ cancelled' = cancelled \cup (workers \ Kept(resizing))
          /\ UNCHANGED <<nextID, wg, stats, pc>>
      BY <1>2 DEF ResizePool, Missing, CancelRemoved
    <2>3. \A w \in WorkerIDs : CtxDone(w) => CtxDone(w)'
      BY <1>0, <2>2 DEF CtxDone
    <2>4. /\ AliveWorkers' = AliveWorkers /\ ActiveWorkers' = ActiveWorkers
          /\ \A w \in WorkerIDs : Harmless(w)' = Harmless(w)
      BY <1>0, <2>2 DEF AliveWorkers, ActiveWorkers, Alive, Harmless
    <2>5. PoolAccounting'
      BY <2>2, <2>4 DEF PoolAccounting, PoolInv, AliveWorkers, ActiveWorkers
    <2>6. Numbered'
      <3>1. \A w \in WorkerIDs : w >= nextID => w \notin workers
        BY DEF PoolInv, Numbered, ActiveWorkers, InLoop
      <3>. QED BY <1>0, <2>1, <2>2, <2>4, <3>1 DEF Numbered, PoolInv
    <2>7. LeaversAreDone'
      BY <1>0, <2>2, <2>3 DEF LeaversAreDone, PoolInv
    <2>8. PoolIsStaffed'
      <3>1. Cardinality(workers') # 0
        BY <2>1, <2>2
      <3>2. workers' # {}
        BY <3>1, FS_EmptySet
      <3>3. Cardinality(workers') = resizing
        BY <2>1, <2>2
      <3>. QED BY <1>0, <2>2, <3>2, <3>3 DEF PoolIsStaffed, PoolInv
    <2>9. Drained' /\ LateOnce'
      BY <1>0, <2>2, <2>3, <2>4 DEF Drained, LateOnce, PoolInv
    <2>. QED BY <2>5, <2>6, <2>7, <2>8, <2>9 DEF PoolInv
  <1>. QED BY <1>1, <1>2

LEMMA NextPool == TypeOK /\ PoolInv /\ [Next]_vars => PoolInv'
  <1>. SUFFICES ASSUME TypeOK, PoolInv, [Next]_vars PROVE PoolInv'
    OBVIOUS
  <1>0. TypeOK'
    BY NextType
  <1>1. ASSUME NEW w \in WorkerIDs, WorkerStep(w) PROVE PoolInv'
    <2>1. CASE \/ ReadTicker(w) \/ Tick(w) \/ WaitCancelled(w)
               \/ RunOnceReturns(w) \/ RecordOperation(w) \/ AfterFailure(w)
               \/ FinishReturns(w)
      BY <1>0, <2>1, LoopStepPool
    <2>2. CASE WorkerFails(w)
      BY <2>2, FinishPool
    <2>3. CASE WorkerStopped(w)
      BY <2>3, WorkerStoppedPool
    <2>4. CASE WorkerDone(w)
      BY <2>4, WorkerDonePool
    <2>. QED BY <1>1, <2>1, <2>2, <2>3, <2>4 DEF WorkerStep
  <1>2. CASE AwaiterStep
    BY <1>2, AwaiterPool
  <1>3. CASE FinishStep \/ WatchParent \/ WatchDuration
    BY <1>3, FinishPool
  <1>4. CASE \/ AlterPace \/ Stop \/ Collect \/ WarmupEnds
             \/ \E target \in ClientTargets : AlterClients(target)
    BY <1>4, OutsidePool
  <1>5. CASE ResizePool
    BY <1>5, ResizePoolKeeps
  <1>6. CASE UNCHANGED vars
    BY <1>6 DEF vars, PoolInv, PoolAccounting, Numbered, LeaversAreDone,
       PoolIsStaffed, Drained, LateOnce, Harmless, CtxDone, ActiveWorkers, Alive
  <1>. QED BY <1>1, <1>2, <1>3, <1>4, <1>5, <1>6 DEF Next

-----------------------------------------------------------------------------
(***************************************************************************)
(* Types and the pool's invariant, together inductive: the types of the    *)
(* counters rest on what they count, and what is counted on the types.     *)
(***************************************************************************)
THEOREM PoolInvariance == Spec => [](TypeOK /\ PoolInv)
  <1>1. Init => TypeOK /\ PoolInv
    BY InitType, InitPool
  <1>2. TypeOK /\ PoolInv /\ [Next]_vars => (TypeOK /\ PoolInv)'
    BY NextType, NextPool
  <1>. QED BY <1>1, <1>2, PTL DEF Spec

(***************************************************************************)
(* Type correctness; in particular the WaitGroup's counter never becomes   *)
(* negative, which would panic.                                            *)
(***************************************************************************)
THEOREM RunTypeCorrect == Spec => []TypeOK
  BY PoolInvariance, PTL

(***************************************************************************)
(* The WaitGroup, the active clients and the map of workers agree on the   *)
(* workers there are, through every resize.                                *)
(***************************************************************************)
THEOREM PoolAlwaysAccounted == Spec => []PoolAccounting
  BY PoolInvariance, PTL DEF PoolInv

(***************************************************************************)
(* Until the run is finished the pool has the size last asked for.         *)
(***************************************************************************)
THEOREM PoolSizeHolds == Spec => []PoolHasConfiguredSize
  <1>1. TypeOK /\ PoolInv => PoolHasConfiguredSize
    BY DEF TypeOK, PoolInv, PoolIsStaffed, LeaversAreDone, PoolHasConfiguredSize
  <1>. QED BY <1>1, PoolInvariance, PTL

(***************************************************************************)
(* When Wait returns, finish has run to its end: a pool is never empty     *)
(* before finish has cancelled the run's context.                          *)
(***************************************************************************)
THEOREM DoneAfterFinish == Spec => []DoneMeansFinished
  <1>1. TypeOK /\ PoolInv => DoneMeansFinished
    BY DEF PoolInv, Drained, LeaversAreDone, DoneMeansFinished
  <1>. QED BY <1>1, PoolInvariance, PTL

(***************************************************************************)
(* A worker counts at most one operation after its context is done.        *)
(***************************************************************************)
THEOREM LateAlwaysBounded == Spec => []LateOperationsBounded
  <1>1. TypeOK /\ PoolInv => LateOperationsBounded
    <2>. SUFFICES ASSUME TypeOK, PoolInv, NEW w \in WorkerIDs
                  PROVE  late[w] <= 1
      BY DEF LateOperationsBounded
    <2>1. late[w] = 0 \/ late[w] = 1
      BY DEF PoolInv, LateOnce
    <2>. QED BY <2>1
  <1>. QED BY <1>1, PoolInvariance, PTL

(***************************************************************************)
(* The latest error only ever changes to a workload's, until finish writes *)
(* the verdict itself: a step of a worker carries its error along.         *)
(***************************************************************************)
LEMMA RecordTraces ==
  ASSUME TypeOK, ErrorsTraced, NEW w \in WorkerIDs, RecordOperation(w)
  PROVE  ErrorsTraced'
  <1>. DEFINE err == outcome[w]
  <1>1. /\ pc[w] \in {"warm", "recording"} /\ err # "canceled"
        /\ err \in Errors /\ pc \in [WorkerIDs -> Places]
        /\ stats \in [active : Nat, configured : 1..MaxWorkers, total : Nat,
                     failed : Nat, latestError : Errors \ {"counted"}]
    BY DEF RecordOperation, ErrorsTraced, TypeOK
  <1>2. stats' = Record(pc[w], err)
    BY DEF RecordOperation
  <1>3. stats'.latestError = IF err = "none" THEN stats.latestError ELSE "workload"
    BY <1>1, <1>2 DEF Record, ErrorText, Errors
  <1>4. /\ UNCHANGED <<outcome, once, finalErr>>
        /\ pc' = [pc EXCEPT ![w] = IF err = "none" THEN "gate" ELSE "recorded"]
    BY DEF RecordOperation, Move, ending
  <1>. HIDE DEF err
  <1>5. VerdictShowsInStatistics'
    BY <1>3, <1>4 DEF ErrorsTraced, VerdictShowsInStatistics
  <1>6. ASSUME NEW v \in WorkerIDs
        PROVE  /\ pc'[v] \in {"warm", "recording"} => outcome'[v] # "canceled"
               /\ once' = "free" /\ pc'[v] \in {"recorded", "failing"} =>
                    stats'.latestError = "workload"
    <2>1. CASE v = w
      BY <1>1, <1>3, <1>4, <2>1
    <2>2. CASE v # w
      BY <1>1, <1>3, <1>4, <2>2 DEF ErrorsTraced
    <2>. QED BY <2>1, <2>2
  <1>. QED BY <1>4, <1>5, <1>6 DEF ErrorsTraced

LEMMA ErrorsStayTraced == TypeOK /\ ErrorsTraced /\ [Next]_vars => ErrorsTraced'
  <1>. SUFFICES ASSUME TypeOK, ErrorsTraced, [Next]_vars PROVE ErrorsTraced'
    OBVIOUS
  <1>. USE DEF ErrorsTraced, VerdictShowsInStatistics
  <1>0. /\ pc \in [WorkerIDs -> Places] /\ outcome \in [WorkerIDs -> Errors]
        /\ stats \in [active : Nat, configured : 1..MaxWorkers, total : Nat,
                     failed : Nat, latestError : Errors \ {"counted"}]
    BY DEF TypeOK
  <1>1. ASSUME NEW w \in WorkerIDs, WorkerStep(w) PROVE ErrorsTraced'
    <2>1. CASE RecordOperation(w)
      BY <2>1, RecordTraces
    <2>2. CASE RunOnceReturns(w)
      <3>1. PICK err \in Errors :
               /\ err = "canceled" => CtxDone(w)
               /\ outcome' = [outcome EXCEPT
                                 ![w] = IF Dropped(w, err) THEN "none" ELSE err]
        BY <2>2 DEF RunOnceReturns
      <3>2. outcome'[w] # "canceled"
        BY <1>0, <3>1 DEF Dropped
      <3>3. /\ \A v \in WorkerIDs \ {w} : pc'[v] = pc[v] /\ outcome'[v] = outcome[v]
            /\ pc'[w] \in {"leaving", "warm", "recording"}
        BY <1>0, <2>2, <3>1 DEF RunOnceReturns, Move
      <3>4. UNCHANGED <<once, finalErr, stats>>
        BY <2>2 DEF RunOnceReturns, ending
      <3>. QED BY <3>2, <3>3, <3>4
    <2>3. CASE AfterFailure(w)
      <3>1. /\ \A v \in WorkerIDs \ {w} : pc'[v] = pc[v] /\ outcome'[v] = outcome[v]
            /\ pc[w] = "recorded" /\ pc'[w] \in {"leaving", "gate", "failing"}
        BY <1>0, <2>3 DEF AfterFailure, Move
      <3>2. UNCHANGED <<once, finalErr, stats>>
        BY <2>3 DEF AfterFailure, ending
      <3>. QED BY <3>1, <3>2
    <2>4. CASE ReadTicker(w) \/ Tick(w)
      <3>1. /\ \A v \in WorkerIDs \ {w} : pc'[v] = pc[v] /\ outcome'[v] = outcome[v]
            /\ pc'[w] \in {"operating", "ticking"}
        BY <1>0, <2>4 DEF ReadTicker, Tick, Move
      <3>2. UNCHANGED <<once, finalErr, stats>>
        BY <2>4 DEF ReadTicker, Tick, ending
      <3>. QED BY <3>1, <3>2
    <2>5. CASE WaitCancelled(w) \/ FinishReturns(w) \/ WorkerStopped(w)
               \/ WorkerDone(w)
      <3>1. /\ \A v \in WorkerIDs \ {w} : pc'[v] = pc[v]
            /\ pc'[w] \in {"leaving", "stopped", "gone"}
        BY <1>0, <2>5 DEF WaitCancelled, FinishReturns, WorkerStopped, WorkerDone,
           Move
      <3>2. UNCHANGED <<once, finalErr, outcome>>
        BY <2>5 DEF WaitCancelled, FinishReturns, WorkerStopped, WorkerDone, ending
      <3>3. stats'.latestError = stats.latestError
        BY <1>0, <2>5 DEF WaitCancelled, FinishReturns, WorkerStopped, WorkerDone
      <3>. QED BY <3>1, <3>2, <3>3
    <2>6. CASE WorkerFails(w)
      BY <2>6 DEF WorkerFails, Decide, MayDecide
    <2>. QED BY <1>1, <2>1, <2>2, <2>3, <2>4, <2>5, <2>6 DEF WorkerStep
  <1>2. CASE WatchParent \/ WatchDuration
    BY <1>2 DEF WatchParent, WatchDuration, Decide, MayDecide
  <1>3. CASE FinishStep
    BY <1>0, <1>3 DEF FinishStep, FinishStats, FinishCancel
  <1>4. CASE AwaiterStep \/ AlterPace
    <2>1. /\ \A v \in WorkerIDs : pc'[v] = pc[v] \/ pc'[v] = "stranded"
          /\ UNCHANGED <<outcome, once, finalErr, stats>>
      BY <1>4 DEF AwaiterStep, AwaitWorkers, AwaitWoken, CloseGate, CloseDone,
         AlterPace, Strand, ending
    <2>. QED BY <2>1
  <1>5. CASE ResizePool \/ \E target \in ClientTargets : AlterClients(target)
    <2>1. /\ \A v \in WorkerIDs : pc'[v] = pc[v] \/ pc'[v] = "gate"
          /\ UNCHANGED <<outcome, once, finalErr>>
      BY <1>5 DEF ResizePool, AlterClients, ending
    <2>2. stats'.latestError = stats.latestError
      BY <1>0, <1>5 DEF ResizePool, AlterClients
    <2>. QED BY <2>1, <2>2
  <1>6. CASE Stop \/ Collect \/ WarmupEnds \/ UNCHANGED vars
    BY <1>6 DEF Stop, Collect, WarmupEnds, vars, ending
  <1>. QED BY <1>1, <1>2, <1>3, <1>4, <1>5, <1>6 DEF Next

(***************************************************************************)
(* The verdict and the latest error of the statistics agree in every order *)
(* of failing workers, resizes, stops and the end of the duration: a       *)
(* failure shows from the moment it is the verdict, and a cancellation     *)
(* only when it is (runtime.go:130-138, 201-215).                          *)
(***************************************************************************)
THEOREM VerdictAlwaysShows == Spec => []VerdictShowsInStatistics
  <1>1. Init => ErrorsTraced
    BY PoolAssumption DEF Init, ErrorsTraced, VerdictShowsInStatistics
  <1>2. ErrorsTraced => VerdictShowsInStatistics
    BY DEF ErrorsTraced
  <1>. QED BY <1>1, <1>2, ErrorsStayTraced, PoolInvariance, PTL DEF Spec

(***************************************************************************)
(* Nothing is recorded any more once done is closed, not even by a worker  *)
(* that a late Alter has started: it finds its context done.               *)
(***************************************************************************)
THEOREM AlwaysFrozenAfterDone == Spec => FrozenAfterDone
  <1>. DEFINE Frozen == done = "closed" =>
                           /\ stats'.total = stats.total
                           /\ stats'.failed = stats.failed
                           /\ stats'.latestError = stats.latestError
  <1>1. TypeOK /\ PoolInv /\ [Next]_vars => [Frozen]_vars
    <2>. SUFFICES ASSUME TypeOK, PoolInv, Next, done = "closed"
                  PROVE  /\ stats'.total = stats.total
                         /\ stats'.failed = stats.failed
                         /\ stats'.latestError = stats.latestError
      OBVIOUS
    <2>0. once = "done" /\ \A w \in WorkerIDs : Harmless(w)
      BY DEF PoolInv, Drained, LeaversAreDone
    <2>1. ASSUME NEW w \in WorkerIDs, WorkerStep(w)
          PROVE  /\ stats'.total = stats.total
                 /\ stats'.failed = stats.failed
                 /\ stats'.latestError = stats.latestError
      <3>1. ~RecordOperation(w)
        BY <2>0 DEF RecordOperation, Harmless
      <3>2. CASE WorkerStopped(w)
        BY <3>2 DEF WorkerStopped, TypeOK
      <3>. QED BY <2>1, <3>1, <3>2
               DEF WorkerStep, ReadTicker, Tick, WaitCancelled, RunOnceReturns,
                   AfterFailure, WorkerFails, Decide, FinishReturns, WorkerDone
    <2>2. CASE AwaiterStep
      BY <2>2 DEF AwaiterStep, AwaitWorkers, AwaitWoken, CloseGate, CloseDone
    <2>3. CASE FinishStep \/ WatchParent \/ WatchDuration
      BY <2>0, <2>3 DEF FinishStep, FinishStats, FinishCancel, WatchParent,
         WatchDuration, Decide
    <2>4. CASE AlterPace \/ Stop \/ Collect \/ WarmupEnds
      BY <2>4 DEF AlterPace, Stop, Collect, WarmupEnds
    <2>5. CASE ResizePool \/ \E target \in ClientTargets : AlterClients(target)
      BY <2>5 DEF ResizePool, AlterClients, TypeOK
    <2>. QED BY <2>1, <2>2, <2>3, <2>4, <2>5 DEF Next
  <1>. HIDE DEF Frozen
  <1>2. Spec => [][Frozen]_vars
    BY <1>1, PoolInvariance, PTL DEF Spec
  <1>. QED BY <1>2 DEF Frozen, FrozenAfterDone
=============================================================================

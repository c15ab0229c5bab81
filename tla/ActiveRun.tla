------------------------------ MODULE ActiveRun ------------------------------
(***************************************************************************)
(* internal/benchrunner/runtime.go: one benchmark run.  A pool of worker   *)
(* goroutines repeats pace.Wait, plan.RunOnce and stats.record until its   *)
(* context is done; Alter resizes the pool and changes the pace; the run   *)
(* is finished once, by the first of watchParent, watchDuration and a      *)
(* failing worker; awaitCompletion waits for the pool on a WaitGroup and   *)
(* closes done; the coordinator then collects the sample.                  *)
(*                                                                         *)
(* An action is one critical section (r.mu, stats.mu, gate.mu), or one     *)
(* return of something the code waits for.  Alter with both fields is the  *)
(* two alterations one after the other, which is how activeRun.Alter does  *)
(* it.  The state starts as newActiveRun returns it.                       *)
(***************************************************************************)
EXTENDS Integers, FiniteSets

CONSTANTS
    InitialClients,     \* options.Clients of the start request
    ClientTargets,      \* values of clients in alter requests
    MaxWorkers,         \* bound: workers ever started
    MaxAlters,          \* bound: alterations
    MaxOps              \* bound: operations counted before no more complete

ASSUME PoolAssumption ==
    /\ MaxWorkers \in Nat /\ MaxAlters \in Nat /\ MaxOps \in Nat
    /\ InitialClients \in 1..MaxWorkers
    /\ ClientTargets \subseteq 1..MaxWorkers

VARIABLES
    workers,    \* keys of activeRun.workers
    nextID,     \* activeRun.nextID
    pc,         \* worker |-> where its goroutine is
    outcome,    \* worker |-> error class of the operation under way
    cancelled,  \* workers whose own CancelFunc has been called
    stopCtx,    \* "live", or "done" after stopCancel
    wg,         \* counter of activeRun.wg
    once,       \* progress of finishOnce: "free", "decided", "recorded", "done"
    finalErr,   \* activeRun.finalErr
    stats,      \* the counters of runStats
    window,     \* "warmup" until measurementStartedAt, then "measured"
    gate,       \* realPacingGate.ticker: "nil", or "ticking"
    awaiter,    \* progress of awaitCompletion
    done,       \* the done channel: "open" or "closed"
    parent,     \* the run context of the coordinator: "live" or "done"
    coord,      \* the coordinator: "running", "stopping" or "collected"
    resizing,   \* target of the Alter that is between its two locks, or 0
    alters,     \* number of alterations so far
    late,       \* history: what a worker has counted since its context ended
    process     \* "up", or "panicked"

vars == <<workers, nextID, pc, outcome, cancelled, stopCtx, wg, once, finalErr,
          stats, window, gate, awaiter, done, parent, coord, resizing, alters,
          late, process>>

pool == <<workers, nextID, cancelled, wg, late>>
ending == <<once, finalErr, stopCtx, awaiter, done>>
outside == <<window, parent, coord, resizing, alters, process>>

WorkerIDs == 0..(MaxWorkers - 1)

(***************************************************************************)
(* Places in the goroutine of startWorkerLocked:                           *)
(*   gate       about to call pace.Wait                                    *)
(*   ticking    in pace.Wait, on the gate's ticker                         *)
(*   stranded   in pace.Wait, on a ticker that has been stopped            *)
(*   operating  in plan.RunOnce                                            *)
(*   warm       completed in the warm-up, past the first ctx check         *)
(*   recording  completed after it, past the first ctx check               *)
(*   recorded   the failed operation is recorded, the second check is next *)
(*   failing    in finish                                                  *)
(*   leaving    returned, the deferred workerStopped is next               *)
(*   stopped    the deferred wg.Done is next                               *)
(***************************************************************************)
InLoop == {"gate", "ticking", "stranded", "operating", "warm", "recording",
           "recorded", "failing"}

Places == InLoop \cup {"none", "leaving", "stopped", "gone"}

Errors == {"none", "counted", "workload", "canceled"}

TypeOK ==
    /\ workers \subseteq WorkerIDs
    /\ nextID \in 0..MaxWorkers
    /\ pc \in [WorkerIDs -> Places]
    /\ outcome \in [WorkerIDs -> Errors]
    /\ cancelled \subseteq WorkerIDs
    /\ stopCtx \in {"live", "done"}
    /\ wg \in 0..MaxWorkers
    /\ once \in {"free", "decided", "recorded", "done"}
    /\ finalErr \in Errors
    /\ stats \in [active : Nat, configured : 1..MaxWorkers, total : Nat,
                  failed : Nat, latestError : Errors \ {"counted"}]
    /\ window \in {"warmup", "measured"}
    /\ gate \in {"nil", "ticking"}
    /\ awaiter \in {"start", "blocked", "woken", "released", "closing", "over"}
    /\ done \in {"open", "closed"}
    /\ parent \in {"live", "done"}
    /\ coord \in {"running", "stopping", "collected"}
    /\ resizing \in {0} \cup ClientTargets
    /\ alters \in 0..MaxAlters
    /\ late \in [WorkerIDs -> Nat]
    /\ process \in {"up", "panicked"}

MutantCtxDone(w) == w \in cancelled \/ parent = "done"

\* ctx.Err() # nil for the context of worker w, which derives from stopCtx.
CtxDone(w) == w \in cancelled \/ stopCtx = "done"

\* A panic in any goroutine ends the process.
Up == process = "up"

Alive(w) == pc[w] \in InLoop \cup {"leaving", "stopped"}

-----------------------------------------------------------------------------
Init ==
    LET first == 0..(InitialClients - 1) IN
    /\ workers = first
    /\ nextID = InitialClients
    /\ pc = [w \in WorkerIDs |-> IF w \in first THEN "gate" ELSE "none"]
    /\ outcome = [w \in WorkerIDs |-> "none"]
    /\ cancelled = {}
    /\ stopCtx = "live"
    /\ wg = InitialClients
    /\ once = "free"
    /\ finalErr = "none"
    /\ stats = [active |-> InitialClients, configured |-> InitialClients,
                total |-> 0, failed |-> 0, latestError |-> "none"]
    /\ window \in {"warmup", "measured"}
    /\ gate \in {"nil", "ticking"}
    /\ awaiter = "start"
    /\ done = "open"
    /\ parent = "live"
    /\ coord = "running"
    /\ resizing = 0
    /\ alters = 0
    /\ late = [w \in WorkerIDs |-> 0]
    /\ process = "up"

Move(w, place) == pc' = [pc EXCEPT ![w] = place]

-----------------------------------------------------------------------------
(***************************************************************************)
(* realPacingGate.Wait: the ticker is read under the gate's lock; the      *)
(* select is on the worker's context and on the channel of that ticker,    *)
(* which never delivers again once the ticker has been stopped.            *)
(***************************************************************************)
ReadTicker(w) ==
    /\ Up
    /\ pc[w] = "gate"
    /\ IF gate = "nil"
       THEN /\ Move(w, "operating")
            /\ outcome' = [outcome EXCEPT
                              ![w] = IF CtxDone(w) THEN "canceled" ELSE "none"]
       ELSE Move(w, "ticking") /\ UNCHANGED outcome
    /\ UNCHANGED <<pool, ending, outside, stats, gate>>

\* RunOnce begins; begun with a dead context it can only fail.
Tick(w) ==
    /\ Up
    /\ pc[w] = "ticking"
    /\ Move(w, "operating")
    /\ outcome' = [outcome EXCEPT
                      ![w] = IF CtxDone(w) THEN "canceled" ELSE "none"]
    /\ UNCHANGED <<pool, ending, outside, stats, gate>>

MutantWaitAborts(w) == w \in cancelled

\* The case of the select that ends the wait without a tick.
WaitAborts(w) == CtxDone(w)

WaitCancelled(w) ==
    /\ Up
    /\ pc[w] \in {"ticking", "stranded"}
    /\ WaitAborts(w)
    /\ Move(w, "leaving")
    /\ UNCHANGED <<outcome, pool, ending, outside, stats, gate>>

MutantDropped(w, err) == FALSE

\* The first check after RunOnce: the error of a dying worker is dropped.
Dropped(w, err) == err # "none" /\ CtxDone(w)

\* RunOnce returns and its error, if any, passes the first check or not.
RunOnceReturns(w) ==
    /\ Up
    /\ pc[w] = "operating"
    /\ \E err \in Errors :
          /\ err = "canceled" => CtxDone(w)
          /\ outcome[w] = "canceled" => err = "canceled"
          /\ CtxDone(w) \/ stats.total < MaxOps
          /\ outcome' = [outcome EXCEPT
                            ![w] = IF Dropped(w, err) THEN "none" ELSE err]
          /\ Move(w, IF Dropped(w, err) THEN "leaving"
                     ELSE IF window = "warmup" THEN "warm" ELSE "recording")
    /\ UNCHANGED <<pool, ending, outside, stats, gate>>

MutantErrorText(err) == err

\* The text of a counted error is the text of the error it wraps.
ErrorText(err) == IF err = "counted" THEN "workload" ELSE err

\* runStats.record; of the warm-up only the text of an error is kept.
Record(place, err) ==
    [stats EXCEPT
       !.latestError = IF err = "none" THEN @ ELSE ErrorText(err),
       !.total = IF place = "warm" THEN @ ELSE @ + 1,
       !.failed = IF place = "warm" \/ err = "none" THEN @ ELSE @ + 1]

RecordOperation(w) ==
    /\ Up
    /\ pc[w] \in {"warm", "recording"}
    /\ stats' = Record(pc[w], outcome[w])
    /\ late' = IF CtxDone(w) /\ pc[w] = "recording"
               THEN [late EXCEPT ![w] = @ + 1] ELSE late
    /\ Move(w, IF outcome[w] = "none" THEN "gate" ELSE "recorded")
    /\ UNCHANGED <<outcome, workers, nextID, cancelled, wg, ending, outside,
                   gate>>

\* The second check: a counted failure goes on, any other ends the run.
AfterFailure(w) ==
    /\ Up
    /\ pc[w] = "recorded"
    /\ Move(w, IF CtxDone(w) THEN "leaving"
               ELSE IF outcome[w] = "counted" THEN "gate" ELSE "failing")
    /\ outcome' = [outcome EXCEPT ![w] = "none"]
    /\ UNCHANGED <<pool, ending, outside, stats, gate>>

(***************************************************************************)
(* The deferred calls of the worker goroutine.  wg.Done wakes the goroutine*)
(* that is blocked in wg.Wait when it takes the counter to zero.           *)
(***************************************************************************)
WorkerStopped(w) ==
    /\ Up
    /\ pc[w] = "leaving"
    /\ workers' = workers \ {w}
    /\ stats' = [stats EXCEPT !.active = IF @ > 0 THEN @ - 1 ELSE @]
    /\ Move(w, "stopped")
    /\ late' = [late EXCEPT ![w] = 0]
    /\ UNCHANGED <<nextID, cancelled, wg, outcome, ending, outside, gate>>

WorkerDone(w) ==
    /\ Up
    /\ pc[w] = "stopped"
    /\ wg' = wg - 1
    /\ awaiter' = IF wg = 1 /\ awaiter = "blocked" THEN "woken" ELSE awaiter
    /\ Move(w, "gone")
    /\ UNCHANGED <<workers, nextID, cancelled, late, once, finalErr, stopCtx,
                   done, outcome, outside, stats, gate>>

-----------------------------------------------------------------------------
\* finishOnce.Do runs the function of its first caller only.
MayDecide == once = "free"

(***************************************************************************)
(* activeRun.finish, in the three steps of the function it guards.  Later  *)
(* callers block in Do until it has returned and change nothing.           *)
(***************************************************************************)
Decide(err) ==
    /\ Up
    /\ MayDecide
    /\ once' = "decided"
    /\ finalErr' = err
    /\ UNCHANGED <<pc, outcome, pool, stopCtx, awaiter, done, outside, stats,
                   gate>>

WatchParent == parent = "done" /\ Decide("canceled")

WatchDuration == Decide("none")

WorkerFails(w) == pc[w] = "failing" /\ Decide("workload")

FinishStats ==
    /\ Up
    /\ once = "decided"
    /\ once' = "recorded"
    /\ stats' = [stats EXCEPT
                    !.latestError = IF finalErr = "none" THEN @ ELSE finalErr]
    /\ UNCHANGED <<pc, outcome, pool, finalErr, stopCtx, awaiter, done, outside,
                   gate>>

FinishCancel ==
    /\ Up
    /\ once = "recorded"
    /\ once' = "done"
    /\ stopCtx' = "done"
    /\ UNCHANGED <<pc, outcome, pool, finalErr, awaiter, done, outside, stats,
                   gate>>

FinishReturns(w) ==
    /\ Up
    /\ pc[w] = "failing"
    /\ once = "done"
    /\ Move(w, "leaving")
    /\ UNCHANGED <<outcome, pool, ending, outside, stats, gate>>

-----------------------------------------------------------------------------
(***************************************************************************)
(* awaitCompletion.  WaitGroup.Wait returns at once on a zero counter; a   *)
(* goroutine it blocked looks at the counter again when it has been woken  *)
(* and panics when somebody has added to it in between.                    *)
(***************************************************************************)
AwaitWorkers ==
    /\ Up
    /\ awaiter = "start"
    /\ awaiter' = IF wg = 0 THEN "released" ELSE "blocked"
    /\ UNCHANGED <<pc, outcome, pool, once, finalErr, stopCtx, done, outside,
                   stats, gate>>

AwaitWoken ==
    /\ Up
    /\ awaiter = "woken"
    /\ awaiter' = "released"
    /\ process' = IF wg = 0 THEN "up" ELSE "panicked"
    /\ UNCHANGED <<pc, outcome, pool, once, finalErr, stopCtx, done, window,
                   parent, coord, resizing, alters, stats, gate>>

\* A stopped ticker leaves whoever waits on it without another tick.
Strand == [w \in WorkerIDs |-> IF pc[w] = "ticking" THEN "stranded" ELSE pc[w]]

CloseGate ==
    /\ Up
    /\ awaiter = "released"
    /\ awaiter' = "closing"
    /\ gate' = "nil"
    /\ pc' = Strand
    /\ UNCHANGED <<outcome, pool, once, finalErr, stopCtx, done, outside, stats>>

CloseDone ==
    /\ Up
    /\ awaiter = "closing"
    /\ awaiter' = "over"
    /\ done' = "closed"
    /\ UNCHANGED <<pc, outcome, pool, once, finalErr, stopCtx, outside, stats,
                   gate>>

-----------------------------------------------------------------------------
(***************************************************************************)
(* activeRun.Alter, which the coordinator calls with its own mutex held    *)
(* and only while its status is running: it has not seen the run end yet,  *)
(* but the run may have ended.                                             *)
(***************************************************************************)
MayAlter ==
    /\ Up
    /\ coord = "running"
    /\ resizing = 0
    /\ alters < MaxAlters

\* realPacingGate.Update with a target: the old ticker is stopped, then
\* replaced.
AlterPace ==
    /\ MayAlter
    /\ alters' = alters + 1
    /\ gate' = "ticking"
    /\ pc' = Strand
    /\ UNCHANGED <<outcome, pool, ending, window, parent, coord, resizing,
                   process, stats>>

\* resizeWorkers up to r.mu.Lock.
AlterClients(target) ==
    /\ MayAlter
    /\ nextID + target <= MaxWorkers
    /\ alters' = alters + 1
    /\ resizing' = target
    /\ stats' = [stats EXCEPT !.configured = target]
    /\ UNCHANGED <<pc, outcome, pool, ending, window, parent, coord,
                   process, gate>>

MutantKept(target) ==
    {w \in workers : Cardinality({v \in workers : v < w}) < target - 1}

\* The workers a smaller pool keeps: the ones with the lowest numbers.
Kept(target) == {w \in workers : Cardinality({v \in workers : v < w}) < target}

(***************************************************************************)
(* resizeWorkers under r.mu: workers are started with fresh numbers, or    *)
(* the ones with the highest numbers are taken out of the map and          *)
(* cancelled.                                                              *)
(***************************************************************************)
MutantCancelRemoved == cancelled

\* Every worker taken out of the map has its CancelFunc called.
CancelRemoved == cancelled \cup (workers \ Kept(resizing))

ResizePool ==
    LET missing == resizing - Cardinality(workers)
        fresh == {w \in WorkerIDs : w >= nextID /\ w < nextID + missing}
    IN
    /\ Up
    /\ resizing # 0
    /\ resizing' = 0
    /\ IF missing >= 0
       THEN /\ workers' = workers \cup fresh
            /\ nextID' = nextID + missing
            /\ wg' = wg + missing
            /\ stats' = [stats EXCEPT !.active = @ + missing]
            /\ pc' = [w \in WorkerIDs |->
                         IF w \in fresh THEN "gate" ELSE pc[w]]
            /\ UNCHANGED cancelled
       ELSE /\ workers' = Kept(resizing)
            /\ cancelled' = CancelRemoved
            /\ UNCHANGED <<nextID, wg, stats, pc>>
    /\ UNCHANGED <<outcome, late, ending, window, parent, coord, alters,
                   process, gate>>

-----------------------------------------------------------------------------
\* Coordinator.Stop: status and context together, under the same mutex.
Stop ==
    /\ Up
    /\ coord = "running"
    /\ resizing = 0
    /\ coord' = "stopping"
    /\ parent' = "done"
    /\ UNCHANGED <<pc, outcome, pool, ending, window, resizing, alters,
                   process, stats, gate>>

\* Coordinator.waitForRun, once run.Wait has returned.
Collect ==
    /\ Up
    /\ coord \in {"running", "stopping"}
    /\ resizing = 0
    /\ done = "closed"
    /\ coord' = "collected"
    /\ UNCHANGED <<pc, outcome, pool, ending, window, parent, resizing, alters,
                   process, stats, gate>>

\* The clock passes measurementStartedAt.
WarmupEnds ==
    /\ Up
    /\ window = "warmup"
    /\ window' = "measured"
    /\ UNCHANGED <<pc, outcome, pool, ending, parent, coord, resizing, alters,
                   process, stats, gate>>

WorkerStep(w) ==
    \/ ReadTicker(w)
    \/ Tick(w)
    \/ WaitCancelled(w)
    \/ RunOnceReturns(w)
    \/ RecordOperation(w)
    \/ AfterFailure(w)
    \/ WorkerFails(w)
    \/ FinishReturns(w)
    \/ WorkerStopped(w)
    \/ WorkerDone(w)

AwaiterStep == AwaitWorkers \/ AwaitWoken \/ CloseGate \/ CloseDone

FinishStep == FinishStats \/ FinishCancel

Next ==
    \/ \E w \in WorkerIDs : WorkerStep(w)
    \/ AwaiterStep
    \/ FinishStep
    \/ WatchParent
    \/ WatchDuration
    \/ AlterPace
    \/ \E target \in ClientTargets : AlterClients(target)
    \/ ResizePool
    \/ Stop
    \/ Collect
    \/ WarmupEnds

Spec == Init /\ [][Next]_vars

(***************************************************************************)
(* Goroutines are scheduled, a live ticker ticks, and an operation whose   *)
(* context is done returns.  An operation with a live context may take any *)
(* time and so may the duration: neither is assumed to come to an end.     *)
(***************************************************************************)
PromptStep(w) ==
    \/ ReadTicker(w)
    \/ Tick(w)
    \/ WaitCancelled(w)
    \/ CtxDone(w) /\ RunOnceReturns(w)
    \/ RecordOperation(w)
    \/ AfterFailure(w)
    \/ WorkerFails(w)
    \/ FinishReturns(w)
    \/ WorkerStopped(w)
    \/ WorkerDone(w)

Fairness ==
    /\ \A w \in WorkerIDs : WF_vars(PromptStep(w))
    /\ WF_vars(AwaiterStep)
    /\ WF_vars(FinishStep)
    /\ WF_vars(WatchParent)
    /\ WF_vars(ResizePool)

FairSpec == Spec /\ Fairness

-----------------------------------------------------------------------------
(***************************************************************************)
(* The three places that count workers agree on which ones there are: the  *)
(* WaitGroup counts those whose goroutine has not called Done, the active  *)
(* clients of the statistics those that have not left, and a worker that   *)
(* is still about but not in the map has been cancelled, so that no resize *)
(* loses a goroutine (runtime.go:140-183, 219-224).                        *)
(***************************************************************************)
PoolAccounting ==
    /\ wg = Cardinality({w \in WorkerIDs : Alive(w)})
    /\ stats.active = Cardinality({w \in WorkerIDs : pc[w] \in InLoop \cup {"leaving"}})
    /\ \A w \in WorkerIDs : pc[w] \in InLoop =>
          w \in workers \/ w \in cancelled

(***************************************************************************)
(* Until the run is finished the pool has the size that was last asked     *)
(* for: no worker leaves the map for any other reason than a resize        *)
(* (runtime.go:141-166).                                                   *)
(***************************************************************************)
PoolHasConfiguredSize ==
    once = "free" /\ resizing = 0 => Cardinality(workers) = stats.configured

(***************************************************************************)
(* Wait returns a decided verdict: when done is closed, finish has run to  *)
(* its end, so finalErr and the end of the statistics are set.  It rests   *)
(* on every pool keeping one worker that only finish can end               *)
(* (runtime.go:94-100, 124-138).                                           *)
(***************************************************************************)
DoneMeansFinished == done = "closed" => once = "done"

(***************************************************************************)
(* The verdict of the run and the latest error of its statistics, which    *)
(* workers and finish write under different locks, tell the same story: a  *)
(* run that failed shows the failure from the moment it is decided, since  *)
(* the worker recorded it before it called finish; and "context canceled"  *)
(* shows only when it is the verdict, since a worker that a shrink or the  *)
(* end of the run has cancelled drops the error of the operation it broke  *)
(* off (runtime.go:130-138, 201-215).                                      *)
(***************************************************************************)
VerdictShowsInStatistics ==
    /\ finalErr = "workload" => stats.latestError = "workload"
    /\ stats.latestError = "canceled" => finalErr = "canceled"

(***************************************************************************)
(* After done is closed no operation is recorded any more, not even by     *)
(* workers that a late Alter has started (runtime.go:201-204).             *)
(***************************************************************************)
FrozenAfterDone ==
    [][done = "closed" =>
          /\ stats'.total = stats.total
          /\ stats'.failed = stats.failed
          /\ stats'.latestError = stats.latestError]_vars

(***************************************************************************)
(* A worker whose context has ended, by a shrink of the pool or by         *)
(* stopCancel, counts at most one more operation: the one it had under way.*)
(* None that it begins later counts, however often it gets around its loop *)
(* (runtime.go:198-215, stats.go:64-85).  It is no bound from the moment   *)
(* stats.finish freezes the elapsed time: between that and stopCancel      *)
(* (runtime.go:135-136) a worker's context is live and it may count any    *)
(* number.                                                                 *)
(***************************************************************************)
LateOperationsBounded == \A w \in WorkerIDs : late[w] <= 1

(***************************************************************************)
(* A worker whose context is done goes away, wherever it was waiting: on a *)
(* ticker, even a stopped one, or in an operation (runtime.go:189-215,     *)
(* 247-252).                                                               *)
(***************************************************************************)
CancelledWorkersLeave ==
    \A w \in WorkerIDs :
       Alive(w) /\ CtxDone(w) ~> pc[w] = "gone" \/ process = "panicked"

(***************************************************************************)
(* A run that is finished or whose parent context is cancelled completes:  *)
(* done is closed and the coordinator gets to know (runtime.go:106-138).   *)
(***************************************************************************)
RunCompletes ==
    once # "free" \/ parent = "done" ~>
       done = "closed" \/ process = "panicked"

-----------------------------------------------------------------------------
(***************************************************************************)
(* What the plan of the workloads promises: altered TPS settings take      *)
(* effect while running.  A worker that waits for a tick when the target   *)
(* is altered never gets one: Update stops its ticker without waking it.   *)
(***************************************************************************)
PacedWorkersProceed ==
    \A w \in WorkerIDs :
       pc[w] \in {"ticking", "stranded"} ~>
          pc[w] \notin {"ticking", "stranded"} \/ process = "panicked"

(***************************************************************************)
(* What the coordinator's task asks for: alteration while running is safe. *)
(* An Alter that starts a worker between the last wg.Done and the return   *)
(* of wg.Wait makes the WaitGroup panic.                                   *)
(***************************************************************************)
AlterIsSafe == process = "up"
=============================================================================

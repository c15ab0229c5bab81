----------------------------- MODULE Coordinator -----------------------------
(***************************************************************************)
(* internal/benchmarkrun: the Coordinator that HTTP handlers share.  Every *)
(* handler runs in a goroutine of its own; Start releases the mutex while  *)
(* the runner prepares the schema, and each run that comes up is followed  *)
(* by one waitForRun goroutine.  One action is one critical section of     *)
(* Coordinator.mu, or one step of the runner and the run behind the        *)
(* interfaces Runner and Run (coordinator.go:33-41).                       *)
(*                                                                         *)
(* The run context, the runner's progress and the run's sample are kept    *)
(* per run number in runs, because a handler may still hold a run that the *)
(* coordinator has moved on from.  A Start or an Alter that is refused and *)
(* the pure readers change nothing and are not actions of their own: the   *)
(* refusals are guards, State, Results and Metrics are operators.          *)
(***************************************************************************)
EXTENDS BenchmarkOptions

CONSTANTS
    Callers,        \* goroutines that may be inside Start at the same time
    StartRequests,  \* decoded start options the callers may ask for
    AlterRequests,  \* decoded alter options the callers may ask for
    MaxRuns,        \* bound: runs ever accepted
    MaxOps          \* bound: operations a run counts

ASSUME BoundsAssumption == MaxRuns \in Nat \ {0} /\ MaxOps \in Nat

ASSUME RequestsAssumption ==
    /\ StartRequests \subseteq StartOptions
    /\ \A o \in StartRequests : validateStartOptions(o)
    /\ AlterRequests \subseteq AlterOptions
    /\ \A a \in AlterRequests : validateAlterOptions(a)

VARIABLES
    state,      \* Coordinator.state; timestamps name the run they belong to
    sample,     \* Coordinator.sample, the retained sample
    run,        \* Coordinator.run: run number, or NoRun for nil
    cancel,     \* Coordinator.cancel: run whose context it ends, or NoRun
    runID,      \* Coordinator.runID
    calls,      \* caller |-> where it is inside Start
    waiters,    \* run numbers a waitForRun goroutine is following
    runs        \* run number |-> what the runner and the run have done

vars == <<state, sample, run, cancel, runID, calls, waiters, runs>>

NoRun == 0

RunIDs == 1..MaxRuns

Statuses == {"idle", "starting", "running", "stopping", "stopped", "failed"}

\* "" is no error; the others are what the callers can tell apart.
Errors == {"", "canceled", "setup", "workload"}

Samples == [total : Nat, failed : Nat, latestError : Errors]

zeroSample == [total |-> 0, failed |-> 0, latestError |-> ""]

Calls == [pc : {"out", "setup", "up", "down"}, id : RunIDs \cup {NoRun},
          options : StartOptions \cup {Nil}, err : Errors]

NoCall == [pc |-> "out", id |-> NoRun, options |-> Nil, err |-> ""]

Runs == [phase : {"none", "setup", "active", "ended"}, ctx : {"live", "done"},
         err : Errors, sample : Samples, config : StartOptions \cup {Nil}]

NoRunYet == [phase |-> "none", ctx |-> "live", err |-> "",
             sample |-> zeroSample, config |-> Nil]

\* Types; and no sample counts more failures than operations.
TypeOK ==
    /\ state \in [status : Statuses, options : StartOptions \cup {Nil},
                  startedAt : RunIDs \cup {Nil}, stoppedAt : RunIDs \cup {Nil},
                  error : Errors]
    /\ sample \in Samples
    /\ run \in RunIDs \cup {NoRun}
    /\ cancel \in RunIDs \cup {NoRun}
    /\ runID \in RunIDs \cup {NoRun}
    /\ calls \in [Callers -> Calls]
    /\ waiters \subseteq RunIDs
    /\ runs \in [RunIDs -> Runs]
    /\ sample.failed <= sample.total
    /\ \A id \in RunIDs : runs[id].sample.failed <= runs[id].sample.total

-----------------------------------------------------------------------------
Init ==
    /\ state = [status |-> "idle", options |-> Nil, startedAt |-> Nil,
                stoppedAt |-> Nil, error |-> ""]
    /\ sample = zeroSample
    /\ run = NoRun
    /\ cancel = NoRun
    /\ runID = 0
    /\ calls = [c \in Callers |-> NoCall]
    /\ waiters = {}
    /\ runs = [id \in RunIDs |-> NoRunYet]

MutantActiveStatuses == {"starting", "running"}

ActiveStatuses == {"starting", "running", "stopping"}

MutantResetSample == UNCHANGED sample

ResetSample == sample' = zeroSample

(***************************************************************************)
(* Start, up to the unlock before runner.Start: the run is accepted under  *)
(* a fresh number and a fresh context that no caller's request owns.       *)
(***************************************************************************)
StartAccept(c, options) ==
    /\ calls[c].pc = "out"
    /\ state.status \notin ActiveStatuses
    /\ runID < MaxRuns
    /\ runID' = runID + 1
    /\ cancel' = runID + 1
    /\ run' = NoRun
    /\ state' = [status |-> "starting", options |-> options, startedAt |-> Nil,
                 stoppedAt |-> Nil, error |-> ""]
    /\ ResetSample
    /\ calls' = [calls EXCEPT ![c] = [pc |-> "setup", id |-> runID + 1,
                                      options |-> options, err |-> ""]]
    /\ runs' = [runs EXCEPT ![runID + 1].phase = "setup"]
    /\ UNCHANGED waiters

(***************************************************************************)
(* runner.Start returns.  A cancelled context makes setup fail with        *)
(* context.Canceled or with whatever the driver made of it; it may also be *)
(* cancelled too late, after the last setup statement.                     *)
(***************************************************************************)
RunnerStartSucceeds(c) ==
    /\ calls[c].pc = "setup"
    /\ RunnerAccepts(calls[c].options)
    /\ calls' = [calls EXCEPT ![c].pc = "up"]
    /\ runs' = [runs EXCEPT ![calls[c].id] =
                   [@ EXCEPT !.phase = "active", !.config = calls[c].options]]
    /\ UNCHANGED <<state, sample, run, cancel, runID, waiters>>

RunnerStartFails(c, err) ==
    /\ calls[c].pc = "setup"
    /\ err = "canceled" => runs[calls[c].id].ctx = "done"
    /\ calls' = [calls EXCEPT ![c] = [@ EXCEPT !.pc = "down", !.err = err]]
    /\ runs' = [runs EXCEPT ![calls[c].id] =
                   [@ EXCEPT !.phase = "ended", !.err = err]]
    /\ UNCHANGED <<state, sample, run, cancel, runID, waiters>>

MutantSpawnWaiter(id) ==
    waiters' = IF state.status = "starting" THEN waiters \cup {id} ELSE waiters

SpawnWaiter(id) == waiters' = waiters \cup {id}

(***************************************************************************)
(* Start after runner.Start returned a run: it is installed even when a    *)
(* Stop came in meanwhile, so that waitForRun can see it end.              *)
(***************************************************************************)
StartInstall(c) ==
    LET id == calls[c].id IN
    /\ calls[c].pc = "up"
    /\ IF runID # id
       THEN UNCHANGED <<run, state, waiters>>
       ELSE /\ run' = id
            /\ state' = [state EXCEPT
                  !.startedAt = IF @ = Nil THEN id ELSE @,
                  !.status = IF @ = "starting" THEN "running" ELSE @,
                  !.error = IF state.status = "starting" THEN "" ELSE @]
            /\ SpawnWaiter(id)
    /\ calls' = [calls EXCEPT ![c] = NoCall]
    /\ UNCHANGED <<sample, cancel, runID, runs>>

(***************************************************************************)
(* finishStartFailure.  Only a cancellation that was asked for is a stop.  *)
(***************************************************************************)
FinishStartFailure(c) ==
    LET id == calls[c].id
        err == calls[c].err
    IN
    /\ calls[c].pc = "down"
    /\ IF runID # id
       THEN UNCHANGED <<run, cancel, state, sample>>
       ELSE /\ run' = NoRun
            /\ cancel' = NoRun
            /\ state' =
                 IF state.status = "stopping" /\ err = "canceled"
                 THEN [state EXCEPT !.status = "stopped", !.error = "",
                                    !.options = calls[c].options,
                                    !.stoppedAt = id]
                 ELSE [status |-> "failed", options |-> calls[c].options,
                       startedAt |-> Nil, stoppedAt |-> id, error |-> err]
            /\ ResetSample
    /\ calls' = [calls EXCEPT ![c] = NoCall]
    /\ UNCHANGED <<runID, waiters, runs>>

MutantRunAltered(config, a) ==
    IF a.clients # Nil THEN [config EXCEPT !.clients = a.clients]
                       ELSE [config EXCEPT !.targetTPS = a.targetTPS]

\* activeRun.Alter: the gate and the pool follow the fields that are present.
RunAltered(config, a) ==
    [config EXCEPT !.targetTPS = Default(a.targetTPS, @),
                   !.clients = Default(a.clients, @)]

(***************************************************************************)
(* Alter holds the mutex over both ApplyAlter and run.Alter, and stores    *)
(* the altered options only when the run has taken them.                   *)
(***************************************************************************)
Alter(a) ==
    /\ state.status = "running"
    /\ run # NoRun
    /\ ApplyAlterAccepts(state.options, a)
    /\ RunAlterAccepts(a)
    /\ runs' = [runs EXCEPT ![run].config = RunAltered(@, a)]
    /\ state' = [state EXCEPT !.options = Altered(@, a)]
    /\ UNCHANGED <<sample, run, cancel, runID, calls, waiters>>

MutantCancelled(id) ==
    IF run = NoRun THEN runs ELSE [runs EXCEPT ![id].ctx = "done"]

\* The CancelFunc of run id: its context is done from now on.
Cancelled(id) == [runs EXCEPT ![id].ctx = "done"]

\* Stop, on an active run and on one that is not (or is stopping already).
Stop ==
    \/ /\ state.status \in {"starting", "running"}
       /\ state' = [state EXCEPT !.status = "stopping"]
       /\ runs' = IF cancel # NoRun THEN Cancelled(cancel) ELSE runs
       /\ UNCHANGED <<sample, run, cancel, runID, calls, waiters>>
    \/ /\ state.status \notin {"starting", "running"}
       /\ UNCHANGED vars

-----------------------------------------------------------------------------
MutantRetained(id) == sample

\* The sample waitForRun keeps of a run it is about to forget.
Retained(id) == runs[id].sample

MutantFinalError(status, err) == IF status # "stopping" THEN "" ELSE err

\* waitForRun's switch: what becomes of a run that ended with err.
FinalStatus(status, err) ==
    IF status = "stopping" \/ err = "" THEN "stopped" ELSE "failed"

FinalError(status, err) ==
    IF status = "stopping" \/ err = "" THEN "" ELSE err

MutantWaitReturns(id) == runs[id].phase \in {"active", "ended"}

\* run.Wait returns once the run's done channel is closed.
WaitReturns(id) == runs[id].phase = "ended"

WaitForRun(id) ==
    /\ id \in waiters
    /\ WaitReturns(id)
    /\ waiters' = waiters \ {id}
    /\ IF runID # id
       THEN UNCHANGED <<state, sample, run, cancel>>
       ELSE /\ sample' = Retained(id)
            /\ run' = NoRun
            /\ cancel' = NoRun
            /\ state' = [state EXCEPT
                  !.stoppedAt = id,
                  !.status = FinalStatus(@, runs[id].err),
                  !.error = FinalError(state.status, runs[id].err)]
    /\ UNCHANGED <<runID, calls, runs>>

-----------------------------------------------------------------------------
(***************************************************************************)
(* The run behind the interface Run, by what its sample and its Wait show: *)
(* operations are recorded (in the warm-up only an error's text is), and   *)
(* the run ends because its duration is over, because its context is       *)
(* cancelled, or because an operation failed for good.  A counted failure  *)
(* that was under way when the context was cancelled may still be recorded *)
(* after the cancellation, so either text may be the last.                 *)
(***************************************************************************)
MutantRecord(s, outcome, window) ==
    [total |-> IF window = "warmup" THEN s.total ELSE s.total + 1,
     failed |-> IF outcome = "failed" THEN s.failed + 1 ELSE s.failed,
     latestError |-> IF outcome = "failed" THEN "workload" ELSE s.latestError]

Record(s, outcome, window) ==
    [total |-> IF window = "warmup" THEN s.total ELSE s.total + 1,
     failed |-> IF outcome = "failed" /\ window = "measured"
                THEN s.failed + 1 ELSE s.failed,
     latestError |-> IF outcome = "failed" THEN "workload" ELSE s.latestError]

RunOperates(id) ==
    /\ runs[id].phase = "active"
    /\ runs[id].sample.total < MaxOps
    /\ \E outcome \in {"ok", "failed"}, window \in {"warmup", "measured"} :
          runs' = [runs EXCEPT ![id].sample = Record(@, outcome, window)]
    /\ UNCHANGED <<state, sample, run, cancel, runID, calls, waiters>>

\* activeRun.finish, then the last worker gone and the done channel closed.
EndedRun(r, err, text) ==
    [r EXCEPT !.phase = "ended", !.err = err, !.sample.latestError = text]

RunEnds(id, err) ==
    /\ runs[id].phase = "active"
    /\ err = "canceled" => runs[id].ctx = "done"
    /\ \E text \in (IF err = "canceled" THEN {"canceled", "workload"}
                    ELSE IF err = "" THEN {runs[id].sample.latestError}
                    ELSE {err}) :
          runs' = [runs EXCEPT ![id] = EndedRun(@, err, text)]
    /\ UNCHANGED <<state, sample, run, cancel, runID, calls, waiters>>

-----------------------------------------------------------------------------
Next ==
    \/ \E c \in Callers :
          \/ \E o \in StartRequests : StartAccept(c, o)
          \/ RunnerStartSucceeds(c)
          \/ \E err \in {"canceled", "setup"} : RunnerStartFails(c, err)
          \/ StartInstall(c)
          \/ FinishStartFailure(c)
    \/ \E a \in AlterRequests : Alter(a)
    \/ Stop
    \/ \E id \in RunIDs :
          \/ WaitForRun(id)
          \/ RunOperates(id)
          \/ \E err \in {"", "canceled", "workload"} : RunEnds(id, err)

Spec == Init /\ [][Next]_vars

\* runner.Start of a run whose context has been cancelled.
CancelledStartReturns(c) ==
    /\ calls[c].id # NoRun
    /\ runs[calls[c].id].ctx = "done"
    /\ RunnerStartSucceeds(c) \/ RunnerStartFails(c, "canceled")

(***************************************************************************)
(* Goroutines are scheduled: a caller that is past runner.Start and a      *)
(* waiter whose run has ended get their turn at the mutex.  A run ends     *)
(* because watchDuration calls finish after a finite time.  A runner is    *)
(* only relied on to return once its context is cancelled: the database    *)
(* may take any time over the setup statements.                            *)
(***************************************************************************)
Fairness ==
    /\ \A c \in Callers :
          /\ WF_vars(CancelledStartReturns(c))
          /\ WF_vars(StartInstall(c))
          /\ WF_vars(FinishStartFailure(c))
    /\ \A id \in RunIDs :
          /\ WF_vars(WaitForRun(id))
          /\ WF_vars(\E err \in {"", "canceled", "workload"} : RunEnds(id, err))

FairSpec == Spec /\ Fairness

-----------------------------------------------------------------------------
\* The sample Results and Metrics look at: the live one while there is a run.
VisibleSample == IF run # NoRun THEN runs[run].sample ELSE sample

MutantNormalizeResultsSample(st, s) ==
    IF st.status = "stopping" /\ s.latestError = "canceled"
    THEN [s EXCEPT !.latestError = ""] ELSE s

normalizeResultsSample(st, s) ==
    IF st.status = "stopped" /\ st.error = "" /\ s.latestError = "canceled"
    THEN [s EXCEPT !.latestError = ""] ELSE s

\* GET /benchmark/results: the part of Results that is not copied from state.
ResultsStats == normalizeResultsSample(state, VisibleSample)

\* Runs whose setup statements or workers may be using the database.
Busy == {id \in RunIDs : runs[id].phase \in {"setup", "active"}}

-----------------------------------------------------------------------------
(***************************************************************************)
(* Who owns the current run.  From StartAccept to StartInstall it is the   *)
(* one caller inside Start; after that the one waitForRun goroutine; when  *)
(* no run is under way it is nobody, and every run has ended.              *)
(***************************************************************************)
InStart(c) == calls[c].pc # "out"

\* The phases of its run that a caller inside Start may find.
PhasesAt(pc) == CASE pc = "setup" -> {"setup"}
                  [] pc = "up"    -> {"active", "ended"}
                  [] pc = "down"  -> {"ended"}
                  [] OTHER        -> {}

OwnedByCaller(c) ==
    /\ calls[c].id = runID
    /\ runID # NoRun
    /\ state.status \in {"starting", "stopping"}
    /\ run = NoRun
    /\ waiters = {}
    /\ runs[runID].phase \in PhasesAt(calls[c].pc)
    /\ state.options = calls[c].options
    /\ state.options \in StartOptions
    /\ validateStartOptions(state.options)
    /\ runs[runID].config = IF calls[c].pc = "up" THEN calls[c].options ELSE Nil
    /\ \A d \in Callers : InStart(d) => d = c

CallerOwns == \A c \in Callers : InStart(c) => OwnedByCaller(c)

WaiterOwns ==
    \A id \in waiters :
       /\ id = runID
       /\ run = runID
       /\ state.status \in {"running", "stopping"}
       /\ runs[runID].phase \in {"active", "ended"}
       /\ state.options = runs[runID].config
       /\ state.options \in StartOptions

ActiveIsOwned ==
    state.status \in ActiveStatuses =>
       /\ runID # NoRun
       /\ cancel = runID
       /\ (\E c \in Callers : InStart(c)) \/ runID \in waiters
       /\ runs[runID].ctx = IF state.status = "stopping" THEN "done" ELSE "live"

RestIsQuiet ==
    state.status \notin ActiveStatuses =>
       /\ run = NoRun
       /\ runID # NoRun => runs[runID].phase = "ended"

HistoryIsOver ==
    \A id \in RunIDs :
       /\ id > runID => runs[id] = NoRunYet
       /\ id < runID => runs[id].phase = "ended"

(***************************************************************************)
(* At every moment exactly one goroutine is responsible for the run that   *)
(* the status says is under way, its context is cancelled exactly when the *)
(* status says so, and all earlier runs are over.  The mutex is dropped    *)
(* between the sections that hand the run over (coordinator.go:105, 133,   *)
(* 256), so this is what makes the runID checks of the later sections      *)
(* succeed.                                                                *)
(***************************************************************************)
Ownership ==
    /\ CallerOwns
    /\ WaiterOwns
    /\ ActiveIsOwned
    /\ RestIsQuiet
    /\ HistoryIsOver

(***************************************************************************)
(* At most one run uses the database, and it is the one the coordinator    *)
(* reports on: Start drops the mutex while the runner works and Stop       *)
(* returns before the run has stopped, yet no second runner or worker pool *)
(* is ever started beside the first (coordinator.go:89-94).                *)
(***************************************************************************)
RunsNeverOverlap == Busy \subseteq {runID}

(***************************************************************************)
(* What results and metrics show belongs to the run whose options they are *)
(* shown with: nothing before that run has come up, its own sample from    *)
(* then on, also after the coordinator has let go of the run.  No sample   *)
(* of an earlier run is left over (coordinator.go:104, 116-118, 227-229,   *)
(* 261-265).                                                               *)
(***************************************************************************)
ResultsBelongToRun ==
    runID # 0 =>
       VisibleSample = IF state.startedAt = Nil THEN zeroSample
                                                ELSE runs[runID].sample

(***************************************************************************)
(* A stop that was acknowledged has reached the run: while the status is   *)
(* stopping, the context that the runner or the workers hold is cancelled, *)
(* also when the run had not come up yet when Stop was called              *)
(* (coordinator.go:168-172).                                               *)
(***************************************************************************)
StopReachesRun == state.status = "stopping" => runs[runID].ctx = "done"

(***************************************************************************)
(* The options the API reports are the ones the run works with, after any  *)
(* sequence of alterations, and they are valid ones                        *)
(* (coordinator.go:146-154).                                               *)
(***************************************************************************)
OptionsInSync ==
    runID # 0 /\ runs[runID].config # Nil =>
       /\ state.options = runs[runID].config
       /\ validateStartOptions(state.options)

(***************************************************************************)
(* A failed run says why: its state has the error it ended with and, if it *)
(* had come up, the latest_error of its statistics is not empty.  An error *)
(* other than a cancellation is given up for nothing but a stop that was   *)
(* asked for before waitForRun got the mutex; and the cancellation that    *)
(* every stop leaves is not shown as an error of a stopped run             *)
(* (coordinator.go:234-249, 271-284, results.go:67-73).                    *)
(***************************************************************************)
ErrorsSurface ==
    /\ state.status = "failed" =>
          /\ state.error # "" /\ state.error = runs[runID].err
          /\ state.startedAt # Nil => ResultsStats.latestError # ""
    /\ state.status = "stopped" =>
          /\ runs[runID].err \notin {"", "canceled"} => runs[runID].ctx = "done"
          /\ ResultsStats.latestError # "canceled"

(***************************************************************************)
(* The counters a client polls never go back within a run, in particular   *)
(* not when waitForRun swaps the live sample for the retained one          *)
(* (coordinator.go:190-193, 265-266).                                      *)
(***************************************************************************)
ResultsMonotone ==
    [][runID' = runID =>
          /\ ResultsStats'.total >= ResultsStats.total
          /\ ResultsStats'.failed >= ResultsStats.failed]_vars

(***************************************************************************)
(* A run that came up, and one that was asked to stop in whatever phase,   *)
(* is concluded: nobody waits for ever for the coordinator to accept the   *)
(* next start (coordinator.go:133, 224-285).                               *)
(***************************************************************************)
Concludes ==
    state.status \in {"running", "stopping"} ~>
       state.status \in {"stopped", "failed"}

(***************************************************************************)
(* The coordinator implements the life cycle the API promises: a run holds *)
(* the database from Start until it has quiesced, it is concluded only     *)
(* then, and only then may the next one begin.                             *)
(***************************************************************************)
Lifecycle == INSTANCE RunLifecycle
                WITH phase <- state.status, current <- runID, busy <- Busy

ImplementsLifecycle == Lifecycle!Spec

-----------------------------------------------------------------------------
(***************************************************************************)
(* What the bug report on stopped runs asks for: latest_error is empty     *)
(* after a normal stop unless a real workload error happened before it.    *)
(* A failure that was counted while the run was running is not there any   *)
(* more once it is stopped: activeRun.finish stores context.Canceled over  *)
(* the workload error and normalizeResultsSample then blanks it.           *)
(***************************************************************************)
StopKeepsWorkloadError ==
    state.status = "running" /\ ResultsStats.failed > 0 ~>
       /\ state.status \in {"stopped", "failed"}
       /\ ResultsStats.latestError # ""
=============================================================================

---------------------- MODULE CoordinatorResultsProofs ----------------------
(***************************************************************************)
(* Proofs about what the Coordinator reports, for any number of callers,   *)
(* any requests and any bounds: the options are those the run works with,  *)
(* the results belong to the run they are shown with and never go back,    *)
(* and errors are shown exactly where they should be.                      *)
(*                                                                         *)
(* Each of the reported properties talks about the moments between runs    *)
(* and after a run; what carries them from one moment to the next is what  *)
(* the two definitions below add to Ownership.                             *)
(***************************************************************************)
EXTENDS CoordinatorProofs

(***************************************************************************)
(* started_at is set exactly when the run is handed to its waitForRun, so  *)
(* a run without one has shown nothing yet.                                *)
(***************************************************************************)
TimesFollowRun ==
    /\ \A c \in Callers : InStart(c) => state.startedAt = Nil
    /\ waiters # {} => state.startedAt # Nil
    /\ runID = NoRun => sample = zeroSample

(***************************************************************************)
(* A start that failed has an error, a run that has not ended has none,    *)
(* one that came up and ended with an error has it in its statistics too,  *)
(* and a run that counts as stopped has none in its state.                 *)
(***************************************************************************)
ErrorsFollowRun ==
    /\ \A c \in Callers : calls[c].pc = "down" =>
          calls[c].err # "" /\ calls[c].err = runs[runID].err
    /\ \A id \in RunIDs : runs[id].phase # "ended" => runs[id].err = ""
    /\ (\E c \in Callers : calls[c].pc = "up") \/ waiters # {} =>
          runs[runID].err = "" \/ runs[runID].sample.latestError # ""
    /\ state.status = "stopped" => state.error = ""

Reported ==
    /\ TimesFollowRun
    /\ ErrorsFollowRun
    /\ OptionsInSync
    /\ ResultsBelongToRun
    /\ ErrorsSurface

LEMMA InitReported == Init => Reported
  <1>. SUFFICES ASSUME Init PROVE Reported
    OBVIOUS
  <1>1. \A c \in Callers : calls[c].pc = "out"
    BY DEF Init, NoCall
  <1>2. \A id \in RunIDs : runs[id].err = ""
    BY DEF Init, NoRunYet
  <1>3. TimesFollowRun
    BY <1>1 DEF TimesFollowRun, InStart, Init
  <1>4. ErrorsFollowRun
    BY <1>1, <1>2 DEF ErrorsFollowRun, Init
  <1>5. OptionsInSync /\ ResultsBelongToRun
    BY DEF OptionsInSync, ResultsBelongToRun, Init
  <1>6. ErrorsSurface
    BY DEF ErrorsSurface, Init
  <1>. QED BY <1>3, <1>4, <1>5, <1>6 DEF Reported

(***************************************************************************)
(* The parts of a sample that results show are those of the visible one:   *)
(* normalizeResultsSample never touches a counter, nor any text of a run   *)
(* that failed.                                                            *)
(***************************************************************************)
LEMMA Normalized ==
    ASSUME NEW st, NEW s \in Samples
    PROVE  /\ normalizeResultsSample(st, s).total = s.total
           /\ normalizeResultsSample(st, s).failed = s.failed
           /\ st.status # "stopped" => normalizeResultsSample(st, s) = s
           /\ st.status = "stopped" /\ st.error = ""
                 => normalizeResultsSample(st, s).latestError # "canceled"
  BY DEF normalizeResultsSample, Samples

LEMMA VisibleType == TypeOK => VisibleSample \in Samples
  <1>. SUFFICES ASSUME TypeOK PROVE VisibleSample \in Samples
    OBVIOUS
  <1>1. sample \in Samples /\ \A id \in RunIDs : runs[id] \in Runs
    BY DEF TypeOK
  <1>2. \A id \in RunIDs : runs[id].sample \in Samples
    BY <1>1 DEF Runs
  <1>3. run # NoRun => run \in RunIDs
    BY DEF TypeOK
  <1>. QED BY <1>1, <1>2, <1>3 DEF VisibleSample

\* A run number is no nil timestamp.
LEMMA RunsAreNotNil == \A id \in RunIDs : id # Nil /\ id # NoRun
  BY NilAssumption, BoundsAssumption DEF RunIDs, NoRun

LEMMA StartAcceptReported ==
    ASSUME TypeOK, Ownership, Reported, NEW c \in Callers,
           NEW o \in StartRequests, StartAccept(c, o), TypeOK', Ownership'
    PROVE  Reported'
  <1>. USE DEF NoRun
  <1>. DEFINE n == runID + 1
  <1>1. /\ runID' = n /\ run' = NoRun /\ sample' = zeroSample
        /\ state'.status = "starting" /\ state'.startedAt = Nil
        /\ runs' = [runs EXCEPT ![n].phase = "setup"]
        /\ runID < MaxRuns
    BY DEF StartAccept, ResetSample
  <1>2. n \in RunIDs /\ n > runID /\ n # NoRun
    BY <1>1, RunNumbers DEF RunIDs
  <1>3. waiters' = {}
    BY NobodyAtRest DEF StartAccept
  <1>4. /\ calls'[c].pc = "setup"
        /\ \A d \in Callers : d # c => calls'[d].pc = "out"
    BY NobodyAtRest DEF StartAccept, TypeOK, InStart
  <1>5. runs[n] = NoRunYet
    BY <1>2 DEF Ownership, HistoryIsOver
  <1>. HIDE DEF n
  <1>6. /\ runs'[n].err = "" /\ runs'[n].config = Nil
        /\ \A id \in RunIDs : id # n => runs'[id] = runs[id]
    <2>1. runs'[n] = [NoRunYet EXCEPT !.phase = "setup"]
      BY <1>1, <1>2, <1>5 DEF TypeOK
    <2>2. \A id \in RunIDs : id # n => runs'[id] = runs[id]
      BY <1>1 DEF TypeOK
    <2>. QED BY <2>1, <2>2 DEF NoRunYet
  <1>7. TimesFollowRun'
    BY <1>1, <1>2, <1>3 DEF TimesFollowRun
  <1>8. ErrorsFollowRun'
    BY <1>1, <1>3, <1>4, <1>6 DEF ErrorsFollowRun, Reported
  <1>9. OptionsInSync'
    BY <1>1, <1>6 DEF OptionsInSync
  <1>10. ResultsBelongToRun'
    BY <1>1 DEF ResultsBelongToRun, VisibleSample
  <1>11. ErrorsSurface'
    BY <1>1 DEF ErrorsSurface
  <1>. QED BY <1>7, <1>8, <1>9, <1>10, <1>11 DEF Reported

LEMMA RunnerStartSucceedsReported ==
    ASSUME TypeOK, Ownership, Reported, NEW c \in Callers,
           RunnerStartSucceeds(c), TypeOK', Ownership'
    PROVE  Reported'
  <1>. USE DEF NoRun
  <1>1. /\ OwnedByCaller(c) /\ runID \in RunIDs /\ calls[c].id = runID
        /\ \A d \in Callers : d # c => calls[d].pc = "out"
        /\ calls[c].pc = "setup"
    BY CallerFacts DEF RunnerStartSucceeds
  <1>2. UNCHANGED <<state, sample, run, runID, waiters>>
    BY DEF RunnerStartSucceeds
  <1>3. /\ runs[runID].phase = "setup" /\ waiters = {} /\ run = NoRun
        /\ state.status \in {"starting", "stopping"}
        /\ state.options = calls[c].options
        /\ validateStartOptions(state.options)
    BY <1>1, PhasesTable DEF OwnedByCaller
  <1>4. /\ calls'[c].pc = "up"
        /\ \A d \in Callers : d # c => calls'[d].pc = "out"
    BY <1>1 DEF RunnerStartSucceeds, TypeOK, Calls
  <1>5. /\ runs'[runID].err = runs[runID].err
        /\ runs'[runID].sample = runs[runID].sample
        /\ runs'[runID].config = calls[c].options
        /\ \A id \in RunIDs : id # runID => runs'[id] = runs[id]
    BY <1>1 DEF RunnerStartSucceeds, TypeOK, Runs
  <1>6. runs[runID].err = "" /\ state.startedAt = Nil
    BY <1>1, <1>3 DEF Reported, ErrorsFollowRun, TimesFollowRun, InStart
  <1>7. TimesFollowRun'
    BY <1>1, <1>2, <1>3, <1>6, RunsAreNotNil DEF TimesFollowRun
  <1>8. ErrorsFollowRun'
    BY <1>1, <1>2, <1>3, <1>4, <1>5, <1>6 DEF ErrorsFollowRun, Reported
  <1>9. OptionsInSync'
    BY <1>2, <1>3, <1>5 DEF OptionsInSync
  <1>10. ResultsBelongToRun'
    BY <1>2, <1>3, <1>6 DEF ResultsBelongToRun, VisibleSample, Reported
  <1>11. ErrorsSurface'
    BY <1>2, <1>3 DEF ErrorsSurface
  <1>. QED BY <1>7, <1>8, <1>9, <1>10, <1>11 DEF Reported

LEMMA RunnerStartFailsReported ==
    ASSUME TypeOK, Ownership, Reported, NEW c \in Callers,
           NEW err \in {"canceled", "setup"}, RunnerStartFails(c, err),
           TypeOK', Ownership'
    PROVE  Reported'
  <1>. USE DEF NoRun
  <1>1. /\ OwnedByCaller(c) /\ runID \in RunIDs /\ calls[c].id = runID
        /\ \A d \in Callers : d # c => calls[d].pc = "out"
        /\ calls[c].pc = "setup"
    BY CallerFacts DEF RunnerStartFails
  <1>2. UNCHANGED <<state, sample, run, runID, waiters>>
    BY DEF RunnerStartFails
  <1>3. /\ runs[runID].config = Nil /\ waiters = {} /\ run = NoRun
        /\ state.status \in {"starting", "stopping"}
    BY <1>1 DEF OwnedByCaller
  <1>4. /\ calls'[c].pc = "down" /\ calls'[c].err = err
        /\ \A d \in Callers : d # c => calls'[d].pc = "out"
    BY <1>1 DEF RunnerStartFails, TypeOK, Calls
  <1>5. /\ runs'[runID].phase = "ended" /\ runs'[runID].err = err
        /\ runs'[runID].config = Nil
        /\ \A id \in RunIDs : id # runID => runs'[id] = runs[id]
    BY <1>1, <1>3 DEF RunnerStartFails, TypeOK, Runs
  <1>6. state.startedAt = Nil
    BY <1>1, <1>3 DEF Reported, TimesFollowRun, InStart
  <1>7. TimesFollowRun'
    BY <1>1, <1>2, <1>3, <1>6, RunsAreNotNil DEF TimesFollowRun
  <1>8. ErrorsFollowRun'
    BY <1>1, <1>2, <1>3, <1>4, <1>5 DEF ErrorsFollowRun, Reported
  <1>9. OptionsInSync'
    BY <1>2, <1>5 DEF OptionsInSync
  <1>10. ResultsBelongToRun'
    BY <1>2, <1>3, <1>6 DEF ResultsBelongToRun, VisibleSample, Reported
  <1>11. ErrorsSurface'
    BY <1>2, <1>3 DEF ErrorsSurface
  <1>. QED BY <1>7, <1>8, <1>9, <1>10, <1>11 DEF Reported

LEMMA StartInstallReported ==
    ASSUME TypeOK, Ownership, Reported, NEW c \in Callers,
           StartInstall(c), TypeOK', Ownership'
    PROVE  Reported'
  <1>. USE DEF NoRun
  <1>1. /\ OwnedByCaller(c) /\ runID \in RunIDs /\ calls[c].id = runID
        /\ \A d \in Callers : d # c => calls[d].pc = "out"
        /\ calls[c].pc = "up"
    BY CallerFacts DEF StartInstall
  <1>2. /\ UNCHANGED <<sample, runID, runs>>
        /\ run' = runID /\ waiters' = waiters \cup {runID}
    BY <1>1 DEF StartInstall, SpawnWaiter
  <1>3. state.startedAt = Nil /\ state.status \in {"starting", "stopping"}
    BY <1>1 DEF Reported, TimesFollowRun, InStart, OwnedByCaller
  <1>4. /\ state'.startedAt = runID /\ state'.status \in {"running", "stopping"}
        /\ state'.options = state.options
    BY <1>1, <1>3 DEF StartInstall, TypeOK
  <1>5. \A d \in Callers : calls'[d].pc = "out"
    BY <1>1 DEF StartInstall, TypeOK, NoCall
  <1>6. runID # Nil /\ runID # NoRun
    BY <1>1, RunsAreNotNil
  <1>7. TimesFollowRun'
    BY <1>2, <1>4, <1>5, <1>6 DEF TimesFollowRun, InStart
  <1>8. ErrorsFollowRun'
    BY <1>1, <1>2, <1>4, <1>5 DEF ErrorsFollowRun, Reported
  <1>9. OptionsInSync'
    BY <1>2, <1>4 DEF OptionsInSync, Reported
  <1>10. ResultsBelongToRun'
    BY <1>2, <1>4, <1>6 DEF ResultsBelongToRun, VisibleSample
  <1>11. ErrorsSurface'
    BY <1>4 DEF ErrorsSurface
  <1>. QED BY <1>7, <1>8, <1>9, <1>10, <1>11 DEF Reported

LEMMA FinishStartFailureReported ==
    ASSUME TypeOK, Ownership, Reported, NEW c \in Callers,
           FinishStartFailure(c), TypeOK', Ownership'
    PROVE  Reported'
  <1>. USE DEF NoRun
  <1>1. /\ OwnedByCaller(c) /\ runID \in RunIDs /\ calls[c].id = runID
        /\ \A d \in Callers : d # c => calls[d].pc = "out"
        /\ calls[c].pc = "down"
    BY CallerFacts DEF FinishStartFailure
  <1>2. /\ UNCHANGED <<waiters, runID, runs>>
        /\ run' = NoRun /\ sample' = zeroSample
    BY <1>1 DEF FinishStartFailure, ResetSample
  <1>3. /\ state.startedAt = Nil /\ waiters = {} /\ calls[c].err # ""
        /\ calls[c].err = runs[runID].err
        /\ runs[runID].config = Nil
    BY <1>1 DEF Reported, TimesFollowRun, ErrorsFollowRun, InStart, OwnedByCaller
  <1>4. /\ state'.startedAt = Nil
        /\ \/ /\ state'.status = "stopped" /\ state'.error = ""
              /\ runs[runID].err = "canceled"
           \/ /\ state'.status = "failed" /\ state'.error # ""
              /\ state'.error = runs[runID].err
    <2>1. CASE state.status = "stopping" /\ calls[c].err = "canceled"
      BY <1>1, <1>3, <2>1 DEF FinishStartFailure, TypeOK
    <2>2. CASE ~(state.status = "stopping" /\ calls[c].err = "canceled")
      <3>1. state' = [status |-> "failed", options |-> calls[c].options,
                      startedAt |-> Nil, stoppedAt |-> runID,
                      error |-> calls[c].err]
        BY <1>1, <2>2 DEF FinishStartFailure
      <3>. QED BY <1>3, <3>1
    <2>. QED BY <2>1, <2>2
  <1>5. \A d \in Callers : calls'[d].pc = "out"
    BY <1>1 DEF FinishStartFailure, TypeOK, NoCall
  <1>7. TimesFollowRun'
    BY <1>2, <1>3, <1>5 DEF TimesFollowRun, InStart
  <1>8. ErrorsFollowRun'
    BY <1>2, <1>3, <1>4, <1>5 DEF ErrorsFollowRun, Reported
  <1>9. OptionsInSync'
    BY <1>2, <1>3 DEF OptionsInSync
  <1>10. ResultsBelongToRun'
    BY <1>2, <1>4 DEF ResultsBelongToRun, VisibleSample
  <1>11. ErrorsSurface'
    <2>1. ResultsStats'.latestError = ""
      BY <1>2, <1>4 DEF ResultsStats, VisibleSample, normalizeResultsSample,
         zeroSample
    <2>. QED BY <1>2, <1>4, <2>1 DEF ErrorsSurface
  <1>. QED BY <1>7, <1>8, <1>9, <1>10, <1>11 DEF Reported

(***************************************************************************)
(* Alter: the run and the coordinator alter the same options the same way, *)
(* and only into options that validate.                                    *)
(***************************************************************************)
LEMMA AlterReported ==
    ASSUME TypeOK, Ownership, Reported, NEW a \in AlterRequests,
           Alter(a), TypeOK', Ownership'
    PROVE  Reported'
  <1>. USE DEF NoRun
  <1>1. /\ UNCHANGED <<sample, run, runID, calls, waiters>>
        /\ state.status = "running" /\ run # NoRun
        /\ runs' = [runs EXCEPT ![run].config = RunAltered(@, a)]
        /\ state' = [state EXCEPT !.options = Altered(@, a)]
    BY DEF Alter
  <1>2. a \in AlterOptions /\ run \in RunIDs
    BY <1>1, RequestsAssumption DEF TypeOK
  <1>3. /\ run = runID /\ runID \in waiters /\ state.options \in StartOptions
        /\ state.options = runs[runID].config
    BY <1>1 DEF Ownership, ActiveIsOwned, ActiveStatuses, CallerOwns,
       OwnedByCaller, WaiterOwns
  <1>4. validateStartOptions(Altered(state.options, a))
    BY DEF Alter, ApplyAlterAccepts
  <1>5. RunAltered(runs[runID].config, a) = Altered(state.options, a)
    BY <1>2, <1>3, AlteredType
  <1>6. /\ state'.options = Altered(state.options, a)
        /\ state'.status = "running" /\ state'.startedAt = state.startedAt
    BY <1>1 DEF TypeOK
  <1>7. /\ runs'[runID].config = RunAltered(runs[runID].config, a)
        /\ \A id \in RunIDs : /\ runs'[id].phase = runs[id].phase
                              /\ runs'[id].err = runs[id].err
                              /\ runs'[id].sample = runs[id].sample
    BY <1>1, <1>2, <1>3 DEF TypeOK, Runs
  <1>8. TimesFollowRun'
    BY <1>1, <1>6 DEF TimesFollowRun, Reported, InStart
  <1>9. ErrorsFollowRun'
    BY <1>1, <1>2, <1>3, <1>6, <1>7 DEF ErrorsFollowRun, Reported
  <1>10. OptionsInSync'
    BY <1>1, <1>4, <1>5, <1>6, <1>7 DEF OptionsInSync
  <1>11. ResultsBelongToRun'
    BY <1>1, <1>2, <1>3, <1>6, <1>7
    DEF ResultsBelongToRun, VisibleSample, Reported
  <1>12. ErrorsSurface'
    BY <1>6 DEF ErrorsSurface
  <1>. QED BY <1>8, <1>9, <1>10, <1>11, <1>12 DEF Reported

LEMMA StopReported ==
    ASSUME TypeOK, Ownership, Reported, Stop, TypeOK', Ownership',
           state.status \in {"starting", "running"}
    PROVE  Reported'
  <1>. USE DEF NoRun
  <1>1. /\ UNCHANGED <<sample, run, runID, calls, waiters>>
        /\ state' = [state EXCEPT !.status = "stopping"]
        /\ runs' = IF cancel # NoRun THEN Cancelled(cancel) ELSE runs
    BY DEF Stop
  <1>2. runID \in RunIDs /\ cancel \in RunIDs
    BY DEF Ownership, ActiveIsOwned, ActiveStatuses, TypeOK
  <1>3. /\ state'.status = "stopping" /\ state'.startedAt = state.startedAt
        /\ state'.options = state.options
    BY <1>1 DEF TypeOK
  <1>4. \A id \in RunIDs : /\ runs'[id].phase = runs[id].phase
                           /\ runs'[id].err = runs[id].err
                           /\ runs'[id].sample = runs[id].sample
                           /\ runs'[id].config = runs[id].config
    BY <1>1, <1>2 DEF Cancelled, TypeOK, Runs
  <1>5. TimesFollowRun'
    BY <1>1, <1>3 DEF TimesFollowRun, Reported, InStart
  <1>6. ErrorsFollowRun'
    BY <1>1, <1>2, <1>3, <1>4 DEF ErrorsFollowRun, Reported
  <1>7. OptionsInSync'
    BY <1>1, <1>2, <1>3, <1>4 DEF OptionsInSync, Reported
  <1>8. ResultsBelongToRun'
    <2>1. run # NoRun => run \in RunIDs
      BY DEF TypeOK
    <2>. QED BY <2>1, <1>1, <1>2, <1>3, <1>4
             DEF ResultsBelongToRun, VisibleSample, Reported
  <1>9. ErrorsSurface'
    BY <1>3 DEF ErrorsSurface
  <1>. QED BY <1>5, <1>6, <1>7, <1>8, <1>9 DEF Reported

(***************************************************************************)
(* waitForRun swaps the live sample for the retained one: what is visible  *)
(* stays the same, and its texts go with the status it gives the run.      *)
(***************************************************************************)
LEMMA WaitForRunReported ==
    ASSUME TypeOK, Ownership, Reported, NEW id \in RunIDs,
           WaitForRun(id), TypeOK', Ownership'
    PROVE  Reported'
  <1>. USE DEF NoRun
  <1>1. id = runID /\ runID \in waiters
    BY DEF WaitForRun, Ownership, WaiterOwns
  <1>2. /\ UNCHANGED <<runID, calls, runs>>
        /\ sample' = runs[runID].sample /\ run' = NoRun
        /\ waiters' = waiters \ {runID}
    BY <1>1 DEF WaitForRun, Retained
  <1>3. /\ state.startedAt # Nil
        /\ runs[runID].err = "" \/ runs[runID].sample.latestError # ""
    BY <1>1 DEF Reported, TimesFollowRun, ErrorsFollowRun
  <1>4. /\ state'.startedAt = state.startedAt /\ state'.options = state.options
        /\ state'.status = FinalStatus(state.status, runs[runID].err)
        /\ state'.error = FinalError(state.status, runs[runID].err)
    BY <1>1 DEF WaitForRun, TypeOK
  <1>a. state.status = "stopping" => runs[runID].ctx = "done"
    BY DEF Ownership, ActiveIsOwned, ActiveStatuses
  <1>5. \/ /\ state'.status = "stopped" /\ state'.error = ""
           /\ runs[runID].err = "" \/ runs[runID].ctx = "done"
        \/ /\ state'.status = "failed" /\ state'.error # ""
           /\ state'.error = runs[runID].err
           /\ runs[runID].sample.latestError # ""
    BY <1>3, <1>4, <1>a DEF FinalStatus, FinalError
  <1>6. waiters' = {} /\ \A c \in Callers : calls[c].pc = "out"
    BY <1>1, <1>2 DEF Ownership, WaiterOwns, CallerOwns, OwnedByCaller, InStart
  <1>7. runID # NoRun
    BY <1>1, RunsAreNotNil
  <1>8. VisibleSample' = runs[runID].sample
    BY <1>2 DEF VisibleSample
  <1>9. TimesFollowRun'
    BY <1>2, <1>6, <1>7 DEF TimesFollowRun, InStart
  <1>10. ErrorsFollowRun'
    BY <1>2, <1>5, <1>6 DEF ErrorsFollowRun, Reported
  <1>11. OptionsInSync'
    BY <1>2, <1>4 DEF OptionsInSync, Reported
  <1>12. ResultsBelongToRun'
    BY <1>2, <1>3, <1>4, <1>8 DEF ResultsBelongToRun
  <1>13. ErrorsSurface'
    <2>0. runs[runID] \in Runs
      BY <1>1 DEF TypeOK
    <2>1. VisibleSample' \in Samples
      BY <1>8, <2>0 DEF Runs
    <2>2. ResultsStats' = normalizeResultsSample(state', VisibleSample')
      BY DEF ResultsStats
    <2>3. /\ state'.status = "failed" => ResultsStats'.latestError # ""
          /\ state'.status = "stopped" => ResultsStats'.latestError # "canceled"
      BY <1>5, <1>8, <2>1, <2>2, Normalized
    <2>. QED BY <1>2, <1>5, <2>3 DEF ErrorsSurface
  <1>. QED BY <1>9, <1>10, <1>11, <1>12, <1>13 DEF Reported

\* A step of the run itself, behind the interface Run.
RunStep(id) ==
    \/ RunOperates(id)
    \/ \E err \in {"", "canceled", "workload"} : RunEnds(id, err)

(***************************************************************************)
(* A step of a run changes only its own entry, in which the counters grow  *)
(* and an error, if it ends with one, is in the statistics as well.        *)
(***************************************************************************)
LEMMA RunStepFacts ==
    ASSUME TypeOK, Ownership, Reported, NEW id \in RunIDs,
           RunStep(id)
    PROVE  /\ id = runID
           /\ UNCHANGED <<state, sample, run, runID, calls, waiters>>
           /\ runs[id].phase = "active"
           /\ runs'[id].config = runs[id].config
           /\ runs'[id].phase # "ended" => runs'[id].err = ""
           /\ runs'[id].err = "" \/ runs'[id].sample.latestError # ""
           /\ runs'[id].sample.total >= runs[id].sample.total
           /\ runs'[id].sample.failed >= runs[id].sample.failed
           /\ \A i \in RunIDs : i # id => runs'[i] = runs[i]
  <1>1. /\ runs[id].phase = "active"
        /\ UNCHANGED <<state, sample, run, runID, calls, waiters>>
    BY DEF RunStep, RunOperates, RunEnds
  <1>2. id = runID
    <2>1. id \in Busy
      BY <1>1 DEF Busy
    <2>. QED BY <2>1, BusyLemma DEF BusyIsCurrent
  <1>3. runs[id] \in Runs
    BY DEF TypeOK
  <1>4. /\ runs[id].sample \in Samples /\ runs[id].err = ""
    BY <1>1, <1>3 DEF Runs, Reported, ErrorsFollowRun
  <1>5. /\ runs[id].sample.total \in Nat /\ runs[id].sample.failed \in Nat
    BY <1>4 DEF Samples
  <1>6. CASE RunOperates(id)
    <2>1. PICK outcome \in {"ok", "failed"}, window \in {"warmup", "measured"} :
             runs' = [runs EXCEPT ![id].sample = Record(@, outcome, window)]
      BY <1>6 DEF RunOperates
    <2>. DEFINE s == Record(runs[id].sample, outcome, window)
    <2>2. s.total >= runs[id].sample.total /\ s.failed >= runs[id].sample.failed
      <3>1. /\ s.total = IF window = "warmup" THEN runs[id].sample.total
                         ELSE runs[id].sample.total + 1
            /\ s.failed = IF outcome = "failed" /\ window = "measured"
                          THEN runs[id].sample.failed + 1
                          ELSE runs[id].sample.failed
        BY DEF Record
      <3>. HIDE DEF s
      <3>2. s.total \in Nat /\ s.failed \in Nat
        BY <3>1, <1>5
      <3>. QED BY <3>1, <3>2, <1>5, SMTT(20)
    <2>. HIDE DEF s
    <2>3. /\ runs'[id] = [runs[id] EXCEPT !.sample = s]
          /\ \A i \in RunIDs : i # id => runs'[i] = runs[i]
      BY <2>1 DEF TypeOK, s
    <2>4. /\ runs'[id].sample = s /\ runs'[id].err = ""
          /\ runs'[id].config = runs[id].config
      BY <2>3, <1>3, <1>4 DEF Runs
    <2>. QED BY <1>1, <1>2, <2>2, <2>3, <2>4
  <1>7. ASSUME NEW err \in {"", "canceled", "workload"}, RunEnds(id, err)
        PROVE  /\ runs'[id].config = runs[id].config
               /\ runs'[id].phase # "ended" => runs'[id].err = ""
               /\ runs'[id].err = "" \/ runs'[id].sample.latestError # ""
               /\ runs'[id].sample.total = runs[id].sample.total
               /\ runs'[id].sample.failed = runs[id].sample.failed
               /\ \A i \in RunIDs : i # id => runs'[i] = runs[i]
    <2>1. PICK text : /\ runs' = [runs EXCEPT ![id] = EndedRun(@, err, text)]
                      /\ err # "" => text # ""
      BY <1>7 DEF RunEnds
    <2>2. /\ runs'[id] = EndedRun(runs[id], err, text)
          /\ \A i \in RunIDs : i # id => runs'[i] = runs[i]
      BY <2>1 DEF TypeOK
    <2>3. EndedRun(runs[id], err, text).sample
            = [runs[id].sample EXCEPT !.latestError = text]
      BY <1>3 DEF EndedRun, Runs
    <2>4. /\ EndedRun(runs[id], err, text).phase = "ended"
          /\ EndedRun(runs[id], err, text).err = err
          /\ EndedRun(runs[id], err, text).config = runs[id].config
      BY <1>3 DEF EndedRun, Runs
    <2>5. /\ EndedRun(runs[id], err, text).sample.total = runs[id].sample.total
          /\ EndedRun(runs[id], err, text).sample.failed = runs[id].sample.failed
          /\ EndedRun(runs[id], err, text).sample.latestError = text
      BY <2>3, <1>4 DEF Samples
    <2>6. /\ runs'[id].phase = "ended" /\ runs'[id].err = err
          /\ runs'[id].config = runs[id].config
          /\ runs'[id].sample.total = runs[id].sample.total
          /\ runs'[id].sample.failed = runs[id].sample.failed
          /\ runs'[id].sample.latestError = text
      BY <2>2, <2>4, <2>5
    <2>. QED BY <2>1, <2>2, <2>6
  <1>8. /\ runs'[id].sample.total >= runs[id].sample.total
        /\ runs'[id].sample.failed >= runs[id].sample.failed
    <2>1. CASE RunOperates(id)
      BY <2>1, <1>6
    <2>2. CASE \E err \in {"", "canceled", "workload"} : RunEnds(id, err)
      <3>1. /\ runs'[id].sample.total = runs[id].sample.total
            /\ runs'[id].sample.failed = runs[id].sample.failed
        BY <2>2, <1>7
      <3>. QED BY <3>1, <1>5
    <2>. QED BY <2>1, <2>2 DEF RunStep
  <1>. QED BY <1>1, <1>2, <1>6, <1>7, <1>8 DEF RunStep

LEMMA RunStepReported ==
    ASSUME TypeOK, Ownership, Reported, NEW id \in RunIDs,
           RunStep(id),
           TypeOK', Ownership'
    PROVE  Reported'
  <1>. USE DEF NoRun
  <1>1. /\ id = runID
        /\ UNCHANGED <<state, sample, run, runID, calls, waiters>>
        /\ runs[id].phase = "active"
        /\ runs'[id].config = runs[id].config
        /\ runs'[id].phase # "ended" => runs'[id].err = ""
        /\ runs'[id].err = "" \/ runs'[id].sample.latestError # ""
        /\ \A i \in RunIDs : i # id => runs'[i] = runs[i]
    BY RunStepFacts
  <1>2. state.status \in ActiveStatuses
    <2>1. id = runID /\ runs[id].phase # "ended"
      BY <1>1
    <2>2. runID \in Nat
      BY RunNumbers
    <2>3. id <= runID
      BY <2>1, <2>2
    <2>. QED BY <2>1, <2>3, NobodyAtRest
  <1>3. TimesFollowRun'
    BY <1>1 DEF TimesFollowRun, Reported, InStart
  <1>4. ErrorsFollowRun'
    BY <1>1 DEF ErrorsFollowRun, Reported
  <1>5. OptionsInSync'
    BY <1>1 DEF OptionsInSync, Reported
  <1>6. ResultsBelongToRun'
    <2>1. CASE \E c \in Callers : InStart(c)
      <3>1. state.startedAt = Nil /\ run = NoRun
        BY <2>1 DEF Reported, TimesFollowRun, Ownership, CallerOwns, OwnedByCaller
      <3>. QED BY <3>1, <1>1 DEF ResultsBelongToRun, VisibleSample, Reported
    <2>2. CASE runID \in waiters
      <3>1. state.startedAt # Nil /\ run = runID /\ runID # NoRun
        BY <2>2, <1>1, RunsAreNotNil
        DEF Reported, TimesFollowRun, Ownership, WaiterOwns
      <3>. QED BY <3>1, <1>1 DEF ResultsBelongToRun, VisibleSample
    <2>. QED BY <2>1, <2>2, <1>2 DEF Ownership, ActiveIsOwned
  <1>7. ErrorsSurface'
    BY <1>1, <1>2 DEF ErrorsSurface, ActiveStatuses
  <1>. QED BY <1>3, <1>4, <1>5, <1>6, <1>7 DEF Reported

LEMMA NextReported ==
    TypeOK /\ Ownership /\ Reported /\ [Next]_vars => Reported'
  <1>. SUFFICES ASSUME TypeOK, Ownership, Reported, [Next]_vars
                PROVE  Reported'
    OBVIOUS
  <1>0. TypeOK' /\ Ownership'
    BY NextType, NextOwnership
  <1>1. CASE UNCHANGED vars
    <2>1. UNCHANGED <<VisibleSample, ResultsStats>>
      BY <1>1 DEF vars, VisibleSample, ResultsStats
    <2>. QED BY <1>1, <2>1
             DEF vars, Reported, TimesFollowRun, ErrorsFollowRun, InStart,
                 OptionsInSync, ResultsBelongToRun, ErrorsSurface
  <1>2. ASSUME NEW c \in Callers, NEW o \in StartRequests, StartAccept(c, o)
        PROVE  Reported'
    BY <1>0, <1>2, StartAcceptReported
  <1>3. ASSUME NEW c \in Callers, RunnerStartSucceeds(c) PROVE Reported'
    BY <1>0, <1>3, RunnerStartSucceedsReported
  <1>4. ASSUME NEW c \in Callers, NEW err \in {"canceled", "setup"},
               RunnerStartFails(c, err)
        PROVE  Reported'
    BY <1>0, <1>4, RunnerStartFailsReported
  <1>5. ASSUME NEW c \in Callers, StartInstall(c) PROVE Reported'
    BY <1>0, <1>5, StartInstallReported
  <1>6. ASSUME NEW c \in Callers, FinishStartFailure(c) PROVE Reported'
    BY <1>0, <1>6, FinishStartFailureReported
  <1>7. ASSUME NEW a \in AlterRequests, Alter(a) PROVE Reported'
    BY <1>0, <1>7, AlterReported
  <1>8. ASSUME Stop PROVE Reported'
    BY <1>0, <1>1, <1>8, StopReported DEF Stop
  <1>9. ASSUME NEW id \in RunIDs, WaitForRun(id) PROVE Reported'
    BY <1>0, <1>9, WaitForRunReported
  <1>10. ASSUME NEW id \in RunIDs, RunStep(id) PROVE Reported'
    BY <1>0, <1>10, RunStepReported
  <1>. QED BY <1>1, <1>2, <1>3, <1>4, <1>5, <1>6, <1>7, <1>8, <1>9, <1>10
           DEF Next, RunStep

-----------------------------------------------------------------------------
(***************************************************************************)
(* The three reported invariants and what carries them over, together with *)
(* types and ownership: the inductive invariant of this module.            *)
(***************************************************************************)
THEOREM ReportedInvariance == Spec => [](TypeOK /\ Ownership /\ Reported)
  <1>1. Init => TypeOK /\ Ownership /\ Reported
    BY InitType, InitOwnership, InitReported
  <1>2. TypeOK /\ Ownership /\ Reported /\ [Next]_vars
          => (TypeOK /\ Ownership /\ Reported)'
    BY NextType, NextOwnership, NextReported
  <1>. QED BY <1>1, <1>2, PTL DEF Spec

(***************************************************************************)
(* The options the API reports are valid and are those the run works with, *)
(* after any sequence of alterations and after the run has ended.          *)
(***************************************************************************)
THEOREM OptionsAlwaysInSync == Spec => []OptionsInSync
  BY ReportedInvariance, PTL DEF Reported

(***************************************************************************)
(* Results show the sample of the run whose options they are shown with,   *)
(* and nothing before that run has come up.                                *)
(***************************************************************************)
THEOREM ResultsAlwaysBelong == Spec => []ResultsBelongToRun
  BY ReportedInvariance, PTL DEF Reported

(***************************************************************************)
(* A failed run always says why, and a stopped one never shows its own     *)
(* cancellation as an error.                                               *)
(***************************************************************************)
THEOREM ErrorsAlwaysSurface == Spec => []ErrorsSurface
  BY ReportedInvariance, PTL DEF Reported

-----------------------------------------------------------------------------
(***************************************************************************)
(* Within a run, started_at is never taken back once it is set, and a step *)
(* keeps the counters of every run or adds to them.                        *)
(***************************************************************************)
Grows ==
    /\ state.startedAt # Nil => state'.startedAt # Nil
    /\ \A id \in RunIDs :
          /\ runs'[id].sample.total >= runs[id].sample.total
          /\ runs'[id].sample.failed >= runs[id].sample.failed

LEMMA SampleCounts ==
    TypeOK => /\ \A id \in RunIDs : /\ runs[id].sample.total \in Nat
                                    /\ runs[id].sample.failed \in Nat
              /\ VisibleSample.total \in Nat
              /\ VisibleSample.failed \in Nat
  <1>. SUFFICES ASSUME TypeOK
                PROVE  /\ \A id \in RunIDs : /\ runs[id].sample.total \in Nat
                                             /\ runs[id].sample.failed \in Nat
                       /\ VisibleSample.total \in Nat
                       /\ VisibleSample.failed \in Nat
    OBVIOUS
  <1>1. \A id \in RunIDs : runs[id] \in Runs
    BY DEF TypeOK
  <1>2. \A id \in RunIDs : runs[id].sample \in Samples
    BY <1>1 DEF Runs
  <1>. QED BY <1>2, VisibleType DEF Samples

LEMMA StepGrows ==
    ASSUME TypeOK, Ownership, Reported, [Next]_vars, runID' = runID
    PROVE  Grows
  <1>. USE DEF NoRun
  <1>. DEFINE SameSamples == \A id \in RunIDs : runs'[id].sample = runs[id].sample
  <1>0. ASSUME state.startedAt # Nil => state'.startedAt # Nil, SameSamples
        PROVE  Grows
    <2>1. \A id \in RunIDs : /\ runs[id].sample.total \in Nat
                             /\ runs[id].sample.failed \in Nat
      BY SampleCounts
    <2>. QED BY <1>0, <2>1 DEF Grows
  <1>1. ASSUME NEW c \in Callers, NEW o \in StartRequests, StartAccept(c, o)
        PROVE  Grows
    <2>1. runID' = runID + 1
      BY <1>1 DEF StartAccept
    <2>2. runID \in Nat
      BY RunNumbers
    <2>3. FALSE
      BY <2>1, <2>2
    <2>. QED BY <2>3
  <1>2. ASSUME NEW c \in Callers,
               \/ RunnerStartSucceeds(c)
               \/ \E err \in {"canceled", "setup"} : RunnerStartFails(c, err)
        PROVE  Grows
    <2>1. state' = state
      BY <1>2 DEF RunnerStartSucceeds, RunnerStartFails
    <2>2. SameSamples
      <3>1. CASE RunnerStartSucceeds(c)
        BY <3>1 DEF RunnerStartSucceeds, TypeOK, Runs
      <3>2. ASSUME NEW err \in {"canceled", "setup"}, RunnerStartFails(c, err)
            PROVE  SameSamples
        BY <3>2 DEF RunnerStartFails, TypeOK, Runs
      <3>. QED BY <1>2, <3>1, <3>2
    <2>. QED BY <2>1, <2>2, <1>0
  <1>3. ASSUME NEW c \in Callers, StartInstall(c) PROVE Grows
    <2>1. calls[c].id \in RunIDs /\ SameSamples
      BY <1>3, CallerFacts DEF StartInstall
    <2>2. calls[c].id # Nil
      BY <2>1, RunsAreNotNil
    <2>3. state.startedAt # Nil => state'.startedAt # Nil
      BY <1>3, <2>2 DEF StartInstall, TypeOK
    <2>. QED BY <2>1, <2>3, <1>0
  <1>4. ASSUME NEW c \in Callers, FinishStartFailure(c) PROVE Grows
    <2>1. SameSamples
      BY <1>4 DEF FinishStartFailure
    <2>2. state.startedAt = Nil
      BY <1>4 DEF FinishStartFailure, Reported, TimesFollowRun, InStart
    <2>. QED BY <2>1, <2>2, <1>0
  <1>5. ASSUME NEW a \in AlterRequests, Alter(a) PROVE Grows
    <2>1. run \in RunIDs
      BY <1>5 DEF Alter, TypeOK
    <2>2. SameSamples
      BY <2>1, <1>5 DEF Alter, TypeOK, Runs
    <2>3. state'.startedAt = state.startedAt
      BY <1>5 DEF Alter, TypeOK
    <2>. QED BY <2>2, <2>3, <1>0
  <1>6. CASE UNCHANGED vars
    BY <1>6, <1>0 DEF vars
  <1>7. ASSUME Stop PROVE Grows
    <2>1. CASE state.status \in {"starting", "running"}
      <3>1. SameSamples
        BY <2>1, <1>7 DEF Stop, Cancelled, TypeOK, Runs
      <3>2. state'.startedAt = state.startedAt
        BY <2>1, <1>7 DEF Stop, TypeOK
      <3>. QED BY <3>1, <3>2, <1>0
    <2>. QED BY <2>1, <1>6, <1>7 DEF Stop
  <1>8. ASSUME NEW id \in RunIDs, WaitForRun(id) PROVE Grows
    <2>1. SameSamples
      BY <1>8 DEF WaitForRun
    <2>2. state'.startedAt = state.startedAt
      BY <1>8 DEF WaitForRun, TypeOK
    <2>. QED BY <2>1, <2>2, <1>0
  <1>9. ASSUME NEW id \in RunIDs, RunStep(id) PROVE Grows
    <2>1. /\ state' = state
          /\ runs'[id].sample.total >= runs[id].sample.total
          /\ runs'[id].sample.failed >= runs[id].sample.failed
          /\ \A i \in RunIDs : i # id => runs'[i] = runs[i]
      BY <1>9, RunStepFacts
    <2>2. \A i \in RunIDs : /\ runs[i].sample.total \in Nat
                            /\ runs[i].sample.failed \in Nat
      BY SampleCounts
    <2>. QED BY <2>1, <2>2 DEF Grows
  <1>. QED BY <1>1, <1>2, <1>3, <1>4, <1>5, <1>6, <1>7, <1>8, <1>9
           DEF Next, RunStep

(***************************************************************************)
(* No counter that a client polls goes back within a run: not when the run *)
(* comes up, not when the live sample is swapped for the retained one, and *)
(* not when a stopped run's text is blanked.                               *)
(***************************************************************************)
THEOREM ResultsAlwaysMonotone == Spec => ResultsMonotone
  <1>. DEFINE Inv == TypeOK /\ Ownership /\ Reported
              Step == runID' = runID =>
                         /\ ResultsStats'.total >= ResultsStats.total
                         /\ ResultsStats'.failed >= ResultsStats.failed
  <1>1. Inv /\ Inv' /\ [Next]_vars => Step
    <2>. SUFFICES ASSUME Inv, Inv', [Next]_vars, runID' = runID
                  PROVE  /\ ResultsStats'.total >= ResultsStats.total
                         /\ ResultsStats'.failed >= ResultsStats.failed
      OBVIOUS
    <2>0. TypeOK /\ TypeOK'
      OBVIOUS
    <2>1. VisibleSample \in Samples /\ VisibleSample' \in Samples
      <3>1. VisibleSample \in Samples
        BY <2>0, VisibleType
      <3>2. (VisibleSample \in Samples)'
        BY <2>0, VisibleType, PTL
      <3>. QED BY <3>1, <3>2
    <2>2. /\ ResultsStats.total = VisibleSample.total
          /\ ResultsStats.failed = VisibleSample.failed
      BY <2>1, Normalized DEF ResultsStats
    <2>3. /\ ResultsStats'.total = VisibleSample'.total
          /\ ResultsStats'.failed = VisibleSample'.failed
      BY <2>1, Normalized DEF ResultsStats
    <2>4. /\ VisibleSample'.total \in Nat /\ VisibleSample'.failed \in Nat
      BY <2>1 DEF Samples
    <2>5. CASE VisibleSample = zeroSample
      <3>1. VisibleSample.total = 0 /\ VisibleSample.failed = 0
        BY <2>5 DEF zeroSample
      <3>. QED BY <2>2, <2>3, <2>4, <3>1
    <2>6. CASE runID # 0 /\ state.startedAt # Nil
      <3>1. Grows
        BY StepGrows
      <3>2. VisibleSample = runs[runID].sample
        BY <2>6 DEF Reported, ResultsBelongToRun
      <3>3. VisibleSample' = runs'[runID].sample
        BY <2>6, <3>1 DEF Grows, Reported, ResultsBelongToRun
      <3>4. runID \in RunIDs
        BY <2>6 DEF TypeOK, NoRun
      <3>. QED BY <2>2, <2>3, <3>1, <3>2, <3>3, <3>4 DEF Grows
    <2>7. CASE runID # 0 /\ state.startedAt = Nil
      BY <2>5, <2>7 DEF Reported, ResultsBelongToRun
    <2>8. CASE runID = 0
      <3>1. sample = zeroSample /\ state.status \notin ActiveStatuses
        BY <2>8 DEF Reported, TimesFollowRun, Ownership, ActiveIsOwned, NoRun
      <3>2. run = NoRun
        BY <3>1 DEF Ownership, RestIsQuiet
      <3>. QED BY <2>5, <3>1, <3>2 DEF VisibleSample
    <2>. QED BY <2>6, <2>7, <2>8
  <1>2. Spec => []Inv
    BY ReportedInvariance
  <1>. HIDE DEF Inv, Step
  <1>3. Inv /\ Inv' /\ [Next]_vars => [Step]_vars
    BY <1>1
  <1>4. Spec => [][Step]_vars
    BY <1>2, <1>3, PTL DEF Spec
  <1>. QED BY <1>4 DEF Step, ResultsMonotone

=============================================================================

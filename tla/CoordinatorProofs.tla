------------------------- MODULE CoordinatorProofs -------------------------
(***************************************************************************)
(* Proofs about Coordinator for any number of callers, any requests and    *)
(* any bounds: types, who owns the current run, that runs never overlap,   *)
(* that a stop reaches its run, and that the coordinator implements the    *)
(* life cycle of module RunLifecycle.                                      *)
(***************************************************************************)
EXTENDS Coordinator, TLAPS

(***************************************************************************)
(* The helpers the actions are made of stay within the types.              *)
(***************************************************************************)
LEMMA ZeroSampleType ==
    /\ zeroSample \in Samples
    /\ zeroSample.failed <= zeroSample.total
  BY DEF zeroSample, Samples, Errors

LEMMA RecordType ==
    ASSUME NEW s \in Samples, s.failed <= s.total,
           NEW outcome \in {"ok", "failed"}, NEW window \in {"warmup", "measured"}
    PROVE  /\ Record(s, outcome, window) \in Samples
           /\ Record(s, outcome, window).failed
                 <= Record(s, outcome, window).total
  <1>. DEFINE total == IF window = "warmup" THEN s.total ELSE s.total + 1
              fails == IF outcome = "failed" /\ window = "measured"
                       THEN s.failed + 1 ELSE s.failed
              text == IF outcome = "failed" THEN "workload" ELSE s.latestError
  <1>1. s.total \in Nat /\ s.failed \in Nat /\ s.latestError \in Errors
    BY DEF Samples
  <1>2. total \in Nat /\ fails \in Nat /\ fails <= total
    BY <1>1
  <1>3. text \in Errors
    BY <1>1 DEF Errors
  <1>4. Record(s, outcome, window)
          = [total |-> total, failed |-> fails, latestError |-> text]
    BY DEF Record
  <1>. HIDE DEF total, fails, text
  <1>. QED BY <1>2, <1>3, <1>4 DEF Samples

LEMMA EndedRunType ==
    ASSUME NEW r \in Runs, r.sample.failed <= r.sample.total,
           NEW err \in Errors, NEW text \in Errors
    PROVE  /\ EndedRun(r, err, text) \in Runs
           /\ EndedRun(r, err, text).sample.failed
                 <= EndedRun(r, err, text).sample.total
  <1>. DEFINE s == [r.sample EXCEPT !.latestError = text]
  <1>1. r.sample \in Samples
    BY DEF Runs
  <1>2. s \in Samples /\ s.failed <= s.total
    BY <1>1 DEF Samples
  <1>3. EndedRun(r, err, text)
          = [r EXCEPT !.phase = "ended", !.err = err, !.sample = s]
    BY DEF EndedRun, Runs
  <1>. HIDE DEF s
  <1>. QED BY <1>2, <1>3 DEF Runs

\* Altering options gives options, and the run does to its own what the
\* coordinator does to the ones it reports.
LEMMA AlteredType ==
    ASSUME NEW o \in StartOptions, NEW a \in AlterOptions
    PROVE  /\ Altered(o, a) \in StartOptions
           /\ RunAltered(o, a) = Altered(o, a)
  <1>. DEFINE oc == IF a.clients = Nil THEN o.clients ELSE a.clients
              ot == IF a.targetTPS = Nil THEN o.targetTPS ELSE a.targetTPS
  <1>1. oc \in Int /\ ot \in Int \cup {Nil}
    BY DEF StartOptions, AlterOptions
  <1>2. Altered(o, a) = [o EXCEPT !.clients = oc, !.targetTPS = ot]
    BY DEF Altered, Default, StartOptions
  <1>3. RunAltered(o, a) = [o EXCEPT !.targetTPS = ot, !.clients = oc]
    BY DEF RunAltered, Default, StartOptions
  <1>. HIDE DEF oc, ot
  <1>. QED BY <1>1, <1>2, <1>3 DEF StartOptions

LEMMA InitType == Init => TypeOK
  <1>. SUFFICES ASSUME Init PROVE TypeOK
    OBVIOUS
  <1>1. NoCall \in Calls
    BY DEF NoCall, Calls, Errors, NoRun
  <1>2. NoRunYet \in Runs /\ NoRunYet.sample = zeroSample
    BY ZeroSampleType DEF NoRunYet, Runs, Errors
  <1>3. /\ calls \in [Callers -> Calls]
        /\ runs \in [RunIDs -> Runs]
        /\ \A id \in RunIDs : runs[id].sample = zeroSample
    BY <1>1, <1>2 DEF Init
  <1>4. state \in [status : Statuses, options : StartOptions \cup {Nil},
                   startedAt : RunIDs \cup {Nil}, stoppedAt : RunIDs \cup {Nil},
                   error : Errors]
    BY DEF Init, Statuses, Errors
  <1>. QED BY <1>3, <1>4, ZeroSampleType DEF Init, TypeOK, NoRun

(***************************************************************************)
(* Every step keeps the types, and no sample ever counts more failures     *)
(* than operations.                                                        *)
(***************************************************************************)
LEMMA NextType == TypeOK /\ Ownership /\ [Next]_vars => TypeOK'
  <1>. SUFFICES ASSUME TypeOK, Ownership, [Next]_vars PROVE TypeOK'
    OBVIOUS
  <1>. USE DEF NoRun
  <1>0. /\ MaxRuns \in Nat /\ Nil \notin Int
        /\ runID \in 0..MaxRuns
    BY BoundsAssumption, NilAssumption DEF TypeOK, RunIDs
  <1>1. ASSUME NEW c \in Callers, NEW o \in StartRequests, StartAccept(c, o)
        PROVE  TypeOK'
    <2>0. o \in StartOptions /\ runID < MaxRuns
      BY <1>1, RequestsAssumption DEF StartAccept
    <2>1. runID + 1 \in RunIDs /\ o \in StartOptions
      BY <1>0, <2>0 DEF RunIDs
    <2>2. [pc |-> "setup", id |-> runID + 1, options |-> o, err |-> ""] \in Calls
      BY <2>1 DEF Calls, Errors
    <2>3. calls' \in [Callers -> Calls]
      BY <2>2, <1>1 DEF StartAccept, TypeOK
    <2>4. /\ runs' \in [RunIDs -> Runs]
          /\ \A id \in RunIDs : runs'[id].sample = runs[id].sample
      BY <2>1, <1>1 DEF StartAccept, TypeOK, Runs
    <2>5. state' \in [status : Statuses, options : StartOptions \cup {Nil},
                      startedAt : RunIDs \cup {Nil},
                      stoppedAt : RunIDs \cup {Nil}, error : Errors]
      BY <2>1, <1>1 DEF StartAccept, Statuses, Errors
    <2>. QED BY <2>1, <2>3, <2>4, <2>5, <1>1, ZeroSampleType
             DEF StartAccept, ResetSample, TypeOK
  <1>2. ASSUME NEW c \in Callers, RunnerStartSucceeds(c)
        PROVE  TypeOK'
    <2>1. calls[c] \in Calls
      BY DEF TypeOK
    <2>2. calls' \in [Callers -> Calls]
      BY <2>1, <1>2 DEF RunnerStartSucceeds, TypeOK, Calls
    <2>3. ASSUME NEW id \in RunIDs
          PROVE  LET r == [runs[id] EXCEPT !.phase = "active", !.config = calls[c].options]
                 IN  r \in Runs /\ r.sample = runs[id].sample
      BY <2>1 DEF TypeOK, Runs, Calls
    <2>4. /\ runs' \in [RunIDs -> Runs]
          /\ \A id \in RunIDs : runs'[id].sample = runs[id].sample
      BY <2>3, <1>2 DEF RunnerStartSucceeds, TypeOK
    <2>. QED BY <2>2, <2>4, <1>2 DEF RunnerStartSucceeds, TypeOK
  <1>3. ASSUME NEW c \in Callers, NEW err \in {"canceled", "setup"},
               RunnerStartFails(c, err)
        PROVE  TypeOK'
    <2>1. calls[c] \in Calls /\ err \in Errors
      BY DEF TypeOK, Errors
    <2>2. calls' \in [Callers -> Calls]
      BY <2>1, <1>3 DEF RunnerStartFails, TypeOK, Calls
    <2>3. ASSUME NEW id \in RunIDs
          PROVE  LET r == [runs[id] EXCEPT !.phase = "ended", !.err = err]
                 IN  r \in Runs /\ r.sample = runs[id].sample
      BY <2>1 DEF TypeOK, Runs, Calls
    <2>4. /\ runs' \in [RunIDs -> Runs]
          /\ \A id \in RunIDs : runs'[id].sample = runs[id].sample
      BY <2>3, <1>3 DEF RunnerStartFails, TypeOK
    <2>. QED BY <2>2, <2>4, <1>3 DEF RunnerStartFails, TypeOK
  <1>4. ASSUME NEW c \in Callers, StartInstall(c)
        PROVE  TypeOK'
    <2>1. calls[c] \in Calls /\ NoCall \in Calls
      BY DEF TypeOK, NoCall, Calls, Errors
    <2>2. calls' \in [Callers -> Calls]
      BY <2>1, <1>4 DEF StartInstall, TypeOK
    <2>3. runID = calls[c].id /\ runID \in RunIDs
      BY <1>4 DEF StartInstall, Ownership, CallerOwns, OwnedByCaller,
             InStart, TypeOK
    <2>4. state' \in [status : Statuses, options : StartOptions \cup {Nil},
                      startedAt : RunIDs \cup {Nil},
                      stoppedAt : RunIDs \cup {Nil}, error : Errors]
      BY <2>3, <1>4 DEF StartInstall, TypeOK, Statuses, Errors
    <2>. QED BY <2>2, <2>3, <2>4, <1>4 DEF StartInstall, SpawnWaiter, TypeOK
  <1>5. ASSUME NEW c \in Callers, FinishStartFailure(c)
        PROVE  TypeOK'
    <2>1. calls[c] \in Calls /\ NoCall \in Calls
      BY DEF TypeOK, NoCall, Calls, Errors
    <2>2. calls' \in [Callers -> Calls]
      BY <2>1, <1>5 DEF FinishStartFailure, TypeOK
    <2>3. runID = calls[c].id /\ runID \in RunIDs
      BY <1>5 DEF FinishStartFailure, Ownership, CallerOwns, OwnedByCaller,
             InStart, TypeOK
    <2>4. calls[c].options \in StartOptions \cup {Nil} /\ calls[c].err \in Errors
      BY <2>1 DEF Calls
    <2>5. state' \in [status : Statuses, options : StartOptions \cup {Nil},
                      startedAt : RunIDs \cup {Nil},
                      stoppedAt : RunIDs \cup {Nil}, error : Errors]
      <3>1. CASE state.status = "stopping" /\ calls[c].err = "canceled"
        BY <2>3, <2>4, <3>1, <1>5
        DEF FinishStartFailure, TypeOK, Statuses, Errors
      <3>2. CASE ~(state.status = "stopping" /\ calls[c].err = "canceled")
        BY <2>3, <2>4, <3>2, <1>5 DEF FinishStartFailure, Statuses
      <3>. QED BY <3>1, <3>2
    <2>. QED BY <2>2, <2>3, <2>5, <1>5, ZeroSampleType
             DEF FinishStartFailure, ResetSample, TypeOK
  <1>6. ASSUME NEW a \in AlterRequests, Alter(a)
        PROVE  TypeOK'
    <2>1. a \in AlterOptions /\ run \in RunIDs
      BY <1>6, RequestsAssumption DEF Alter, TypeOK
    <2>2. state.options \in StartOptions /\ runs[run].config \in StartOptions
      BY <1>6 DEF Alter, Ownership, WaiterOwns, ActiveIsOwned, CallerOwns,
         OwnedByCaller, ActiveStatuses
    <2>3. /\ Altered(state.options, a) \in StartOptions
          /\ RunAltered(runs[run].config, a) \in StartOptions
      BY <2>1, <2>2, AlteredType
    <2>4. state' \in [status : Statuses, options : StartOptions \cup {Nil},
                      startedAt : RunIDs \cup {Nil},
                      stoppedAt : RunIDs \cup {Nil}, error : Errors]
      BY <2>3, <1>6 DEF Alter, TypeOK
    <2>5. /\ runs' \in [RunIDs -> Runs]
          /\ \A id \in RunIDs : runs'[id].sample = runs[id].sample
      BY <2>1, <2>3, <1>6 DEF Alter, TypeOK, Runs
    <2>. QED BY <2>4, <2>5, <1>6 DEF Alter, TypeOK
  <1>7. ASSUME Stop
        PROVE  TypeOK'
    <2>1. CASE UNCHANGED vars
      BY <2>1 DEF TypeOK, vars
    <2>2. CASE state.status \in {"starting", "running"}
      <3>1. state' \in [status : Statuses, options : StartOptions \cup {Nil},
                        startedAt : RunIDs \cup {Nil},
                        stoppedAt : RunIDs \cup {Nil}, error : Errors]
        BY <2>2, <1>7 DEF Stop, TypeOK, Statuses
      <3>2. cancel \in RunIDs
        BY <2>2 DEF Ownership, ActiveIsOwned, ActiveStatuses, TypeOK
      <3>3. /\ runs' \in [RunIDs -> Runs]
            /\ \A id \in RunIDs : runs'[id].sample = runs[id].sample
        BY <2>2, <3>2, <1>7 DEF Stop, Cancelled, TypeOK, Runs
      <3>. QED BY <2>2, <3>1, <3>3, <1>7 DEF Stop, TypeOK
    <2>. QED BY <2>1, <2>2, <1>7 DEF Stop
  <1>8. ASSUME NEW id \in RunIDs, WaitForRun(id)
        PROVE  TypeOK'
    <2>1. runID = id
      BY <1>8 DEF WaitForRun, Ownership, WaiterOwns
    <2>2. runs[id] \in Runs
      BY DEF TypeOK
    <2>3. runs[id].err \in Errors /\ runs[id].sample \in Samples
      BY <2>2 DEF Runs
    <2>4. state' \in [status : Statuses, options : StartOptions \cup {Nil},
                      startedAt : RunIDs \cup {Nil},
                      stoppedAt : RunIDs \cup {Nil}, error : Errors]
      BY <2>1, <2>3, <1>8
      DEF WaitForRun, FinalStatus, FinalError, TypeOK, Statuses, Errors
    <2>. QED BY <2>1, <2>3, <2>4, <1>8 DEF WaitForRun, Retained, TypeOK
  <1>9. ASSUME NEW id \in RunIDs, RunOperates(id)
        PROVE  TypeOK'
    <2>1. PICK outcome \in {"ok", "failed"}, window \in {"warmup", "measured"} :
             runs' = [runs EXCEPT ![id].sample = Record(@, outcome, window)]
      BY <1>9 DEF RunOperates
    <2>2. runs[id] \in Runs /\ runs[id].sample.failed <= runs[id].sample.total
      BY DEF TypeOK
    <2>3. runs[id].sample \in Samples
      BY <2>2 DEF Runs
    <2>. DEFINE s == Record(runs[id].sample, outcome, window)
    <2>4. s \in Samples /\ s.failed <= s.total
      BY <2>2, <2>3, RecordType
    <2>. HIDE DEF s
    <2>5. runs' = [runs EXCEPT ![id].sample = s]
      BY <2>1 DEF s
    <2>6. /\ runs' \in [RunIDs -> Runs]
          /\ \A i \in RunIDs : runs'[i].sample.failed <= runs'[i].sample.total
      BY <2>4, <2>5 DEF TypeOK, Runs
    <2>. QED BY <2>6, <1>9 DEF RunOperates, TypeOK
  <1>10. ASSUME NEW id \in RunIDs, NEW err \in {"", "canceled", "workload"},
                RunEnds(id, err)
         PROVE  TypeOK'
    <2>2. runs[id] \in Runs /\ runs[id].sample.failed <= runs[id].sample.total
      BY DEF TypeOK
    <2>3. runs[id].sample \in Samples
      BY <2>2 DEF Runs
    <2>4. runs[id].sample.latestError \in Errors /\ err \in Errors
      BY <2>3 DEF Samples, Errors
    <2>5. PICK text \in Errors :
             runs' = [runs EXCEPT ![id] = EndedRun(@, err, text)]
      BY <2>4, <1>10 DEF RunEnds, Errors
    <2>. DEFINE r == EndedRun(runs[id], err, text)
    <2>6. r \in Runs /\ r.sample.failed <= r.sample.total
      BY <2>2, <2>4, EndedRunType
    <2>. HIDE DEF r
    <2>7. runs' = [runs EXCEPT ![id] = r]
      BY <2>5 DEF r
    <2>8. /\ runs' \in [RunIDs -> Runs]
          /\ \A i \in RunIDs : runs'[i].sample.failed <= runs'[i].sample.total
      BY <2>6, <2>7 DEF TypeOK
    <2>. QED BY <2>8, <1>10 DEF RunEnds, TypeOK
  <1>11. CASE UNCHANGED vars
    BY <1>11 DEF TypeOK, vars
  <1>. QED BY <1>1, <1>2, <1>3, <1>4, <1>5, <1>6, <1>7, <1>8, <1>9, <1>10,
              <1>11 DEF Next

-----------------------------------------------------------------------------
LEMMA RunNumbers ==
    ASSUME TypeOK
    PROVE  /\ runID \in 0..MaxRuns /\ MaxRuns \in Nat
           /\ RunIDs \subseteq Nat \ {0}
           /\ \A id \in RunIDs : id < runID \/ id = runID \/ id > runID
  BY BoundsAssumption DEF TypeOK, RunIDs, NoRun

LEMMA PhasesTable ==
    /\ PhasesAt("setup") = {"setup"}
    /\ PhasesAt("up") = {"active", "ended"}
    /\ PhasesAt("down") = {"ended"}
  BY DEF PhasesAt

LEMMA InitOwnership == Init => Ownership
  <1>. SUFFICES ASSUME Init PROVE Ownership
    OBVIOUS
  <1>1. \A c \in Callers : calls[c].pc = "out"
    BY DEF Init, NoCall
  <1>a. \A id \in RunIDs : ~(id < 0)
    BY BoundsAssumption DEF RunIDs
  <1>2. \A id \in RunIDs : ~(id < 0) /\ runs[id] = NoRunYet
    BY <1>a DEF Init
  <1>3. CallerOwns /\ WaiterOwns
    BY <1>1 DEF CallerOwns, WaiterOwns, InStart, Init
  <1>4. ActiveIsOwned /\ RestIsQuiet
    BY DEF ActiveIsOwned, RestIsQuiet, ActiveStatuses, Init, NoRun
  <1>5. HistoryIsOver
    BY <1>2 DEF HistoryIsOver, Init
  <1>. QED BY <1>3, <1>4, <1>5 DEF Ownership

(***************************************************************************)
(* What ownership says when no run is under way.                           *)
(***************************************************************************)
LEMMA NobodyAtRest ==
    ASSUME TypeOK, Ownership, state.status \notin ActiveStatuses
    PROVE  /\ \A c \in Callers : ~InStart(c)
           /\ waiters = {}
           /\ \A id \in RunIDs : id <= runID => runs[id].phase = "ended"
  <1>1. \A c \in Callers : ~InStart(c)
    BY DEF Ownership, CallerOwns, OwnedByCaller, ActiveStatuses
  <1>2. waiters = {}
    BY DEF Ownership, WaiterOwns, ActiveStatuses
  <1>3. ASSUME NEW id \in RunIDs, id <= runID
        PROVE  runs[id].phase = "ended"
    <2>1. id = runID \/ id < runID
      BY <1>3, BoundsAssumption DEF RunIDs, TypeOK, NoRun
    <2>. QED BY <1>3, <2>1, BoundsAssumption
             DEF Ownership, RestIsQuiet, HistoryIsOver, RunIDs, NoRun
  <1>. QED BY <1>1, <1>2, <1>3

LEMMA StartAcceptOwnership ==
    ASSUME TypeOK, Ownership, NEW c \in Callers, NEW o \in StartRequests,
           StartAccept(c, o)
    PROVE  Ownership'
  <1>. USE DEF NoRun
  <1>. DEFINE n == runID + 1
  <1>1. /\ \A d \in Callers : calls[d].pc = "out"
        /\ waiters = {}
        /\ \A id \in RunIDs : id <= runID => runs[id].phase = "ended"
    BY NobodyAtRest DEF StartAccept, InStart
  <1>a. runID < MaxRuns
    BY DEF StartAccept
  <1>2. n \in RunIDs /\ runID \in Nat /\ n > runID /\ n # NoRun
    BY <1>a, RunNumbers DEF RunIDs
  <1>b. runs' = [runs EXCEPT ![n].phase = "setup"]
    BY DEF StartAccept
  <1>3. runs[n] = NoRunYet
    BY <1>2 DEF Ownership, HistoryIsOver
  <1>4. /\ runID' = n /\ cancel' = n /\ run' = NoRun /\ waiters' = {}
        /\ state'.status = "starting" /\ state'.options = o
    BY <1>1 DEF StartAccept
  <1>5. /\ calls'[c].pc = "setup" /\ calls'[c].id = n /\ calls'[c].options = o
        /\ \A d \in Callers : d # c => calls'[d].pc = "out"
    BY <1>1 DEF StartAccept, TypeOK
  <1>6. /\ runs'[n].phase = "setup" /\ runs'[n].ctx = "live"
        /\ runs'[n].config = Nil
        /\ \A id \in RunIDs : id # n => runs'[id] = runs[id]
    <2>. HIDE DEF n
    <2>1. runs'[n] = [runs[n] EXCEPT !.phase = "setup"]
      BY <1>2, <1>b DEF TypeOK
    <2>2. runs'[n] = [NoRunYet EXCEPT !.phase = "setup"]
      BY <2>1, <1>3
    <2>3. \A id \in RunIDs : id # n => runs'[id] = runs[id]
      BY <1>b DEF TypeOK
    <2>. QED BY <2>2, <2>3 DEF NoRunYet
  <1>7. o \in StartOptions /\ validateStartOptions(o)
    BY RequestsAssumption
  <1>. HIDE DEF n
  <1>8. CallerOwns'
    <2>. SUFFICES ASSUME NEW d \in Callers, InStart(d)'
                  PROVE  OwnedByCaller(d)'
      BY DEF CallerOwns
    <2>1. d = c
      BY <1>5 DEF InStart
    <2>. QED BY <2>1, <1>2, <1>4, <1>5, <1>6, <1>7, PhasesTable
             DEF OwnedByCaller, InStart
  <1>9. WaiterOwns' /\ RestIsQuiet'
    BY <1>4 DEF WaiterOwns, RestIsQuiet, ActiveStatuses
  <1>10. ActiveIsOwned'
    BY <1>2, <1>4, <1>5, <1>6 DEF ActiveIsOwned, InStart
  <1>11. HistoryIsOver'
    <2>. SUFFICES ASSUME NEW id \in RunIDs
                  PROVE  /\ id > n => runs'[id] = NoRunYet
                         /\ id < n => runs'[id].phase = "ended"
      BY <1>4 DEF HistoryIsOver
    <2>1. id \in Nat /\ (id > n => id > runID) /\ (id < n => id <= runID)
      BY <1>2 DEF n, RunIDs
    <2>. QED BY <2>1, <1>1, <1>2, <1>6 DEF Ownership, HistoryIsOver
  <1>. QED BY <1>8, <1>9, <1>10, <1>11 DEF Ownership

(***************************************************************************)
(* What ownership says of a caller inside Start: its run is the current    *)
(* one, and nobody else has a hand in it.                                  *)
(***************************************************************************)
LEMMA CallerFacts ==
    ASSUME TypeOK, Ownership, NEW c \in Callers, calls[c].pc # "out"
    PROVE  /\ OwnedByCaller(c)
           /\ runID \in RunIDs
           /\ calls[c].id = runID
           /\ \A d \in Callers : d # c => calls[d].pc = "out"
           /\ state.status \in ActiveStatuses
           /\ runID \notin waiters
  BY DEF Ownership, CallerOwns, OwnedByCaller, InStart, TypeOK, ActiveStatuses

(***************************************************************************)
(* runner.Start returning moves its caller on and its run along.           *)
(***************************************************************************)
LEMMA RunnerReturnOwnership ==
    ASSUME TypeOK, Ownership, NEW c \in Callers, calls[c].pc = "setup",
           \/ RunnerStartSucceeds(c)
           \/ \E err \in {"canceled", "setup"} : RunnerStartFails(c, err)
    PROVE  Ownership'
  <1>. USE DEF NoRun
  <1>1. /\ OwnedByCaller(c) /\ runID \in RunIDs /\ calls[c].id = runID
        /\ \A d \in Callers : d # c => calls[d].pc = "out"
        /\ state.status \in ActiveStatuses
    BY CallerFacts
  <1>2. UNCHANGED <<state, sample, run, cancel, runID, waiters>>
    BY DEF RunnerStartSucceeds, RunnerStartFails
  <1>. DEFINE Moved == /\ OwnedByCaller(c)'
                       /\ calls'[c].pc # "out"
                       /\ \A d \in Callers : d # c => calls'[d].pc = "out"
                       /\ runs'[runID].ctx = runs[runID].ctx
                       /\ \A id \in RunIDs : id # runID => runs'[id] = runs[id]
  <1>3. ASSUME RunnerStartSucceeds(c) PROVE Moved
    <2>1. /\ calls'[c].pc = "up" /\ calls'[c].id = calls[c].id
          /\ calls'[c].options = calls[c].options
          /\ \A d \in Callers : d # c => calls'[d].pc = "out"
      BY <1>1, <1>3 DEF RunnerStartSucceeds, TypeOK, Calls
    <2>2. /\ runs'[runID].phase = "active" /\ runs'[runID].ctx = runs[runID].ctx
          /\ runs'[runID].config = calls[c].options
          /\ \A id \in RunIDs : id # runID => runs'[id] = runs[id]
      BY <1>1, <1>3 DEF RunnerStartSucceeds, TypeOK, Runs
    <2>3. OwnedByCaller(c)'
      BY <2>1, <2>2, <1>1, <1>2, PhasesTable DEF OwnedByCaller, InStart
    <2>. QED BY <2>1, <2>2, <2>3
  <1>4. ASSUME NEW err \in {"canceled", "setup"}, RunnerStartFails(c, err)
        PROVE  Moved
    <2>1. /\ calls'[c].pc = "down" /\ calls'[c].id = calls[c].id
          /\ calls'[c].options = calls[c].options
          /\ \A d \in Callers : d # c => calls'[d].pc = "out"
      BY <1>1, <1>4 DEF RunnerStartFails, TypeOK, Calls
    <2>2. /\ runs'[runID].phase = "ended" /\ runs'[runID].ctx = runs[runID].ctx
          /\ runs'[runID].config = runs[runID].config
          /\ \A id \in RunIDs : id # runID => runs'[id] = runs[id]
      BY <1>1, <1>4 DEF RunnerStartFails, TypeOK, Runs
    <2>3. runs[runID].config = Nil
      BY <1>1 DEF OwnedByCaller
    <2>4. OwnedByCaller(c)'
      BY <2>1, <2>2, <2>3, <1>1, <1>2, PhasesTable DEF OwnedByCaller, InStart
    <2>. QED BY <2>1, <2>2, <2>4
  <1>5. Moved
    BY <1>3, <1>4
  <1>6. CallerOwns'
    BY <1>5 DEF CallerOwns, InStart
  <1>7. WaiterOwns' /\ RestIsQuiet'
    BY <1>1, <1>2 DEF WaiterOwns, RestIsQuiet, OwnedByCaller, ActiveStatuses
  <1>8. ActiveIsOwned'
    BY <1>1, <1>2, <1>5 DEF Ownership, ActiveIsOwned, InStart
  <1>9. HistoryIsOver'
    BY <1>2, <1>5, RunNumbers DEF Ownership, HistoryIsOver
  <1>. QED BY <1>6, <1>7, <1>8, <1>9 DEF Ownership

(***************************************************************************)
(* StartInstall hands the run over to a waitForRun goroutine.              *)
(***************************************************************************)
LEMMA StartInstallOwnership ==
    ASSUME TypeOK, Ownership, NEW c \in Callers, StartInstall(c)
    PROVE  Ownership'
  <1>. USE DEF NoRun
  <1>1. /\ OwnedByCaller(c) /\ runID \in RunIDs /\ calls[c].id = runID
        /\ \A d \in Callers : d # c => calls[d].pc = "out"
        /\ state.status \in ActiveStatuses
        /\ calls[c].pc = "up"
    BY CallerFacts DEF StartInstall
  <1>2. /\ run' = runID /\ waiters' = waiters \cup {runID}
        /\ UNCHANGED <<sample, cancel, runID, runs>>
    BY <1>1 DEF StartInstall, SpawnWaiter
  <1>3. \A d \in Callers : calls'[d].pc = "out"
    BY <1>1 DEF StartInstall, NoCall, TypeOK
  <1>4. /\ state'.status = IF state.status = "starting" THEN "running"
                                                        ELSE state.status
        /\ state'.options = state.options
    BY <1>1 DEF StartInstall, TypeOK
  <1>5. /\ waiters = {} /\ runs[runID].phase \in {"active", "ended"}
        /\ runs[runID].config = state.options /\ state.options \in StartOptions
        /\ state.status \in {"starting", "stopping"}
    BY <1>1, PhasesTable DEF OwnedByCaller
  <1>6. CallerOwns' /\ RestIsQuiet'
    BY <1>3, <1>4, <1>5 DEF CallerOwns, InStart, RestIsQuiet, ActiveStatuses
  <1>7. WaiterOwns'
    BY <1>2, <1>4, <1>5 DEF WaiterOwns
  <1>8. ActiveIsOwned'
    BY <1>1, <1>2, <1>4, <1>5 DEF Ownership, ActiveIsOwned, ActiveStatuses
  <1>9. HistoryIsOver'
    BY <1>2 DEF Ownership, HistoryIsOver
  <1>. QED BY <1>6, <1>7, <1>8, <1>9 DEF Ownership

(***************************************************************************)
(* finishStartFailure leaves nobody responsible, and the run has ended.    *)
(***************************************************************************)
LEMMA FinishStartFailureOwnership ==
    ASSUME TypeOK, Ownership, NEW c \in Callers, FinishStartFailure(c)
    PROVE  Ownership'
  <1>. USE DEF NoRun
  <1>1. /\ OwnedByCaller(c) /\ runID \in RunIDs /\ calls[c].id = runID
        /\ \A d \in Callers : d # c => calls[d].pc = "out"
        /\ calls[c].pc = "down"
    BY CallerFacts DEF FinishStartFailure
  <1>2. /\ run' = NoRun /\ UNCHANGED <<runID, waiters, runs>>
    BY <1>1 DEF FinishStartFailure
  <1>3. \A d \in Callers : calls'[d].pc = "out"
    BY <1>1 DEF FinishStartFailure, NoCall, TypeOK
  <1>4. state'.status \in {"stopped", "failed"}
    <2>1. CASE state.status = "stopping" /\ calls[c].err = "canceled"
      BY <1>1, <2>1 DEF FinishStartFailure, TypeOK
    <2>2. CASE ~(state.status = "stopping" /\ calls[c].err = "canceled")
      BY <1>1, <2>2 DEF FinishStartFailure
    <2>. QED BY <2>1, <2>2
  <1>5. waiters = {} /\ runs[runID].phase = "ended"
    BY <1>1, PhasesTable DEF OwnedByCaller
  <1>6. CallerOwns' /\ WaiterOwns'
    BY <1>2, <1>3, <1>5 DEF CallerOwns, WaiterOwns, InStart
  <1>7. ActiveIsOwned' /\ RestIsQuiet'
    BY <1>2, <1>4, <1>5 DEF ActiveIsOwned, RestIsQuiet, ActiveStatuses
  <1>8. HistoryIsOver'
    BY <1>2 DEF Ownership, HistoryIsOver
  <1>. QED BY <1>6, <1>7, <1>8 DEF Ownership

(***************************************************************************)
(* waitForRun does the same for a run that had come up.                    *)
(***************************************************************************)
LEMMA WaitForRunOwnership ==
    ASSUME TypeOK, Ownership, NEW id \in RunIDs, WaitForRun(id)
    PROVE  Ownership'
  <1>. USE DEF NoRun
  <1>1. id = runID /\ waiters = {runID} /\ runs[runID].phase = "ended"
    BY DEF WaitForRun, WaitReturns, Ownership, WaiterOwns
  <1>2. \A d \in Callers : calls[d].pc = "out"
    BY <1>1 DEF Ownership, CallerOwns, OwnedByCaller, InStart
  <1>3. /\ run' = NoRun /\ waiters' = {}
        /\ UNCHANGED <<runID, calls, runs>>
    BY <1>1 DEF WaitForRun
  <1>4. state'.status \in {"stopped", "failed"}
    BY <1>1 DEF WaitForRun, FinalStatus, TypeOK
  <1>5. CallerOwns' /\ WaiterOwns'
    BY <1>2, <1>3 DEF CallerOwns, WaiterOwns, InStart
  <1>6. ActiveIsOwned' /\ RestIsQuiet'
    BY <1>1, <1>3, <1>4 DEF ActiveIsOwned, RestIsQuiet, ActiveStatuses
  <1>7. HistoryIsOver'
    BY <1>3 DEF Ownership, HistoryIsOver
  <1>. QED BY <1>5, <1>6, <1>7 DEF Ownership

(***************************************************************************)
(* Alter changes the options on both sides, in the same way.               *)
(***************************************************************************)
LEMMA AlterOwnership ==
    ASSUME TypeOK, Ownership, NEW a \in AlterRequests, Alter(a)
    PROVE  Ownership'
  <1>. USE DEF NoRun
  <1>1. /\ state.status = "running" /\ run # NoRun
        /\ UNCHANGED <<sample, run, cancel, runID, calls, waiters>>
    BY DEF Alter
  <1>2. runID \in waiters /\ \A c \in Callers : ~InStart(c)
    BY <1>1 DEF Ownership, ActiveIsOwned, CallerOwns, OwnedByCaller,
       ActiveStatuses
  <1>3. /\ run = runID /\ runID \in RunIDs
        /\ state.options = runs[runID].config /\ state.options \in StartOptions
        /\ runs[runID].phase \in {"active", "ended"}
    BY <1>2 DEF Ownership, WaiterOwns, TypeOK
  <1>4. a \in AlterOptions
    BY RequestsAssumption
  <1>. DEFINE o == Altered(state.options, a)
  <1>5. o \in StartOptions /\ o = RunAltered(runs[runID].config, a)
    BY <1>3, <1>4, AlteredType
  <1>. HIDE DEF o
  <1>6. state'.status = state.status /\ state'.options = o
    BY DEF Alter, TypeOK, o
  <1>7. /\ runs'[runID].config = o
        /\ runs'[runID].phase = runs[runID].phase
        /\ runs'[runID].ctx = runs[runID].ctx
        /\ \A id \in RunIDs : id # runID => runs'[id] = runs[id]
    BY <1>3, <1>5 DEF Alter, TypeOK, Runs
  <1>8. CallerOwns' /\ RestIsQuiet'
    BY <1>1, <1>2, <1>6 DEF CallerOwns, InStart, RestIsQuiet, ActiveStatuses
  <1>9. WaiterOwns'
    BY <1>1, <1>3, <1>5, <1>6, <1>7 DEF Ownership, WaiterOwns
  <1>10. ActiveIsOwned'
    BY <1>1, <1>2, <1>6, <1>7 DEF Ownership, ActiveIsOwned, ActiveStatuses
  <1>11. HistoryIsOver'
    BY <1>1, <1>7, RunNumbers DEF Ownership, HistoryIsOver
  <1>. QED BY <1>8, <1>9, <1>10, <1>11 DEF Ownership

(***************************************************************************)
(* Stop turns the status and the context together.                         *)
(***************************************************************************)
LEMMA StopOwnership ==
    ASSUME TypeOK, Ownership, Stop, state.status \in {"starting", "running"}
    PROVE  Ownership'
  <1>. USE DEF NoRun
  <1>1. /\ runID \in RunIDs /\ cancel = runID
        /\ (\E c \in Callers : InStart(c)) \/ runID \in waiters
    BY DEF Ownership, ActiveIsOwned, ActiveStatuses, TypeOK
  <1>2. /\ UNCHANGED <<sample, run, cancel, runID, calls, waiters>>
        /\ state'.status = "stopping" /\ state'.options = state.options
        /\ runs' = Cancelled(runID)
    BY <1>1, RunNumbers DEF Stop, TypeOK
  <1>3. /\ runs'[runID].ctx = "done"
        /\ runs'[runID].phase = runs[runID].phase
        /\ runs'[runID].config = runs[runID].config
        /\ \A id \in RunIDs : id # runID => runs'[id] = runs[id]
    BY <1>1, <1>2 DEF Cancelled, TypeOK, Runs
  <1>4. CallerOwns'
    <2>. SUFFICES ASSUME NEW c \in Callers, InStart(c)'
                  PROVE  OwnedByCaller(c)'
      BY DEF CallerOwns
    <2>1. OwnedByCaller(c)
      BY <1>2 DEF Ownership, CallerOwns, InStart
    <2>. QED BY <2>1, <1>2, <1>3 DEF OwnedByCaller, InStart
  <1>5. WaiterOwns' /\ RestIsQuiet'
    BY <1>2, <1>3 DEF Ownership, WaiterOwns, RestIsQuiet, ActiveStatuses
  <1>6. ActiveIsOwned'
    BY <1>1, <1>2, <1>3, RunNumbers DEF ActiveIsOwned, InStart
  <1>7. HistoryIsOver'
    BY <1>2, <1>3, RunNumbers DEF Ownership, HistoryIsOver
  <1>. QED BY <1>4, <1>5, <1>6, <1>7 DEF Ownership

(***************************************************************************)
(* What a run does by itself: it records operations and it ends.           *)
(***************************************************************************)
LEMMA RunStepOwnership ==
    ASSUME TypeOK, Ownership, NEW id \in RunIDs,
           \/ RunOperates(id)
           \/ \E err \in {"", "canceled", "workload"} : RunEnds(id, err)
    PROVE  Ownership'
  <1>. USE DEF NoRun
  <1>1. /\ UNCHANGED <<state, sample, run, cancel, runID, calls, waiters>>
        /\ runs[id].phase = "active"
    BY DEF RunOperates, RunEnds
  <1>2. /\ runs'[id].phase \in {"active", "ended"}
        /\ runs'[id].ctx = runs[id].ctx /\ runs'[id].config = runs[id].config
        /\ \A i \in RunIDs : i # id => runs'[i] = runs[i]
    <2>0. runs[id] \in Runs
      BY DEF TypeOK
    <2>1. CASE RunOperates(id)
      <3>1. PICK s : runs' = [runs EXCEPT ![id].sample = s]
        BY <2>1 DEF RunOperates
      <3>2. runs'[id] = [runs[id] EXCEPT !.sample = s]
        BY <3>1 DEF TypeOK
      <3>. QED BY <2>0, <3>1, <3>2, <1>1 DEF TypeOK, Runs
    <2>2. ASSUME NEW err \in {"", "canceled", "workload"}, RunEnds(id, err)
          PROVE  /\ runs'[id].phase \in {"active", "ended"}
                 /\ runs'[id].ctx = runs[id].ctx
                 /\ runs'[id].config = runs[id].config
                 /\ \A i \in RunIDs : i # id => runs'[i] = runs[i]
      <3>1. PICK text : runs' = [runs EXCEPT ![id] = EndedRun(@, err, text)]
        BY <2>2 DEF RunEnds
      <3>2. runs'[id] = EndedRun(runs[id], err, text)
        BY <3>1 DEF TypeOK
      <3>3. \A i \in RunIDs : i # id => runs'[i] = runs[i]
        BY <3>1 DEF TypeOK
      <3>4. /\ EndedRun(runs[id], err, text).phase = "ended"
            /\ EndedRun(runs[id], err, text).ctx = runs[id].ctx
            /\ EndedRun(runs[id], err, text).config = runs[id].config
        BY <2>0 DEF EndedRun, Runs
      <3>. QED BY <3>2, <3>3, <3>4
    <2>. QED BY <2>1, <2>2
  <1>3. id = runID
    <2>1. NoRunYet.phase = "none"
      BY DEF NoRunYet
    <2>2. ~(id > runID) /\ ~(id < runID)
      BY <1>1, <2>1 DEF Ownership, HistoryIsOver
    <2>. QED BY <2>2, RunNumbers
  <1>4. CallerOwns'
    <2>. SUFFICES ASSUME NEW c \in Callers, InStart(c)'
                  PROVE  OwnedByCaller(c)'
      BY DEF CallerOwns
    <2>1. OwnedByCaller(c) /\ calls[c].pc # "out"
      BY <1>1 DEF Ownership, CallerOwns, InStart
    <2>2. PhasesAt(calls[c].pc) = {"active", "ended"}
      <3>1. calls[c] \in Calls
        BY DEF TypeOK
      <3>2. calls[c].pc \in {"setup", "up", "down"}
        BY <2>1, <3>1 DEF Calls
      <3>. QED BY <2>1, <3>2, <1>1, <1>3, PhasesTable DEF OwnedByCaller
    <2>. QED BY <2>1, <2>2, <1>1, <1>2, <1>3 DEF OwnedByCaller, InStart
  <1>5. WaiterOwns'
    BY <1>1, <1>2, <1>3 DEF Ownership, WaiterOwns
  <1>6. ActiveIsOwned' /\ RestIsQuiet'
    BY <1>1, <1>2, <1>3 DEF Ownership, ActiveIsOwned, RestIsQuiet, InStart
  <1>7. HistoryIsOver'
    BY <1>1, <1>2, <1>3, RunNumbers DEF Ownership, HistoryIsOver
  <1>. QED BY <1>4, <1>5, <1>6, <1>7 DEF Ownership

LEMMA NextOwnership == TypeOK /\ Ownership /\ [Next]_vars => Ownership'
  <1>. SUFFICES ASSUME TypeOK, Ownership, [Next]_vars PROVE Ownership'
    OBVIOUS
  <1>1. CASE UNCHANGED vars
    BY <1>1 DEF vars, Ownership, CallerOwns, OwnedByCaller, WaiterOwns,
       ActiveIsOwned, RestIsQuiet, HistoryIsOver, InStart
  <1>2. ASSUME NEW c \in Callers, NEW o \in StartRequests, StartAccept(c, o)
        PROVE  Ownership'
    BY <1>2, StartAcceptOwnership
  <1>3. ASSUME NEW c \in Callers,
               \/ RunnerStartSucceeds(c)
               \/ \E err \in {"canceled", "setup"} : RunnerStartFails(c, err)
        PROVE  Ownership'
    <2>1. calls[c].pc = "setup"
      BY <1>3 DEF RunnerStartSucceeds, RunnerStartFails
    <2>. QED BY <1>3, <2>1, RunnerReturnOwnership
  <1>4. ASSUME NEW c \in Callers, StartInstall(c) PROVE Ownership'
    BY <1>4, StartInstallOwnership
  <1>5. ASSUME NEW c \in Callers, FinishStartFailure(c) PROVE Ownership'
    BY <1>5, FinishStartFailureOwnership
  <1>6. ASSUME NEW a \in AlterRequests, Alter(a) PROVE Ownership'
    BY <1>6, AlterOwnership
  <1>7. ASSUME Stop PROVE Ownership'
    BY <1>7, <1>1, StopOwnership DEF Stop
  <1>8. ASSUME NEW id \in RunIDs, WaitForRun(id) PROVE Ownership'
    BY <1>8, WaitForRunOwnership
  <1>9. ASSUME NEW id \in RunIDs,
               \/ RunOperates(id)
               \/ \E err \in {"", "canceled", "workload"} : RunEnds(id, err)
        PROVE  Ownership'
    BY <1>9, RunStepOwnership
  <1>. QED BY <1>1, <1>2, <1>3, <1>4, <1>5, <1>6, <1>7, <1>8, <1>9 DEF Next

-----------------------------------------------------------------------------
(***************************************************************************)
(* The run that holds the database is the current one or there is none.    *)
(***************************************************************************)
BusyIsCurrent ==
    /\ Busy \subseteq {runID}
    /\ runID \in RunIDs /\ runs[runID].phase \in {"setup", "active"}
          => Busy = {runID}
    /\ runID \in RunIDs /\ runs[runID].phase \notin {"setup", "active"}
          => Busy = {}
    /\ runID \notin RunIDs => Busy = {}

LEMMA BusyLemma == TypeOK /\ Ownership => BusyIsCurrent
  <1>. SUFFICES ASSUME TypeOK, Ownership PROVE BusyIsCurrent
    OBVIOUS
  <1>1. NoRunYet.phase = "none"
    BY DEF NoRunYet
  <1>2. \A id \in RunIDs : id # runID => runs[id].phase \in {"none", "ended"}
    BY <1>1, RunNumbers DEF Ownership, HistoryIsOver
  <1>3. \A id \in RunIDs : id \in Busy => id = runID
    BY <1>2 DEF Busy
  <1>4. Busy \subseteq RunIDs
    BY DEF Busy
  <1>. QED BY <1>3, <1>4 DEF Busy, BusyIsCurrent

(***************************************************************************)
(* Types and ownership, together the inductive invariant: neither is       *)
(* inductive alone, since the steps of a handler write at the run number   *)
(* it carries, and only ownership says that this is the current run.       *)
(***************************************************************************)
THEOREM Invariance == Spec => [](TypeOK /\ Ownership)
  <1>1. Init => TypeOK /\ Ownership
    BY InitType, InitOwnership
  <1>2. TypeOK /\ Ownership /\ [Next]_vars => (TypeOK /\ Ownership)'
    BY NextType, NextOwnership
  <1>. QED BY <1>1, <1>2, PTL DEF Spec

(***************************************************************************)
(* Type correctness of the coordinator.                                    *)
(***************************************************************************)
THEOREM TypeCorrect == Spec => []TypeOK
  BY Invariance, PTL

(***************************************************************************)
(* Exactly one goroutine is responsible for the run under way.             *)
(***************************************************************************)
THEOREM OwnershipHolds == Spec => []Ownership
  BY Invariance, PTL

(***************************************************************************)
(* However Start, Stop and waitForRun interleave, at most one run uses the *)
(* database, and it is the current one.                                    *)
(***************************************************************************)
THEOREM NoOverlap == Spec => []RunsNeverOverlap
  <1>1. TypeOK /\ Ownership => RunsNeverOverlap
    BY BusyLemma DEF BusyIsCurrent, RunsNeverOverlap
  <1>. QED BY <1>1, Invariance, PTL

(***************************************************************************)
(* While the status is stopping, the run's context is cancelled.           *)
(***************************************************************************)
THEOREM StopDelivered == Spec => []StopReachesRun
  <1>1. Ownership => StopReachesRun
    BY DEF Ownership, ActiveIsOwned, ActiveStatuses, StopReachesRun
  <1>. QED BY <1>1, Invariance, PTL

-----------------------------------------------------------------------------
(***************************************************************************)
(* Refinement: each step of the coordinator is a step of RunLifecycle or   *)
(* leaves its variables alone.                                             *)
(***************************************************************************)
LEMMA StepRefines ==
    ASSUME TypeOK, Ownership, TypeOK', Ownership', [Next]_vars
    PROVE  [Lifecycle!Next]_(Lifecycle!vars)
  <1>. USE DEF NoRun
  <1>. DEFINE Same == UNCHANGED <<state.status, runID, Busy>>
  <1>0. Same => [Lifecycle!Next]_(Lifecycle!vars)
    BY DEF Lifecycle!vars
  <1>a. BusyIsCurrent /\ BusyIsCurrent'
    BY BusyLemma, PTL
  <1>1. ASSUME NEW c \in Callers, NEW o \in StartRequests, StartAccept(c, o)
        PROVE  Lifecycle!Begin
    <2>1. /\ state.status \notin ActiveStatuses /\ state'.status = "starting"
          /\ runID' = runID + 1
      BY <1>1 DEF StartAccept
    <2>2. Busy = {}
      <3>1. runID \in RunIDs => runs[runID].phase = "ended"
        BY <2>1, NobodyAtRest, RunNumbers
      <3>. QED BY <3>1, <1>a DEF BusyIsCurrent
    <2>3. Busy' = {runID + 1}
      <3>1. runID' \in RunIDs
        BY <2>1, RunNumbers DEF TypeOK
      <3>2. runs'[runID'].phase = "setup"
        BY <2>1, <3>1, <1>1 DEF StartAccept, TypeOK, Runs
      <3>. QED BY <2>1, <3>1, <3>2, <1>a DEF BusyIsCurrent
    <2>. QED BY <2>1, <2>2, <2>3
             DEF Lifecycle!Begin, Lifecycle!ActivePhases, ActiveStatuses
  <1>2. ASSUME NEW c \in Callers, RunnerStartSucceeds(c)
        PROVE  Same
    <2>1. /\ calls[c].id = runID /\ runID \in RunIDs
          /\ runs[runID].phase = "setup"
      BY <1>2, CallerFacts, PhasesTable DEF RunnerStartSucceeds, OwnedByCaller
    <2>2. runs'[runID].phase = "active" /\ UNCHANGED <<state, runID>>
      BY <2>1, <1>2 DEF RunnerStartSucceeds, TypeOK, Runs
    <2>. QED BY <2>1, <2>2, <1>a DEF BusyIsCurrent
  <1>3. ASSUME NEW c \in Callers, NEW err \in {"canceled", "setup"},
               RunnerStartFails(c, err)
        PROVE  Lifecycle!Quiesce
    <2>1. /\ calls[c].id = runID /\ runID \in RunIDs
          /\ runs[runID].phase = "setup"
      BY <1>3, CallerFacts, PhasesTable DEF RunnerStartFails, OwnedByCaller
    <2>2. runs'[runID].phase = "ended" /\ UNCHANGED <<state, runID>>
      BY <2>1, <1>3 DEF RunnerStartFails, TypeOK, Runs
    <2>. QED BY <2>1, <2>2, <1>a DEF BusyIsCurrent, Lifecycle!Quiesce
  <1>4. ASSUME NEW c \in Callers, StartInstall(c)
        PROVE  Same \/ Lifecycle!ComeUp
    <2>1. /\ calls[c].id = runID
          /\ state.status \in {"starting", "stopping"}
      BY <1>4, CallerFacts DEF StartInstall, OwnedByCaller
    <2>2. /\ state'.status = IF state.status = "starting" THEN "running"
                                                          ELSE state.status
          /\ UNCHANGED <<runID, runs>>
      BY <2>1, <1>4 DEF StartInstall, TypeOK
    <2>3. Busy' = Busy
      BY <2>2 DEF Busy
    <2>. QED BY <2>1, <2>2, <2>3 DEF Lifecycle!ComeUp
  <1>5. ASSUME NEW c \in Callers, FinishStartFailure(c)
        PROVE  Lifecycle!Conclude
    <2>1. /\ calls[c].id = runID /\ runID \in RunIDs
          /\ state.status \in {"starting", "stopping"}
          /\ runs[runID].phase = "ended"
      BY <1>5, CallerFacts, PhasesTable DEF FinishStartFailure, OwnedByCaller
    <2>2. UNCHANGED <<runID, runs>>
      BY <1>5 DEF FinishStartFailure
    <2>3. Busy = {} /\ Busy' = {}
      BY <2>1, <2>2, <1>a DEF BusyIsCurrent
    <2>4. CASE state.status = "stopping" /\ calls[c].err = "canceled"
      <3>1. state'.status = "stopped"
        BY <2>1, <2>4, <1>5 DEF FinishStartFailure, TypeOK
      <3>. QED BY <2>2, <2>3, <2>4, <3>1
               DEF Lifecycle!Conclude, Lifecycle!ActivePhases
    <2>5. CASE ~(state.status = "stopping" /\ calls[c].err = "canceled")
      <3>1. state'.status = "failed"
        BY <2>1, <2>5, <1>5 DEF FinishStartFailure
      <3>. QED BY <2>1, <2>2, <2>3, <3>1
               DEF Lifecycle!Conclude, Lifecycle!ActivePhases
    <2>. QED BY <2>4, <2>5
  <1>6. ASSUME NEW a \in AlterRequests, Alter(a)
        PROVE  Same
    <2>1. run \in RunIDs /\ UNCHANGED runID /\ state'.status = state.status
      BY <1>6 DEF Alter, TypeOK
    <2>2. \A id \in RunIDs : runs'[id].phase = runs[id].phase
      BY <2>1, <1>6 DEF Alter, TypeOK, Runs
    <2>. QED BY <2>1, <2>2 DEF Busy
  <1>7. ASSUME Stop
        PROVE  Same \/ Lifecycle!RequestStop
    <2>1. CASE UNCHANGED vars
      BY <2>1 DEF vars, Busy
    <2>2. CASE state.status \in {"starting", "running"}
      <3>1. state'.status = "stopping" /\ UNCHANGED runID
        BY <2>2, <1>7 DEF Stop, TypeOK
      <3>2. \A id \in RunIDs : runs'[id].phase = runs[id].phase
        BY <2>2, <1>7 DEF Stop, Cancelled, TypeOK, Runs
      <3>3. Busy' = Busy
        BY <3>2 DEF Busy
      <3>. QED BY <2>2, <3>1, <3>3 DEF Lifecycle!RequestStop
    <2>. QED BY <2>1, <2>2, <1>7 DEF Stop
  <1>8. ASSUME NEW id \in RunIDs, WaitForRun(id)
        PROVE  Lifecycle!Conclude
    <2>1. /\ id = runID /\ runs[runID].phase = "ended"
          /\ state.status \in {"running", "stopping"}
      BY <1>8 DEF WaitForRun, WaitReturns, Ownership, WaiterOwns
    <2>2. /\ UNCHANGED <<runID, runs>>
          /\ state'.status \in {"stopped", "failed"}
      BY <2>1, <1>8 DEF WaitForRun, FinalStatus, TypeOK
    <2>3. Busy = {} /\ Busy' = {}
      BY <2>1, <2>2, <1>a DEF BusyIsCurrent
    <2>. QED BY <2>1, <2>2, <2>3 DEF Lifecycle!Conclude, Lifecycle!ActivePhases
  <1>9. ASSUME NEW id \in RunIDs, RunOperates(id)
        PROVE  Same
    <2>1. PICK s : runs' = [runs EXCEPT ![id].sample = s]
      BY <1>9 DEF RunOperates
    <2>2. \A i \in RunIDs : runs'[i].phase = runs[i].phase
      BY <2>1 DEF TypeOK, Runs
    <2>3. UNCHANGED <<state, runID>>
      BY <1>9 DEF RunOperates
    <2>. QED BY <2>2, <2>3 DEF Busy
  <1>10. ASSUME NEW id \in RunIDs, NEW err \in {"", "canceled", "workload"},
                RunEnds(id, err)
         PROVE  Lifecycle!Quiesce
    <2>1. PICK text : runs' = [runs EXCEPT ![id] = EndedRun(@, err, text)]
      BY <1>10 DEF RunEnds
    <2>2. UNCHANGED <<state, runID>> /\ runs[id].phase = "active"
      BY <1>10 DEF RunEnds
    <2>3. id \in Busy
      BY <2>2 DEF Busy
    <2>4. id = runID
      BY <2>3, <1>a DEF BusyIsCurrent
    <2>5. runs'[id] = EndedRun(runs[id], err, text) /\ runs[id] \in Runs
      BY <2>1 DEF TypeOK
    <2>6. runs'[id].phase = "ended"
      BY <2>5 DEF EndedRun, Runs
    <2>. QED BY <2>2, <2>4, <2>6, <1>a DEF BusyIsCurrent, Lifecycle!Quiesce
  <1>11. ASSUME UNCHANGED vars
         PROVE  Same
    BY <1>11 DEF vars, Busy
  <1>. QED BY <1>0, <1>1, <1>2, <1>3, <1>4, <1>5, <1>6, <1>7, <1>8, <1>9,
              <1>10, <1>11 DEF Next, Lifecycle!Next

(***************************************************************************)
(* The coordinator implements the life cycle that the API promises: a run  *)
(* is concluded only after it has let go of the database, and only then    *)
(* does the next one begin.                                                *)
(***************************************************************************)
THEOREM Refinement == Spec => ImplementsLifecycle
  <1>1. Init => Lifecycle!Init
    <2>. SUFFICES ASSUME Init PROVE Lifecycle!Init
      OBVIOUS
    <2>1. \A id \in RunIDs : runs[id].phase = "none"
      BY DEF Init, NoRunYet
    <2>2. Busy = {}
      BY <2>1 DEF Busy
    <2>. QED BY <2>2 DEF Init, Lifecycle!Init
  <1>2. TypeOK /\ Ownership /\ TypeOK' /\ Ownership' /\ [Next]_vars
           => [Lifecycle!Next]_(Lifecycle!vars)
    BY StepRefines
  <1>. QED BY <1>1, <1>2, Invariance, PTL
           DEF Spec, ImplementsLifecycle, Lifecycle!Spec
=============================================================================

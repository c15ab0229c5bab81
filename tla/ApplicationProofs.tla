------------------------- MODULE ApplicationProofs -------------------------
(***************************************************************************)
(* Proofs about Application for any number of clients, any requests and    *)
(* any configuration: what the exit status tells, that nobody is cut off   *)
(* unnoticed, that a reply tells what happened to the run, and which       *)
(* bundles of certificates are accepted.                                   *)
(***************************************************************************)
EXTENDS Application, FiniteSums

-----------------------------------------------------------------------------
(***************************************************************************)
(* The inductive invariant of the process: where the main goroutine is     *)
(* determines what it has opened, what the serving goroutine can be doing  *)
(* and which of the failures so far it has yet to hear of.                 *)
(***************************************************************************)
Early == {"parsing", "opening", "listening", "announcing"}

ShuttingDown == {"shutdown", "polling", "awaiting"}

Ending == {"closing", "reporting", "exited"}

\* What belongs to a place of the main goroutine.
InPlace ==
    /\ exit = -1 <=> main # "exited"
    /\ main \in Early => /\ server = "none" /\ inShutdown = "no"
                         /\ failures = {} /\ runErr = {}
    /\ main \in {"parsing", "opening"} => db = "none"
    /\ main \in {"parsing", "opening", "listening"} => listener = "none"
    /\ main \in {"listening", "announcing", "selecting", "closing"}
                \cup ShuttingDown => db = "open"
    /\ main \in {"reporting", "exited"} => db # "open"
    /\ main = "selecting" => inShutdown = "no" /\ runErr = {}
    /\ main \in ShuttingDown => inShutdown = "yes" /\ signalled = "yes"

\* The goroutine of Serve, its listener and its channel.
Serves ==
    /\ serveErrCh \in {<<>>, <<{}>>, <<{"serve"}>>}
    /\ serveErrCh # <<>> => server = "returned"
    /\ serveErrCh = <<{}>> => inShutdown = "yes"
    /\ server = "returned" => listener = "closed"
    /\ server = "accepting" /\ inShutdown = "yes" => listener = "closed"
    /\ server \in {"spawned", "accepting"} /\ inShutdown = "no" =>
          main = "selecting"

\* What the serving goroutine has sent and the main goroutine not received.
Unheard == IF serveErrCh = <<{"serve"}>> THEN {"serve"} ELSE {}

\* No failure is forgotten, and none is made up.
Accounted ==
    /\ main \in {"selecting"} \cup ShuttingDown => failures = runErr \cup Unheard
    /\ main = "awaiting" => runErr = {}
    /\ main \in {"closing", "reporting"} => (failures = {} <=> runErr = {})
    /\ main = "exited" => (exit = 0 <=> failures = {})
    /\ main = "exited" /\ db # "none" => (failures = {} <=> runErr = {})
    /\ main \in Ending /\ db = "none" => failures # {}
    /\ "config" \in failures =>
          main = "exited" /\ exit = 2 /\ db = "none" /\ listener = "none"

\* The main goroutine has nothing to complain about: Shutdown went through.
WentThrough ==
    \/ main = "awaiting"
    \/ main \in Ending /\ runErr = {} /\ db # "none"

Quiet ==
    WentThrough =>
       /\ \A c \in Clients : conn[c] = "none"
       /\ signalled = "yes" /\ inShutdown = "yes"
       /\ server # "accepting"
       /\ main # "awaiting" => server = "returned"

(***************************************************************************)
(* At most one handler is inside Coordinator.Start, it came from a POST,   *)
(* and until it leaves the coordinator is starting or, after a stop,       *)
(* stopping.                                                               *)
(***************************************************************************)
OneStart ==
    /\ \A c \in Clients : conn[c] \in InStart =>
          request[c].method = "POST" /\ phase \in {"starting", "stopping"}
    /\ \A c, d \in Clients : conn[c] \in InStart /\ conn[d] \in InStart => c = d

ProcessInv == InPlace /\ Serves /\ Accounted /\ Quiet

-----------------------------------------------------------------------------
(* Types.                                                                  *)

Statuses == {200, 204, 400, 404, 405, 409, 500, 503}

ConnStates == InHandler \cup {"none", "new", "idle"}

\* The part of ServerTypeOK that is about connections, and the rest.
ConnType ==
    /\ conn \in [Clients -> ConnStates]
    /\ request \in [Clients -> Requests \cup {Nil}]
    /\ gone \subseteq {c \in Clients : conn[c] \in InHandler}
    /\ reply = Nil \/ reply.status \in Statuses

RunType ==
    /\ current \in 0..MaxRuns
    /\ busy \subseteq {current}
    /\ options = Nil \/ validateStartOptions(options)

LEMMA ServerTypeParts == ServerTypeOK <=> ConnType /\ RunType
  BY DEF ServerTypeOK, ConnType, RunType, Statuses, ConnStates

LEMMA StatesDiffer ==
    /\ "handling" \in InHandler /\ "none" \notin InHandler
    /\ "new" \notin InHandler /\ "idle" \notin InHandler
    /\ InStart \subseteq InHandler /\ "handling" \notin InStart
    /\ InSetup \subseteq InStart
    /\ "setup" \in InSetup /\ "doomed" \in InSetup
    /\ "installing" \in InStart /\ "failing" \in InStart
    /\ InHandler \subseteq ConnStates
    /\ "none" \in ConnStates /\ "new" \in ConnStates /\ "idle" \in ConnStates
  BY DEF InHandler, InStart, InSetup, ConnStates

\* A response ends the handler and leaves the other connections alone.
LEMMA RespondFacts ==
    ASSUME ConnType, NEW c \in Clients, NEW status \in Statuses, NEW cause,
           Respond(c, status, cause)
    PROVE  /\ ConnType'
           /\ reply'.status = status
           /\ conn'[c] \in {"none", "idle"}
           /\ \A d \in Clients : d # c => conn'[d] = conn[d] /\ request'[d] = request[d]
           /\ UNCHANGED <<db, inShutdown>>
  <1>1. /\ conn' \in [Clients -> ConnStates] /\ conn'[c] \in {"none", "idle"}
        /\ \A d \in Clients : d # c => conn'[d] = conn[d]
    BY StatesDiffer DEF Respond, ConnType
  <1>2. /\ request' \in [Clients -> Requests \cup {Nil}]
        /\ \A d \in Clients : d # c => request'[d] = request[d]
    BY DEF Respond, ConnType
  <1>3. gone' \subseteq {d \in Clients : conn'[d] \in InHandler}
    BY <1>1 DEF Respond, ConnType
  <1>4. reply'.status = status
    BY DEF Respond
  <1>. QED BY <1>1, <1>2, <1>3, <1>4 DEF ConnType, Respond

LEMMA ErrorStatus == \A cause : statusForBenchmarkError(cause) \in {409, 500}
  BY DEF statusForBenchmarkError

LEMMA RouteStatuses == \A r : RouteStatus(r) \in {0, 204, 404, 405}
  BY DEF RouteStatus

\* The handlers that change something are reached by POST only.
LEMMA ChangesArePosted ==
    ASSUME NEW r, r.path \in {"start", "alter", "stop"}, RouteStatus(r) = 0
    PROVE  r.method = "POST"
  BY DEF RouteStatus, allowMethod, Routes

-----------------------------------------------------------------------------
(* Handlers and the run.                                                   *)

ServerInv == ConnType /\ RunType /\ OneStart

LEMMA InitServer == ServerInit => ServerInv
  <1>. SUFFICES ASSUME ServerInit PROVE ServerInv
    OBVIOUS
  <1>1. ConnType
    BY StatesDiffer DEF ServerInit, ConnType
  <1>2. RunType
    BY ServerAssumption DEF ServerInit, RunType, Run!Init
  <1>3. OneStart
    BY StatesDiffer DEF ServerInit, OneStart
  <1>. QED BY <1>1, <1>2, <1>3 DEF ServerInv

\* A handler that leaves Coordinator.Start, or was never in it, and leaves
\* the phase alone.
LEMMA RespondKeepsOneStart ==
    ASSUME ServerInv, NEW c \in Clients, NEW status \in Statuses, NEW cause,
           Respond(c, status, cause), UNCHANGED phase
    PROVE  OneStart'
  <1>1. /\ conn'[c] \notin InStart
        /\ \A d \in Clients : d # c => conn'[d] = conn[d] /\ request'[d] = request[d]
    BY RespondFacts, StatesDiffer DEF ServerInv
  <1>. QED BY <1>1 DEF ServerInv, OneStart

\* Only one handler is in Coordinator.Start; when it is out nobody is.
LEMMA LastOneOut ==
    ASSUME ServerInv, NEW c \in Clients, conn[c] \in InStart,
           NEW status \in Statuses, NEW cause, Respond(c, status, cause)
    PROVE  \A d \in Clients : conn'[d] \notin InStart
  <1>1. /\ conn'[c] \notin InStart
        /\ \A d \in Clients : d # c => conn'[d] = conn[d]
    BY RespondFacts, StatesDiffer DEF ServerInv
  <1>. QED BY <1>1 DEF ServerInv, OneStart

\* What a step of the server may do beside its own invariant.
Aside ==
    /\ UNCHANGED <<db, inShutdown>>
    /\ \A c \in Clients : conn[c] = "none" => conn'[c] = "none"

\* Responses that leave the run and its options alone.
LEMMA PlainResponse ==
    ASSUME ServerInv, NEW c \in Clients, NEW status \in Statuses, NEW cause,
           Respond(c, status, cause), UNCHANGED <<runVars, options>>,
           conn[c] # "none"
    PROVE  ServerInv' /\ Aside
  <1>1. ConnType' /\ Aside
    BY RespondFacts DEF ServerInv, Aside
  <1>2. RunType'
    BY DEF ServerInv, RunType, runVars, validateStartOptions
  <1>3. OneStart'
    BY RespondKeepsOneStart DEF runVars
  <1>. QED BY <1>1, <1>2, <1>3 DEF ServerInv

LEMMA ConnStep ==
    ASSUME ServerInv, NEW c \in Clients, ReadRequest(c) \/ HangUp(c)
    PROVE  ServerInv' /\ Aside
  <1>1. RunType' /\ UNCHANGED <<db, inShutdown, phase>>
    BY DEF ServerInv, RunType, runVars, validateStartOptions, ReadRequest, HangUp
  <1>2. CASE ReadRequest(c)
    <2>1. /\ conn[c] \in {"new", "idle"} /\ conn' = [conn EXCEPT ![c] = "handling"]
          /\ conn \in [Clients -> ConnStates]
      BY <1>2 DEF ReadRequest, ServerInv, ConnType
    <2>2. conn' \in [Clients -> ConnStates] /\ conn'[c] = "handling"
      BY <2>1, StatesDiffer
    <2>3. \A d \in Clients : d # c => conn'[d] = conn[d] /\ request'[d] = request[d]
      BY <1>2 DEF ReadRequest, ServerInv, ConnType
    <2>4. request' \in [Clients -> Requests \cup {Nil}] /\ gone' = gone /\ reply' = Nil
      BY <1>2 DEF ReadRequest, ServerInv, ConnType
    <2>5. ConnType'
      BY <2>2, <2>3, <2>4, StatesDiffer DEF ServerInv, ConnType
    <2>6. OneStart' /\ \A d \in Clients : conn[d] = "none" => conn'[d] = "none"
      BY <1>1, <2>1, <2>2, <2>3, StatesDiffer DEF ServerInv, OneStart
    <2>. QED BY <1>1, <2>5, <2>6 DEF ServerInv, Aside
  <1>3. CASE HangUp(c)
    <2>1. UNCHANGED request /\ reply' = Nil
      BY <1>3 DEF HangUp
    <2>2. CASE conn[c] \in InHandler
      BY <1>1, <1>3, <2>1, <2>2 DEF HangUp, ServerInv, ConnType, OneStart, Aside
    <2>3. CASE conn[c] \notin InHandler
      <3>1. conn' \in [Clients -> ConnStates] /\ conn'[c] = "none"
        BY <1>3, <2>3, StatesDiffer DEF HangUp, ServerInv, ConnType
      <3>2. \A d \in Clients : d # c => conn'[d] = conn[d]
        BY <1>3, <2>3 DEF HangUp, ServerInv, ConnType
      <3>3. UNCHANGED gone
        BY <1>3, <2>3 DEF HangUp
      <3>. QED
        BY <1>1, <2>1, <2>3, <3>1, <3>2, <3>3, StatesDiffer
        DEF ServerInv, ConnType, OneStart, Aside
    <2>. QED BY <2>2, <2>3
  <1>. QED BY <1>2, <1>3

LEMMA PlainHandlers ==
    ASSUME ServerInv, NEW c \in Clients,
           HandleUnrouted(c) \/ HandleRead(c) \/ HandleReadyz(c)
    PROVE  ServerInv' /\ Aside
  <1>1. CASE HandleUnrouted(c)
    BY <1>1, PlainResponse, RouteStatuses DEF HandleUnrouted, Statuses
  <1>2. CASE HandleRead(c)
    BY <1>2, PlainResponse DEF HandleRead, Handling, Statuses
  <1>3. CASE HandleReadyz(c)
    <2>1. PICK err : Respond(c, IF err = "none" THEN 200 ELSE 503, err)
      BY <1>3 DEF HandleReadyz
    <2>2. (IF err = "none" THEN 200 ELSE 503) \in Statuses
      BY DEF Statuses
    <2>3. conn[c] # "none" /\ UNCHANGED <<runVars, options>>
      BY <1>3 DEF HandleReadyz, Handling
    <2>. QED BY <2>1, <2>2, <2>3, PlainResponse
  <1>. QED BY <1>1, <1>2, <1>3

LEMMA StartHandler ==
    ASSUME ServerInv, NEW c \in Clients, HandleStart(c)
    PROVE  ServerInv' /\ Aside
  <1>. DEFINE body == request[c].body
  <1>1. conn[c] = "handling" /\ request[c].method = "POST"
    BY ChangesArePosted DEF HandleStart, Handling
  <1>2. ASSUME NEW status \in {400, 409, 500}, NEW cause,
               Respond(c, status, cause), UNCHANGED <<runVars, options>>
        PROVE  ServerInv' /\ Aside
    <2>1. status \in Statuses
      BY DEF Statuses
    <2>. QED BY <1>1, <1>2, <2>1, PlainResponse
  <1>3. ASSUME NEW cause, Fail(c, cause), UNCHANGED <<runVars, options>>
        PROVE  ServerInv' /\ Aside
    BY <1>2, <1>3, ErrorStatus DEF Fail
  <1>4. ASSUME current < MaxRuns, Run!Begin, options' = Decoded(body),
               DecodeStartOptions(body), reply' = Nil,
               conn' = [conn EXCEPT ![c] = IF db = "closed" THEN "doomed"
                                           ELSE "setup"],
               UNCHANGED <<request, gone, db, inShutdown>>
        PROVE  ServerInv' /\ Aside
    <2>1. RunType'
      <3>1. current' \in 0..MaxRuns
        BY <1>4, ServerAssumption DEF ServerInv, RunType, Run!Begin
      <3>2. busy' \subseteq {current'}
        BY <1>4 DEF Run!Begin
      <3>3. validateStartOptions(options')
        BY <1>4 DEF DecodeStartOptions, DecodeAccepts
      <3>. QED BY <3>1, <3>2, <3>3 DEF RunType
    <2>2. /\ conn' \in [Clients -> ConnStates] /\ conn'[c] \in {"setup", "doomed"}
          /\ \A d \in Clients : d # c => conn'[d] = conn[d]
      BY <1>4, StatesDiffer DEF ServerInv, ConnType
    <2>3. conn'[c] \in InHandler
      BY <2>2, StatesDiffer
    <2>4. ConnType'
      BY <1>4, <2>2, <2>3 DEF ServerInv, ConnType
    <2>5. \A d \in Clients : conn[d] \notin InStart
      BY <1>4 DEF ServerInv, OneStart, Run!Begin, Run!ActivePhases
    <2>6. OneStart'
      BY <1>1, <1>4, <2>2, <2>5 DEF OneStart, Run!Begin
    <2>. QED BY <1>1, <1>4, <2>1, <2>2, <2>4, <2>6 DEF ServerInv, Aside
  <1>. QED BY <1>2, <1>3, <1>4 DEF HandleStart

LEMMA SetupSteps ==
    ASSUME ServerInv, NEW c \in Clients, SetupStep(c)
    PROVE  ServerInv' /\ Aside
  <1>1. /\ conn[c] \in InStart /\ UNCHANGED <<request, gone, phase, db, inShutdown>>
        /\ reply' = Nil
    BY StatesDiffer
    DEF SetupStep, SetupSucceeds, SetupFails, runVars, Run!Quiesce
  <1>2. PICK s \in {"installing", "failing"} : conn' = [conn EXCEPT ![c] = s]
    BY DEF SetupStep, SetupSucceeds, SetupFails
  <1>3. /\ conn' \in [Clients -> ConnStates] /\ conn'[c] \in InStart
        /\ \A d \in Clients : d # c => conn'[d] = conn[d]
    BY <1>2, StatesDiffer DEF ServerInv, ConnType
  <1>4. ConnType'
    BY <1>1, <1>3, StatesDiffer DEF ServerInv, ConnType
  <1>5. OneStart'
    BY <1>1, <1>3 DEF ServerInv, OneStart
  <1>6. RunType'
    BY DEF SetupStep, SetupSucceeds, SetupFails, runVars, Run!Quiesce, ServerInv,
           RunType, validateStartOptions
  <1>. QED BY <1>1, <1>3, <1>4, <1>5, <1>6, StatesDiffer DEF ServerInv, Aside

LEMMA StartReturns ==
    ASSUME ServerInv, NEW c \in Clients, Install(c) \/ FinishStartFailure(c)
    PROVE  ServerInv' /\ Aside
  <1>1. conn[c] \in InStart
    BY StatesDiffer DEF Install, FinishStartFailure
  <1>2. PICK status, cause :
          status \in {200, 409, 500} /\ Respond(c, status, cause)
    BY ErrorStatus DEF Install, FinishStartFailure, Fail
  <1>3. status \in Statuses
    BY <1>2 DEF Statuses
  <1>4. ConnType' /\ Aside
    BY <1>1, <1>2, <1>3, RespondFacts, StatesDiffer DEF ServerInv, Aside
  <1>5. OneStart'
    BY <1>1, <1>2, <1>3, LastOneOut DEF OneStart
  <1>6. UNCHANGED <<current, busy, options>>
    BY DEF Install, FinishStartFailure, runVars, Run!ComeUp, Run!Conclude
  <1>7. RunType'
    BY <1>6 DEF ServerInv, RunType
  <1>. QED BY <1>4, <1>5, <1>7 DEF ServerInv

LEMMA AlterHandler ==
    ASSUME ServerInv, NEW c \in Clients, HandleAlter(c)
    PROVE  ServerInv' /\ Aside
  <1>1. conn[c] # "none" /\ UNCHANGED runVars
    BY DEF HandleAlter, Handling
  <1>2. PICK status, cause :
          status \in {200, 400, 409, 500} /\ Respond(c, status, cause)
    BY ErrorStatus DEF HandleAlter, Fail
  <1>3. status \in Statuses
    BY <1>2 DEF Statuses
  <1>4. ConnType' /\ Aside
    BY <1>1, <1>2, <1>3, RespondFacts DEF ServerInv, Aside
  <1>5. OneStart'
    BY <1>1, <1>2, <1>3, RespondKeepsOneStart DEF runVars
  <1>6. \/ UNCHANGED options
        \/ validateStartOptions(options')
    BY DEF HandleAlter, ApplyAlterAccepts
  <1>7. RunType'
    BY <1>1, <1>6 DEF runVars, ServerInv, RunType, validateStartOptions
  <1>. QED BY <1>4, <1>5, <1>7 DEF ServerInv

LEMMA StopHandler ==
    ASSUME ServerInv, NEW c \in Clients, HandleStop(c)
    PROVE  ServerInv' /\ Aside
  <1>1. conn[c] = "handling" /\ Respond(c, 200, "none") /\ 200 \in Statuses
    BY DEF HandleStop, Handling, Statuses
  <1>2. ConnType' /\ Aside
    BY <1>1, RespondFacts DEF ServerInv, Aside
  <1>3. RunType'
    BY DEF HandleStop, runVars, Run!RequestStop, ServerInv, RunType,
           validateStartOptions
  <1>4. phase' = phase \/ phase' = "stopping"
    BY DEF HandleStop, runVars, Run!RequestStop
  <1>5. /\ conn'[c] \notin InStart
        /\ \A d \in Clients : d # c => conn'[d] = conn[d] /\ request'[d] = request[d]
    BY <1>1, RespondFacts, StatesDiffer DEF ServerInv
  <1>6. OneStart'
    BY <1>4, <1>5 DEF ServerInv, OneStart
  <1>. QED BY <1>2, <1>3, <1>6 DEF ServerInv

LEMMA RunSteps ==
    ASSUME ServerInv, RunStep
    PROVE  ServerInv' /\ Aside
  <1>1. /\ UNCHANGED <<conn, request, gone, db, inShutdown>> /\ reply' = Nil
    BY DEF RunStep, RunEnds, ConcludeRun, connVars
  <1>2. ConnType'
    BY <1>1 DEF ServerInv, ConnType
  <1>3. RunType'
    BY DEF RunStep, RunEnds, ConcludeRun, Run!Quiesce, Run!Conclude, ServerInv,
           RunType, validateStartOptions
  <1>4. UNCHANGED phase \/ \A c \in Clients : conn[c] \notin InStart
    BY DEF RunStep, RunEnds, ConcludeRun, Starting, Run!Quiesce
  <1>5. OneStart'
    BY <1>1, <1>4 DEF ServerInv, OneStart
  <1>. QED BY <1>1, <1>2, <1>3, <1>5 DEF ServerInv, Aside

\* A step of a client, of a handler or of the run.
LEMMA ServerSteps ==
    ASSUME ServerInv, ServerStep
    PROVE  ServerInv' /\ Aside
  <1>1. CASE RunStep
    BY <1>1, RunSteps
  <1>2. ASSUME NEW c \in Clients,
               ReadRequest(c) \/ HangUp(c) \/ HandlerStep(c) \/ SetupStep(c)
        PROVE  ServerInv' /\ Aside
    BY <1>2, ConnStep, PlainHandlers, StartHandler, SetupSteps, StartReturns,
       AlterHandler, StopHandler
    DEF HandlerStep
  <1>. QED BY <1>1, <1>2 DEF ServerStep

LEMMA Accepts ==
    ASSUME ServerInv, NEW c \in Clients, Accept(c)
    PROVE  ServerInv'
  <1>1. /\ conn[c] = "none" /\ conn' = [conn EXCEPT ![c] = "new"]
        /\ UNCHANGED <<request, gone, phase, current, busy, options>>
        /\ reply' = Nil
    BY DEF Accept, runVars
  <1>2. /\ conn' \in [Clients -> ConnStates] /\ conn'[c] = "new"
        /\ \A d \in Clients : d # c => conn'[d] = conn[d]
    BY <1>1, StatesDiffer DEF ServerInv, ConnType
  <1>3. ConnType'
    BY <1>1, <1>2, StatesDiffer DEF ServerInv, ConnType
  <1>4. OneStart'
    BY <1>1, <1>2, StatesDiffer DEF ServerInv, OneStart
  <1>5. RunType'
    BY <1>1 DEF ServerInv, RunType, validateStartOptions
  <1>. QED BY <1>3, <1>4, <1>5 DEF ServerInv

\* The steps of the other goroutines at most close connections that nobody
\* handles.
LEMMA OtherSteps ==
    ASSUME ServerInv, UNCHANGED <<request, gone, runVars, options>>, reply' = Nil,
           conn' \in [Clients -> ConnStates],
           \A c \in Clients : \/ conn'[c] = conn[c]
                              \/ conn'[c] = "none" /\ conn[c] \notin InHandler
    PROVE  ServerInv'
  <1>1. ConnType'
    BY DEF ServerInv, ConnType
  <1>2. RunType'
    BY DEF ServerInv, RunType, runVars, validateStartOptions
  <1>3. OneStart'
    BY StatesDiffer DEF ServerInv, OneStart, runVars
  <1>. QED BY <1>1, <1>2, <1>3 DEF ServerInv

-----------------------------------------------------------------------------
(* The process.                                                            *)

MainType ==
    /\ main \in Early \cup {"selecting"} \cup ShuttingDown \cup Ending
    /\ db \in {"none", "open", "closed"}
    /\ listener \in {"none", "open", "closed"}
    /\ server \in {"none", "spawned", "accepting", "returned"}
    /\ inShutdown \in {"no", "yes"} /\ signalled \in {"no", "yes"}
    /\ exit \in {-1, 0, 1, 2}
    /\ source # Nil => main = "opening"

ApplicationInv == ServerInv /\ MainType /\ ProcessInv

LEMMA InitApplication == Init => ApplicationInv
  <1>. SUFFICES ASSUME Init PROVE ApplicationInv
    OBVIOUS
  <1>1. ServerInv
    BY InitServer DEF Init
  <1>2. MainType
    BY DEF Init, ServerInit, MainType, Early
  <1>3. ProcessInv
    BY DEF Init, ServerInit, ProcessInv, InPlace, Serves, Accounted, Quiet,
           WentThrough, Early, ShuttingDown, Ending
  <1>. QED BY <1>1, <1>2, <1>3 DEF ApplicationInv

\* A step of the server leaves the process where it is.
LEMMA ServerKeepsProcess ==
    ASSUME ApplicationInv, Aside, UNCHANGED mainVars
    PROVE  MainType' /\ ProcessInv'
  <1>1. MainType'
    BY DEF ApplicationInv, MainType, mainVars, Aside
  <1>2. InPlace' /\ Serves' /\ Accounted'
    BY DEF ApplicationInv, ProcessInv, InPlace, Serves, Accounted, Unheard,
           mainVars, Aside
  <1>3. Quiet'
    BY DEF ApplicationInv, ProcessInv, Quiet, WentThrough, mainVars, Aside
  <1>. QED BY <1>1, <1>2, <1>3 DEF ProcessInv

LEMMA AcceptConnections ==
    ASSUME ApplicationInv, NEW c \in Clients, AcceptConnection(c)
    PROVE  ApplicationInv'
  <1>1. ServerInv'
    BY Accepts DEF ApplicationInv, AcceptConnection
  <1>2. UNCHANGED <<mainVars, db, inShutdown>> /\ server = "accepting"
    BY DEF AcceptConnection, Accept
  <1>3. MainType' /\ InPlace' /\ Serves' /\ Accounted'
    BY <1>2 DEF ApplicationInv, MainType, ProcessInv, InPlace, Serves, Accounted,
                Unheard, mainVars
  <1>4. Quiet'
    BY <1>2 DEF ApplicationInv, ProcessInv, Quiet, WentThrough, mainVars
  <1>. QED BY <1>1, <1>3, <1>4 DEF ApplicationInv, ProcessInv

\* What the actions of the main and of the serving goroutine leave alone.
LEMMA AsideIsKept ==
    ASSUME ApplicationInv, UNCHANGED aside, reply' = Nil
    PROVE  ServerInv' /\ UNCHANGED conn
  <1>1. UNCHANGED <<conn, request, gone, runVars, options>>
    BY DEF aside, connVars, runVars
  <1>2. conn' \in [Clients -> ConnStates] /\ \A c \in Clients : conn'[c] = conn[c]
    BY <1>1 DEF ApplicationInv, ServerInv, ConnType
  <1>3. ServerInv
    BY DEF ApplicationInv
  <1>. QED BY <1>1, <1>2, <1>3, OtherSteps

LEMMA ParseConfigKeeps == ApplicationInv /\ ParseConfig => ApplicationInv'
  <1>. SUFFICES ASSUME ApplicationInv, ParseConfig PROVE ApplicationInv'
    OBVIOUS
  <1>. USE DEF Early, ShuttingDown, Ending
  <1>1. ServerInv' /\ UNCHANGED conn
    BY AsideIsKept DEF ParseConfig
  <1>2. \/ /\ main' = "opening" /\ UNCHANGED <<failures, exit>>
        \/ /\ main' = "exited" /\ failures' = {"config"} /\ exit' = 2
           /\ UNCHANGED source
    BY DEF ParseConfig
  <1>3. /\ main = "parsing"
        /\ UNCHANGED <<db, inShutdown, listener, server, serveErrCh, signalled,
                       runErr>>
    BY DEF ParseConfig
  <1>4. MainType'
    BY <1>2, <1>3 DEF ApplicationInv, MainType
  <1>5. InPlace'
    BY <1>2, <1>3 DEF ApplicationInv, ProcessInv, InPlace
  <1>6. Serves'
    BY <1>2, <1>3 DEF ApplicationInv, ProcessInv, InPlace, Serves
  <1>7. Accounted'
    BY <1>2, <1>3 DEF ApplicationInv, ProcessInv, InPlace, Accounted
  <1>8. Quiet'
    BY <1>1, <1>2, <1>3
    DEF ApplicationInv, ProcessInv, InPlace, Quiet, WentThrough
  <1>. QED BY <1>1, <1>4, <1>5, <1>6, <1>7, <1>8 DEF ApplicationInv, ProcessInv

\* Opening the pool, listening and announcing: each goes on or returns with
\* the first error of the process.
LEMMA OpeningKeeps ==
    ApplicationInv /\ (OpenDatabase \/ Listen \/ Announce) => ApplicationInv'
  <1>. SUFFICES ASSUME ApplicationInv, OpenDatabase \/ Listen \/ Announce
                PROVE  ApplicationInv'
    OBVIOUS
  <1>. USE DEF Early, ShuttingDown, Ending
  <1>1. ServerInv' /\ UNCHANGED conn
    BY AsideIsKept DEF OpenDatabase, Listen, Announce
  <1>2. /\ main \in Early \ {"parsing"}
        /\ UNCHANGED <<inShutdown, serveErrCh, signalled, exit>>
        /\ source' = Nil \/ (source' = source /\ main # "opening")
    BY DEF OpenDatabase, Listen, Announce
  <1>0. /\ main = "opening" => db = "none" /\ listener = "none"
        /\ main \in {"listening", "announcing"} => db = "open"
        /\ main = "listening" => listener = "none"
        /\ runErr = {} /\ failures = {}
    BY <1>2 DEF ApplicationInv, ProcessInv, InPlace
  <1>3. \/ /\ main' \in {"listening", "announcing"} /\ db' = "open"
           /\ main' = "listening" => UNCHANGED listener /\ main = "opening"
           /\ listener' \in {"none", "open"}
           /\ UNCHANGED <<server, runErr, failures>>
        \/ /\ main' = "selecting" /\ db' = "open"
           /\ server' = "spawned" /\ UNCHANGED <<runErr, failures, listener>>
        \/ /\ runErr' # {} /\ failures' = failures \cup runErr'
           /\ "config" \notin runErr'
           /\ UNCHANGED <<db, server>>
           /\ listener' \in {listener, "closed"}
           /\ main' = IF db' = "open" THEN "closing" ELSE "reporting"
    <2>1. CASE OpenDatabase
      BY <1>0, <2>1 DEF OpenDatabase, Return
    <2>2. CASE Listen
      BY <1>0, <2>2 DEF Listen, Return
    <2>3. CASE Announce
      BY <1>0, <2>3 DEF Announce, Return
    <2>. QED BY <2>1, <2>2, <2>3
  <1>4. MainType'
    BY <1>2, <1>3 DEF ApplicationInv, MainType
  <1>5. InPlace'
    BY <1>2, <1>3 DEF ApplicationInv, ProcessInv, InPlace
  <1>6. Serves'
    BY <1>2, <1>3 DEF ApplicationInv, ProcessInv, InPlace, Serves
  <1>7. Accounted'
    BY <1>2, <1>3 DEF ApplicationInv, ProcessInv, InPlace, Serves, Accounted,
                      Unheard
  <1>8. Quiet'
    BY <1>1, <1>2, <1>3
    DEF ApplicationInv, ProcessInv, InPlace, Quiet, WentThrough
  <1>. QED BY <1>1, <1>4, <1>5, <1>6, <1>7, <1>8 DEF ApplicationInv, ProcessInv

\* The goroutine of Serve, which may still be at work when Run has returned.
LEMMA ServeKeeps == ApplicationInv /\ ServeStep => ApplicationInv'
  <1>. SUFFICES ASSUME ApplicationInv, ServeStep PROVE ApplicationInv'
    OBVIOUS
  <1>. USE DEF Early, ShuttingDown, Ending
  <1>1. ServerInv' /\ UNCHANGED conn
    BY AsideIsKept DEF ServeStep, ServeBegins, ServeFails, ServeEnds
  <1>2. /\ UNCHANGED <<main, db, inShutdown, signalled, runErr, exit, source>>
        /\ main # "exited"
    BY DEF ServeStep, ServeBegins, ServeFails, ServeEnds, Running
  <1>3. \/ /\ server = "spawned" /\ inShutdown = "no" /\ server' = "accepting"
           /\ UNCHANGED <<listener, serveErrCh, failures>>
        \/ /\ server = "spawned" /\ inShutdown = "yes" /\ server' = "returned"
           /\ listener' = "closed" /\ serveErrCh' = <<{}>>
           /\ UNCHANGED failures
        \/ /\ server = "accepting" /\ inShutdown = "yes" /\ server' = "returned"
           /\ serveErrCh' = <<{}>>
           /\ UNCHANGED <<listener, failures>>
        \/ /\ server = "accepting" /\ inShutdown = "no" /\ server' = "returned"
           /\ listener' = "closed" /\ serveErrCh' = <<{"serve"}>>
           /\ failures' = failures \cup {"serve"}
    BY DEF ServeStep, ServeBegins, ServeFails, ServeEnds, ApplicationInv, MainType
  <1>4. <<{}>> # <<>> /\ <<{}>> # <<{"serve"}>> /\ <<{"serve"}>> # <<>>
    OBVIOUS
  <1>5. MainType'
    BY <1>2, <1>3 DEF ApplicationInv, MainType
  <1>6. InPlace'
    BY <1>2, <1>3 DEF ApplicationInv, ProcessInv, InPlace, Serves
  <1>7. Serves'
    BY <1>2, <1>3, <1>4 DEF ApplicationInv, ProcessInv, InPlace, Serves
  <1>8. Accounted'
    BY <1>2, <1>3, <1>4
    DEF ApplicationInv, ProcessInv, InPlace, Serves, Accounted, Unheard
  <1>9. Quiet'
    BY <1>1, <1>2, <1>3
    DEF ApplicationInv, ProcessInv, InPlace, Serves, Quiet, WentThrough
  <1>. QED BY <1>1, <1>5, <1>6, <1>7, <1>8, <1>9 DEF ApplicationInv, ProcessInv

LEMMA SignalKeeps ==
    ApplicationInv /\ (Signal \/ SelectSignal) => ApplicationInv'
  <1>. SUFFICES ASSUME ApplicationInv, Signal \/ SelectSignal
                PROVE  ApplicationInv'
    OBVIOUS
  <1>. USE DEF Early, ShuttingDown, Ending
  <1>1. ServerInv' /\ UNCHANGED conn
    BY AsideIsKept DEF Signal, SelectSignal
  <1>2. /\ UNCHANGED <<db, source, server, serveErrCh, exit>>
        /\ signalled' = "yes"
    BY DEF Signal, SelectSignal
  <1>3. \/ UNCHANGED <<main, inShutdown, listener, runErr, failures>>
        \/ /\ main = "selecting" /\ main' = "shutdown" /\ inShutdown' = "yes"
           /\ \/ /\ server = "accepting" /\ listener' = "closed"
                 /\ runErr' \in {{}, {"shutdown"}}
                 /\ failures' = failures \cup runErr'
              \/ /\ server # "accepting"
                 /\ UNCHANGED <<listener, runErr, failures>>
    BY DEF Signal, SelectSignal
  <1>4. MainType'
    BY <1>2, <1>3 DEF ApplicationInv, MainType
  <1>5. InPlace'
    BY <1>2, <1>3 DEF ApplicationInv, ProcessInv, InPlace
  <1>6. Serves'
    BY <1>2, <1>3 DEF ApplicationInv, ProcessInv, InPlace, Serves
  <1>7. Accounted'
    BY <1>2, <1>3 DEF ApplicationInv, ProcessInv, InPlace, Accounted, Unheard
  <1>8. Quiet'
    BY <1>1, <1>2, <1>3
    DEF ApplicationInv, ProcessInv, InPlace, Quiet, WentThrough
  <1>. QED BY <1>1, <1>4, <1>5, <1>6, <1>7, <1>8 DEF ApplicationInv, ProcessInv

\* A round closes idle connections.  When it closes the last one the process
\* is quiet: nobody accepts, so no connection comes back.
LEMMA ShutdownRoundKeeps == ApplicationInv /\ ShutdownRound => ApplicationInv'
  <1>. SUFFICES ASSUME ApplicationInv, ShutdownRound PROVE ApplicationInv'
    OBVIOUS
  <1>. USE DEF Early, ShuttingDown, Ending
  <1>1. PICK closed \in Closable :
           conn' = [c \in Clients |-> IF c \in closed THEN "none" ELSE conn[c]]
    BY DEF ShutdownRound
  <1>2. \A c \in closed : conn[c] \in {"idle", "new"}
    BY DEF Closable
  <1>3. /\ conn' \in [Clients -> ConnStates]
        /\ \A c \in Clients : \/ conn'[c] = conn[c]
                              \/ conn'[c] = "none" /\ conn[c] \notin InHandler
    BY <1>1, <1>2, StatesDiffer DEF ApplicationInv, ServerInv, ConnType
  <1>4. ServerInv'
    BY <1>3, OtherSteps DEF ShutdownRound, ApplicationInv
  <1>5. /\ main \in {"shutdown", "polling"} /\ server # "accepting"
        /\ UNCHANGED <<db, inShutdown, source, listener, server, serveErrCh,
                       signalled, runErr, failures, exit>>
    BY DEF ShutdownRound
  <1>6. \/ main' = "polling"
        \/ /\ \A c \in Clients : conn'[c] = "none"
           /\ \/ main' = "awaiting" /\ runErr = {}
              \/ main' = "closing" /\ runErr # {}
    BY DEF ShutdownRound
  <1>7. MainType'
    BY <1>5, <1>6 DEF ApplicationInv, MainType
  <1>8. InPlace' /\ Serves'
    BY <1>5, <1>6 DEF ApplicationInv, ProcessInv, InPlace, Serves
  <1>9. Accounted'
    BY <1>5, <1>6 DEF ApplicationInv, ProcessInv, InPlace, Accounted, Unheard
  <1>10. Quiet'
    BY <1>5, <1>6 DEF ApplicationInv, ProcessInv, InPlace, Quiet, WentThrough
  <1>. QED BY <1>4, <1>7, <1>8, <1>9, <1>10 DEF ApplicationInv, ProcessInv

\* The main goroutine receives what Serve returned, in the select or after
\* Shutdown.
LEMMA ReceiveKeeps ==
    ApplicationInv /\ (SelectServeError \/ AwaitServe) => ApplicationInv'
  <1>. SUFFICES ASSUME ApplicationInv, SelectServeError \/ AwaitServe
                PROVE  ApplicationInv'
    OBVIOUS
  <1>. USE DEF Early, ShuttingDown, Ending
  <1>1. ServerInv' /\ UNCHANGED conn
    BY AsideIsKept DEF SelectServeError, AwaitServe
  <1>2. /\ UNCHANGED <<db, inShutdown, source, listener, server, signalled,
                       failures, exit>>
        /\ main \in {"selecting", "awaiting"} /\ serveErrCh # <<>>
        /\ runErr' = serveErrCh[1] /\ serveErrCh' = <<>>
        /\ main' = IF db' = "open" THEN "closing" ELSE "reporting"
    BY DEF SelectServeError, AwaitServe, Return
  <1>3. db = "open" /\ server = "returned" /\ listener = "closed" /\ runErr = {}
    BY <1>2 DEF ApplicationInv, ProcessInv, InPlace, Serves, Accounted
  <1>4. main' = "closing"
    BY <1>2, <1>3
  <1>5. <<{}>>[1] = {} /\ <<{"serve"}>>[1] = {"serve"} /\ <<{}>> # <<{"serve"}>>
    OBVIOUS
  <1>6. serveErrCh \in {<<{}>>, <<{"serve"}>>}
    BY <1>2 DEF ApplicationInv, ProcessInv, Serves
  <1>7. runErr' = Unheard
    BY <1>2, <1>5, <1>6 DEF Unheard
  <1>8. failures' = runErr' /\ "config" \notin failures'
    BY <1>2, <1>3, <1>7 DEF ApplicationInv, ProcessInv, Accounted, Unheard
  <1>9. main = "selecting" => runErr' # {}
    BY <1>2, <1>5, <1>6, <1>7
    DEF ApplicationInv, ProcessInv, InPlace, Serves, Unheard
  <1>10. MainType'
    BY <1>2, <1>4 DEF ApplicationInv, MainType
  <1>11. InPlace'
    BY <1>2, <1>3, <1>4 DEF ApplicationInv, ProcessInv, InPlace
  <1>12. Serves'
    BY <1>2, <1>3, <1>4 DEF ApplicationInv, ProcessInv, Serves
  <1>13. Accounted'
    BY <1>2, <1>3, <1>4, <1>8 DEF Accounted
  <1>14. Quiet'
    BY <1>1, <1>2, <1>3, <1>4, <1>9
    DEF ApplicationInv, ProcessInv, Quiet, WentThrough
  <1>. QED
    BY <1>1, <1>10, <1>11, <1>12, <1>13, <1>14 DEF ApplicationInv, ProcessInv

LEMMA DeadlineKeeps == ApplicationInv /\ ShutdownDeadline => ApplicationInv'
  <1>. SUFFICES ASSUME ApplicationInv, ShutdownDeadline PROVE ApplicationInv'
    OBVIOUS
  <1>. USE DEF Early, ShuttingDown, Ending
  <1>1. ServerInv' /\ UNCHANGED conn
    BY AsideIsKept DEF ShutdownDeadline
  <1>2. /\ UNCHANGED <<db, inShutdown, source, listener, server, serveErrCh,
                       signalled, exit>>
        /\ main = "polling" /\ runErr' = {"shutdown"}
        /\ failures' = failures \cup {"shutdown"}
        /\ main' = IF db' = "open" THEN "closing" ELSE "reporting"
    BY DEF ShutdownDeadline, Return
  <1>3. main' = "closing"
    BY <1>2 DEF ApplicationInv, ProcessInv, InPlace
  <1>4. MainType'
    BY <1>2, <1>3 DEF ApplicationInv, MainType
  <1>5. InPlace' /\ Serves'
    BY <1>2, <1>3 DEF ApplicationInv, ProcessInv, InPlace, Serves
  <1>6. Accounted' /\ Quiet'
    BY <1>2, <1>3
    DEF ApplicationInv, ProcessInv, InPlace, Accounted, Quiet, WentThrough
  <1>. QED BY <1>1, <1>4, <1>5, <1>6 DEF ApplicationInv, ProcessInv

\* Closing the pool may add an error, and the status is that of all of them.
LEMMA LeavingKeeps ==
    ApplicationInv /\ (CloseDatabase \/ Exit) => ApplicationInv'
  <1>. SUFFICES ASSUME ApplicationInv, CloseDatabase \/ Exit
                PROVE  ApplicationInv'
    OBVIOUS
  <1>. USE DEF Early, ShuttingDown, Ending
  <1>1. ServerInv' /\ UNCHANGED conn
    BY AsideIsKept DEF CloseDatabase, Exit
  <1>2. UNCHANGED <<inShutdown, source, listener, server, serveErrCh, signalled>>
    BY DEF CloseDatabase, Exit
  <1>3. CASE CloseDatabase
    <2>1. /\ main = "closing" /\ main' = "reporting" /\ db' = "closed"
          /\ UNCHANGED exit
          /\ \/ UNCHANGED <<runErr, failures>>
             \/ /\ runErr' = runErr \cup {"close database"}
                /\ failures' = failures \cup {"close database"}
      BY <1>3 DEF CloseDatabase, Joined
    <2>2. MainType'
      BY <1>2, <2>1 DEF ApplicationInv, MainType
    <2>3. InPlace' /\ Serves'
      BY <1>2, <2>1 DEF ApplicationInv, ProcessInv, InPlace, Serves
    <2>4. Accounted'
      BY <1>2, <2>1 DEF ApplicationInv, ProcessInv, InPlace, Accounted
    <2>5. Quiet'
      BY <1>1, <1>2, <2>1
      DEF ApplicationInv, ProcessInv, InPlace, Quiet, WentThrough
    <2>. QED BY <1>1, <2>2, <2>3, <2>4, <2>5 DEF ApplicationInv, ProcessInv
  <1>4. CASE Exit
    <2>1. /\ main = "reporting" /\ main' = "exited"
          /\ UNCHANGED <<db, runErr, failures>>
          /\ exit' \in {0, 1, 2} /\ (exit' = 0 <=> runErr = {})
      BY <1>4 DEF Exit
    <2>2. MainType'
      BY <1>2, <2>1 DEF ApplicationInv, MainType
    <2>3. InPlace' /\ Serves'
      BY <1>2, <2>1 DEF ApplicationInv, ProcessInv, InPlace, Serves
    <2>4. Accounted'
      BY <1>2, <2>1 DEF ApplicationInv, ProcessInv, InPlace, Accounted
    <2>5. Quiet'
      BY <1>1, <1>2, <2>1
      DEF ApplicationInv, ProcessInv, InPlace, Quiet, WentThrough
    <2>. QED BY <1>1, <2>2, <2>3, <2>4, <2>5 DEF ApplicationInv, ProcessInv
  <1>. QED BY <1>3, <1>4

-----------------------------------------------------------------------------
(***************************************************************************)
(* Every step of the process, of its handlers and of its run keeps the     *)
(* invariant.                                                              *)
(***************************************************************************)
THEOREM ApplicationInvariance == Spec => []ApplicationInv
  <1>1. ASSUME ApplicationInv, Next PROVE ApplicationInv'
    <2>1. CASE MainStep
      BY <1>1, <2>1, ParseConfigKeeps, OpeningKeeps, SignalKeeps, ReceiveKeeps,
         ShutdownRoundKeeps, DeadlineKeeps, LeavingKeeps
      DEF MainStep
    <2>2. CASE ServeStep \/ Signal
      BY <1>1, <2>2, ServeKeeps, SignalKeeps
    <2>3. ASSUME NEW c \in Clients, AcceptConnection(c) PROVE ApplicationInv'
      BY <1>1, <2>3, AcceptConnections
    <2>4. CASE ServerStep /\ UNCHANGED mainVars
      BY <1>1, <2>4, ServerSteps, ServerKeepsProcess DEF ApplicationInv
    <2>. QED BY <1>1, <2>1, <2>2, <2>3, <2>4 DEF Next
  <1>2. ASSUME ApplicationInv, UNCHANGED vars PROVE ApplicationInv'
    <2>1. UNCHANGED <<conn, request, gone, reply, runVars, options, db,
                      inShutdown, mainVars>>
      BY <1>2 DEF vars, runVars
    <2>2. Aside
      BY <2>1 DEF Aside
    <2>3. ServerInv'
      BY <1>2, <2>1 DEF ApplicationInv, ServerInv, ConnType, RunType, OneStart,
                        runVars
    <2>. QED BY <1>2, <2>1, <2>2, <2>3, ServerKeepsProcess DEF ApplicationInv
  <1>. QED BY <1>1, <1>2, InitApplication, PTL DEF Spec

(***************************************************************************)
(* Connections, handlers, the coordinator's run and the process have their *)
(* types.                                                                  *)
(***************************************************************************)
THEOREM ApplicationTypeCorrect == Spec => []TypeOK
  <1>1. ApplicationInv => TypeOK
    BY ServerTypeParts
    DEF ApplicationInv, ServerInv, MainType, TypeOK, Early, ShuttingDown, Ending
  <1>. QED BY <1>1, ApplicationInvariance, PTL

(***************************************************************************)
(* The exit status is 0 exactly when no step failed, for any number of     *)
(* clients and whatever the order of the signal, the error of Serve, the   *)
(* rounds of Shutdown and the deferred close.                              *)
(***************************************************************************)
THEOREM ExitAlwaysTells == Spec => []ExitTellsFailure
  <1>1. ApplicationInv => ExitTellsFailure
    BY DEF ApplicationInv, ProcessInv, Accounted, ExitTellsFailure
  <1>. QED BY <1>1, ApplicationInvariance, PTL

(***************************************************************************)
(* No handler loses its pool unnoticed, and exit status 0 means that all   *)
(* is closed and answered.                                                 *)
(***************************************************************************)
THEOREM CutOffAlwaysReported == Spec => []CutOffIsReported
  <1>1. ApplicationInv => CutOffIsReported
    <2>. SUFFICES ASSUME ApplicationInv PROVE CutOffIsReported
      OBVIOUS
    <2>. USE DEF Early, ShuttingDown, Ending
    <2>1. ASSUME db = "closed", NEW c \in Clients, conn[c] \in InHandler
          PROVE  runErr # {}
      <3>1. main \in {"reporting", "exited"}
        BY <2>1 DEF ApplicationInv, MainType, ProcessInv, InPlace
      <3>. QED BY <2>1, <3>1, StatesDiffer
           DEF ApplicationInv, ProcessInv, Quiet, WentThrough
    <2>2. ASSUME exit = 0
          PROVE  /\ signalled = "yes"
                 /\ \A c \in Clients : conn[c] = "none"
                 /\ listener = "closed" /\ db = "closed" /\ server = "returned"
      <3>1. main = "exited"
        BY <2>2 DEF ApplicationInv, ProcessInv, InPlace
      <3>2. failures = {}
        BY <2>2, <3>1 DEF ApplicationInv, ProcessInv, Accounted
      <3>3. db # "none" /\ runErr = {}
        BY <3>1, <3>2 DEF ApplicationInv, ProcessInv, Accounted
      <3>4. db = "closed"
        BY <3>1, <3>3 DEF ApplicationInv, MainType, ProcessInv, InPlace
      <3>. QED BY <3>1, <3>3, <3>4
           DEF ApplicationInv, ProcessInv, Quiet, WentThrough, Serves
    <2>. QED BY <2>1, <2>2 DEF CutOffIsReported
  <1>. QED BY <1>1, ApplicationInvariance, PTL

-----------------------------------------------------------------------------
(* What clients are told.                                                  *)

RunUntouched == UNCHANGED <<runVars, options>>

\* What RepliesTellOutcome says of one client.
ToldOutcome(c) ==
    /\ request[c].method # "POST" \/ reply'.status \in 400..499 => RunUntouched
    /\ conn[c] \in InStart =>
          IF reply'.status = 200
          THEN phase' \in {"running", "stopping"}
          ELSE phase' \in {"stopped", "failed"} /\ busy' = {}

\* Of two handlers only the one that replies leaves.
LEMMA ReplierLeaves ==
    ASSUME ServerInv, NEW c \in Clients, HandlerStep(c), reply' # Nil,
           NEW d \in Clients, d # c
    PROVE  conn'[d] = conn[d]
  <1>1. CASE \E status \in Statuses : \E cause : Respond(c, status, cause)
    BY <1>1, RespondFacts DEF ServerInv
  <1>2. CASE HandleUnrouted(c) \/ HandleRead(c)
    BY <1>1, <1>2, RouteStatuses DEF HandleUnrouted, HandleRead, Statuses
  <1>3. CASE HandleReadyz(c)
    BY <1>1, <1>3 DEF HandleReadyz, Statuses
  <1>4. CASE HandleStart(c) \/ HandleAlter(c)
    BY <1>1, <1>4, ErrorStatus DEF HandleStart, HandleAlter, Fail, Statuses
  <1>5. CASE HandleStop(c) \/ Install(c) \/ FinishStartFailure(c)
    BY <1>1, <1>5, ErrorStatus
    DEF HandleStop, Install, FinishStartFailure, Fail, Statuses
  <1>. QED BY <1>2, <1>3, <1>4, <1>5 DEF HandlerStep

LEMMA HandlerTells ==
    ASSUME ServerInv, NEW c \in Clients, HandlerStep(c), reply' # Nil
    PROVE  ToldOutcome(c)
  <1>1. CASE HandleUnrouted(c) \/ HandleRead(c) \/ HandleReadyz(c)
    BY <1>1, StatesDiffer
    DEF HandleUnrouted, HandleRead, HandleReadyz, Handling, ToldOutcome,
        RunUntouched
  <1>2. CASE HandleStart(c)
    <2>1. RunUntouched /\ conn[c] = "handling"
      BY <1>2 DEF HandleStart, Handling, RunUntouched
    <2>. QED BY <2>1, StatesDiffer DEF ToldOutcome
  <1>3. CASE Install(c)
    <2>1. reply'.status = 200
      BY <1>3 DEF Install, Respond
    <2>2. conn[c] \in InStart
      BY <1>3, StatesDiffer DEF Install
    <2>3. request[c].method = "POST" /\ phase \in {"starting", "stopping"}
      BY <2>2 DEF ServerInv, OneStart
    <2>4. phase' \in {"running", "stopping"}
      BY <1>3, <2>3 DEF Install, Run!ComeUp, runVars
    <2>. QED BY <2>1, <2>3, <2>4 DEF ToldOutcome
  <1>4. CASE FinishStartFailure(c)
    <2>1. reply'.status = 500
      BY <1>4 DEF FinishStartFailure, Fail, Respond, statusForBenchmarkError
    <2>2. conn[c] \in InStart
      BY <1>4, StatesDiffer DEF FinishStartFailure
    <2>3. request[c].method = "POST" /\ phase \in {"starting", "stopping"}
      BY <2>2 DEF ServerInv, OneStart
    <2>4. phase' \in {"stopped", "failed"} /\ busy' = {}
      BY <1>4 DEF FinishStartFailure, Run!Conclude
    <2>. QED BY <2>1, <2>3, <2>4 DEF ToldOutcome
  <1>5. CASE HandleAlter(c)
    <2>1. conn[c] \notin InStart /\ request[c].method = "POST"
      BY <1>5, ChangesArePosted, StatesDiffer DEF HandleAlter, Handling
    <2>2. reply'.status = 200 \/ RunUntouched
      BY <1>5 DEF HandleAlter, Respond, RunUntouched
    <2>. QED BY <2>1, <2>2 DEF ToldOutcome
  <1>6. CASE HandleStop(c)
    <2>1. conn[c] \notin InStart /\ request[c].method = "POST"
      BY <1>6, ChangesArePosted, StatesDiffer DEF HandleStop, Handling
    <2>2. reply'.status = 200
      BY <1>6 DEF HandleStop, Respond
    <2>. QED BY <2>1, <2>2 DEF ToldOutcome
  <1>. QED BY <1>1, <1>2, <1>3, <1>4, <1>5, <1>6 DEF HandlerStep

\* Nobody but a handler replies.
LEMMA OnlyHandlersReply ==
    ASSUME Next, reply' # Nil
    PROVE  \E c \in Clients : HandlerStep(c)
  <1>1. CASE MainStep
    BY <1>1
    DEF MainStep, ParseConfig, OpenDatabase, Listen, Announce, SelectSignal,
        SelectServeError, ShutdownRound, ShutdownDeadline, AwaitServe,
        CloseDatabase, Exit
  <1>2. CASE ServeStep \/ Signal
    BY <1>2 DEF ServeStep, ServeBegins, ServeFails, ServeEnds, Signal
  <1>3. CASE \E c \in Clients : AcceptConnection(c)
    BY <1>3 DEF AcceptConnection, Accept
  <1>4. CASE ServerStep
    BY <1>4 DEF ServerStep, ReadRequest, HangUp, SetupStep, SetupSucceeds,
                SetupFails, RunStep, RunEnds, ConcludeRun
  <1>. QED BY <1>1, <1>2, <1>3, <1>4 DEF Next

(***************************************************************************)
(* What a client is told is what happened to the run: a request that is    *)
(* not a POST or is refused changes nothing, and the answer to a start     *)
(* says whether anything of its run is left, whatever other clients did    *)
(* while the schema was set up.                                            *)
(***************************************************************************)
THEOREM RepliesAlwaysTell == Spec => RepliesTellOutcome
  <1>. DEFINE Told ==
          \A c \in Clients : conn[c] \in InHandler /\ reply' # Nil
                             /\ conn'[c] \notin InHandler =>
             /\ request[c].method # "POST" \/ reply'.status \in 400..499 =>
                   UNCHANGED <<runVars, options>>
             /\ conn[c] \in InStart =>
                   IF reply'.status = 200
                   THEN phase' \in {"running", "stopping"}
                   ELSE phase' \in {"stopped", "failed"} /\ busy' = {}
  <1>1. ASSUME ApplicationInv, Next PROVE Told
    <2>. SUFFICES ASSUME NEW c \in Clients, conn[c] \in InHandler, reply' # Nil,
                         conn'[c] \notin InHandler
                  PROVE  ToldOutcome(c)
      BY DEF ToldOutcome, RunUntouched
    <2>1. PICK d \in Clients : HandlerStep(d)
      BY <1>1, OnlyHandlersReply
    <2>2. c = d
      BY <1>1, <2>1, ReplierLeaves DEF ApplicationInv
    <2>. QED BY <1>1, <2>1, <2>2, HandlerTells DEF ApplicationInv
  <1>2. ApplicationInv /\ [Next]_vars => [Told]_vars
    BY <1>1
  <1>. HIDE DEF Told
  <1>3. Spec => [][Told]_vars
    BY <1>2, ApplicationInvariance, PTL DEF Spec
  <1>. QED BY <1>3 DEF RepliesTellOutcome, Told

-----------------------------------------------------------------------------
(* The walk through a bundle of certificates.  What it has found after     *)
(* some of the items does not depend on their order.                       *)

FoundIn(pem, T) ==
    IF \E i \in T : pem[i] \in {"other", "broken"} THEN "error"
    ELSE IF \E i \in T : pem[i] = "authority" THEN "authority"
    ELSE IF \E i \in T : pem[i] = "leaf" THEN "leaf" ELSE "nothing"

\* What FoldLeft takes for the findings about each set of items.
Finds(pem, f) ==
    f = [T \in SUBSET (DOMAIN pem) |->
            IF T = {} THEN "nothing" ELSE Walk(f[T \ {Max(T)}], pem[Max(T)])]

LEMMA WalkUnfolds ==
    ASSUME NEW pem
    PROVE  FoldLeft(Walk, "nothing", pem) = (CHOOSE f : Finds(pem, f))[DOMAIN pem]
  BY DEF FoldLeft, MapThenFoldSet, Finds

LEMMA LastItem ==
    ASSUME NEW n \in Nat, NEW T \in SUBSET (1..n), T # {}
    PROVE  Max(T) \in T
  <1>1. T \in SUBSET (0..n)
    OBVIOUS
  <1>2. PICK x \in T : \A y \in T : y <= x
    BY <1>1, GreatestElement
  <1>3. \A y \in T : x >= y
    BY <1>2
  <1>. QED BY <1>3 DEF Max

LEMMA FoundStep ==
    ASSUME NEW pem, NEW T, NEW m \in T
    PROVE  FoundIn(pem, T) = Walk(FoundIn(pem, T \ {m}), pem[m])
  <1>1. \A P : (\E i \in T : pem[i] \in P) <=>
                  pem[m] \in P \/ \E i \in T \ {m} : pem[i] \in P
    OBVIOUS
  <1>2. \A x : (\E i \in T : pem[i] = x) <=>
                  pem[m] = x \/ \E i \in T \ {m} : pem[i] = x
    OBVIOUS
  <1>. QED BY <1>1, <1>2 DEF FoundIn, Walk

LEMMA WalkFinds ==
    ASSUME NEW pem \in Seq(PEMItems)
    PROVE  FoldLeft(Walk, "nothing", pem) = FoundIn(pem, DOMAIN pem)
  <1>. DEFINE D == DOMAIN pem
              g == [T \in SUBSET D |-> FoundIn(pem, T)]
              f == CHOOSE h : Finds(pem, h)
              Differ == {T \in SUBSET D : f[T] # g[T]}
  <1>1. PICK n \in Nat : D = 1..n
    OBVIOUS
  <1>2. \A T \in SUBSET D : T # {} => Max(T) \in T
    BY <1>1, LastItem
  <1>. HIDE DEF D
  <1>3. g = [T \in SUBSET D |->
               IF T = {} THEN "nothing" ELSE Walk(g[T \ {Max(T)}], pem[Max(T)])]
    <2>. DEFINE Next1(T) == IF T = {} THEN "nothing"
                            ELSE Walk(g[T \ {Max(T)}], pem[Max(T)])
    <2>. SUFFICES ASSUME NEW T \in SUBSET D PROVE FoundIn(pem, T) = Next1(T)
      OBVIOUS
    <2>1. CASE T = {}
      BY <2>1 DEF FoundIn
    <2>2. CASE T # {}
      <3>. DEFINE m == Max(T)
      <3>1. m \in T
        BY <1>2, <2>2
      <3>. HIDE DEF m
      <3>2. g[T \ {m}] = FoundIn(pem, T \ {m})
        OBVIOUS
      <3>3. FoundIn(pem, T) = Walk(g[T \ {m}], pem[m])
        BY <3>1, <3>2, FoundStep
      <3>. QED BY <2>2, <3>3 DEF m
    <2>. QED BY <2>1, <2>2
  <1>4. Finds(pem, g)
    BY <1>3 DEF Finds, D
  <1>5. Finds(pem, f)
    BY <1>4
  <1>. HIDE DEF f, g
  <1>6. \A T \in SUBSET D :
           /\ f[T] = IF T = {} THEN "nothing"
                     ELSE Walk(f[T \ {Max(T)}], pem[Max(T)])
           /\ g[T] = IF T = {} THEN "nothing"
                     ELSE Walk(g[T \ {Max(T)}], pem[Max(T)])
    BY <1>4, <1>5 DEF Finds, D
  <1>7. ASSUME Differ # {} PROVE FALSE
    <2>1. \A T \in Differ : IsFiniteSet(T)
      <3>1. IsFiniteSet(D)
        BY <1>1, FS_Interval
      <3>. QED BY <3>1, FS_Subset
    <2>2. PICK T \in Differ : \A U \in Differ : U \subseteq T => U = T
      <3>. HIDE DEF Differ
      <3>. QED BY <1>7, <2>1, SmallestSet
    <2>3. T # {}
      BY <1>6, <2>2
    <2>. DEFINE m == Max(T)
    <2>4. m \in T
      BY <1>2, <2>2, <2>3
    <2>. HIDE DEF m
    <2>5. T \ {m} \notin Differ
      <3>1. T \ {m} \subseteq T /\ T \ {m} # T
        BY <2>4
      <3>. HIDE DEF Differ
      <3>. QED BY <2>2, <3>1
    <2>6. f[T \ {m}] = g[T \ {m}]
      BY <2>2, <2>5
    <2>7. f[T] = Walk(f[T \ {m}], pem[m]) /\ g[T] = Walk(g[T \ {m}], pem[m])
      BY <1>6, <2>2, <2>3 DEF m
    <2>. QED BY <2>2, <2>6, <2>7
  <1>8. f[D] = g[D] /\ g[D] = FoundIn(pem, D)
    BY <1>7 DEF g
  <1>. QED BY <1>8, WalkUnfolds DEF f, D

(***************************************************************************)
(* loadRootCAs accepts a bundle of any length exactly when an authority is *)
(* anywhere in it, every block of it is a certificate that parses and      *)
(* nothing but white space follows the last: the result of its walk, block *)
(* by block with early returns, does not depend on the order of the blocks *)
(* (database.go:97-143).                                                   *)
(***************************************************************************)
THEOREM BundleAccepted ==
    ASSUME NEW files, NEW path \in DOMAIN files, files[path].pem \in Seq(PEMItems)
    PROVE  loadRootCAs(files, path) <=>
              /\ "authority" \in ToSet(files[path].pem)
              /\ ToSet(files[path].pem) \cap {"other", "broken"} = {}
              /\ files[path].pem[Len(files[path].pem)] # "junk"
  <1>. DEFINE pem == files[path].pem
  <1>1. FoldLeft(Walk, "nothing", pem) = FoundIn(pem, DOMAIN pem)
    BY WalkFinds
  <1>2. Last(pem) = pem[Len(pem)]
    BY DEF Last
  <1>3. ToSet(pem) = {pem[i] : i \in DOMAIN pem}
    BY DEF ToSet
  <1>4. loadRootCAs(files, path) <=>
           FoldLeft(Walk, "nothing", pem) = "authority" /\ Last(pem) # "junk"
    BY DEF loadRootCAs
  <1>. HIDE DEF pem
  <1>5. FoundIn(pem, DOMAIN pem) = "authority" <=>
           /\ "authority" \in ToSet(pem)
           /\ ToSet(pem) \cap {"other", "broken"} = {}
    BY <1>3 DEF FoundIn
  <1>. QED BY <1>1, <1>2, <1>4, <1>5 DEF pem
=============================================================================

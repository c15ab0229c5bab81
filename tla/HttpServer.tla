----------------------------- MODULE HttpServer -----------------------------
(***************************************************************************)
(* internal/httpserver/server.go on net/http: connections, the requests    *)
(* read from them and the handlers, around the coordinator.  The           *)
(* coordinator is the life cycle it implements (module RunLifecycle) with  *)
(* the options of its run; a handler makes its steps.  A handler is one    *)
(* action, except that of start, which has the runner's setup between the  *)
(* critical sections of Coordinator.Start.                                 *)
(*                                                                         *)
(* A request is [path, method, body]; the body is Nil when decodeJSON      *)
(* refuses it (malformed, unknown field, trailing data) and otherwise what *)
(* the payload decodes to.                                                 *)
(***************************************************************************)
EXTENDS BenchmarkOptions, FiniteSets

CONSTANTS
    Clients,    \* connections, one per client
    Requests,   \* what a client may send
    MaxRuns     \* bound: benchmark runs

ASSUME ServerAssumption == MaxRuns \in Nat

VARIABLES
    conn,       \* client |-> state of its connection and of its handler
    request,    \* client |-> the request being handled, or Nil
    gone,       \* clients that hung up while their request was handled
    reply,      \* the response this step has written, or Nil
    phase, current, busy,   \* the coordinator: see RunLifecycle
    options,    \* options of the latest run, or Nil
    db,         \* the pool: "none", "open" or "closed"
    inShutdown  \* "no", or "yes" once Server.Shutdown has been called

Run == INSTANCE RunLifecycle

runVars == <<phase, current, busy>>
connVars == <<conn, request, gone>>

(***************************************************************************)
(* A connection: none, new (accepted, nothing read yet), idle (between two *)
(* requests), handling; for a start request also setup, or doomed when the *)
(* pool was closed before it began, installing and failing: the places     *)
(* between the critical sections of Coordinator.Start.                     *)
(***************************************************************************)
InSetup == {"setup", "doomed"}

InStart == InSetup \cup {"installing", "failing"}

InHandler == {"handling"} \cup InStart

ServerTypeOK ==
    /\ conn \in [Clients -> InHandler \cup {"none", "new", "idle"}]
    /\ request \in [Clients -> Requests \cup {Nil}]
    /\ gone \subseteq {c \in Clients : conn[c] \in InHandler}
    /\ reply = Nil \/ reply.status \in {200, 204, 400, 404, 405, 409, 500, 503}
    /\ current \in 0..MaxRuns
    /\ busy \subseteq {current}
    /\ options = Nil \/ validateStartOptions(options)

ServerInit ==
    /\ conn = [c \in Clients |-> "none"]
    /\ request = [c \in Clients |-> Nil]
    /\ gone = {}
    /\ reply = Nil
    /\ Run!Init
    /\ options = Nil
    /\ db = "none"
    /\ inShutdown = "no"

-----------------------------------------------------------------------------
\* New: every path and its one method.
Routes ==
    [healthz |-> "GET", readyz |-> "GET", benchmark |-> "GET",
     results |-> "GET", start |-> "POST", alter |-> "POST", stop |-> "POST",
     metrics |-> "GET"]

MutantAllowMethod(r) == TRUE

allowMethod(r) == r.method = Routes[r.path]

\* newBrowserCompatibleHandler, the mux and the first lines of a handler:
\* the status of a request that gets no further, else 0.
RouteStatus(r) ==
    IF r.path \notin DOMAIN Routes THEN 404
    ELSE IF r.method = "OPTIONS" THEN 204
    ELSE IF ~allowMethod(r) THEN 405
    ELSE 0

DecodeStartOptions(body) == body # Nil /\ DecodeAccepts(body)

DecodeAlterOptions(body) == body # Nil /\ validateAlterOptions(body)

statusForBenchmarkError(cause) ==
    IF cause \in {"ErrRunActive", "ErrRunNotRunning"} THEN 409 ELSE 500

-----------------------------------------------------------------------------
Accept(c) ==
    /\ conn[c] = "none"
    /\ conn' = [conn EXCEPT ![c] = "new"]
    /\ reply' = Nil
    /\ UNCHANGED <<request, gone, runVars, options, db, inShutdown>>

ReadRequest(c) ==
    /\ conn[c] \in {"new", "idle"}
    /\ \E r \in Requests : request' = [request EXCEPT ![c] = r]
    /\ conn' = [conn EXCEPT ![c] = "handling"]
    /\ reply' = Nil
    /\ UNCHANGED <<gone, runVars, options, db, inShutdown>>

\* The client closes its side; the context of a request under way is
\* cancelled.
HangUp(c) ==
    /\ conn[c] # "none" /\ c \notin gone
    /\ IF conn[c] \in InHandler
       THEN gone' = gone \cup {c} /\ UNCHANGED conn
       ELSE conn' = [conn EXCEPT ![c] = "none"] /\ UNCHANGED gone
    /\ reply' = Nil
    /\ UNCHANGED <<request, runVars, options, db, inShutdown>>

\* The handler returns; the connection is kept unless the server shuts down.
Respond(c, status, cause) ==
    /\ reply' = [status |-> status, cause |-> cause]
    /\ conn' = [conn EXCEPT ![c] = IF c \in gone \/ inShutdown = "yes"
                                   THEN "none" ELSE "idle"]
    /\ request' = [request EXCEPT ![c] = Nil]
    /\ gone' = gone \ {c}
    /\ UNCHANGED <<db, inShutdown>>

Fail(c, cause) == Respond(c, statusForBenchmarkError(cause), cause)

Handling(c, path) ==
    /\ conn[c] = "handling"
    /\ request[c].path = path
    /\ RouteStatus(request[c]) = 0

HandleUnrouted(c) ==
    /\ conn[c] = "handling"
    /\ RouteStatus(request[c]) # 0
    /\ Respond(c, RouteStatus(request[c]), "route")
    /\ UNCHANGED <<runVars, options>>

\* handleHealthz, handleBenchmark, handleBenchmarkResults, handleMetrics.
HandleRead(c) ==
    /\ \E path \in {"healthz", "benchmark", "results", "metrics"} :
          Handling(c, path)
    /\ Respond(c, 200, "none")
    /\ UNCHANGED <<runVars, options>>

\* database.CheckReadiness: what the ping of a closed pool, or one whose
\* context is cancelled, can come to, and any other.
CheckReadiness(c) ==
    IF db = "open" /\ c \notin gone THEN {"none", "ping"} ELSE {"ping"}

HandleReadyz(c) ==
    /\ Handling(c, "readyz")
    /\ \E err \in CheckReadiness(c) :
          Respond(c, IF err = "none" THEN 200 ELSE 503, err)
    /\ UNCHANGED <<runVars, options>>

-----------------------------------------------------------------------------
\* handleBenchmarkStart up to the unlock in Coordinator.Start.
HandleStart(c) ==
    LET body == request[c].body IN
    /\ Handling(c, "start")
    /\ \/ /\ ~DecodeStartOptions(body)
          /\ Respond(c, 400, IF body = Nil THEN "syntax" ELSE "validation")
          /\ UNCHANGED <<runVars, options>>
       \/ /\ DecodeStartOptions(body)
          /\ \/ /\ c \in gone
                /\ Fail(c, "canceled")
                /\ UNCHANGED <<runVars, options>>
             \/ /\ c \notin gone /\ phase \in Run!ActivePhases
                /\ Fail(c, "ErrRunActive")
                /\ UNCHANGED <<runVars, options>>
             \/ /\ c \notin gone /\ current < MaxRuns
                /\ Run!Begin
                /\ options' = Decoded(body)
                /\ conn' = [conn EXCEPT ![c] = IF db = "closed" THEN "doomed"
                                               ELSE "setup"]
                /\ reply' = Nil
                /\ UNCHANGED <<request, gone, db, inShutdown>>

\* runner.Start returns.  It goes on when the client has gone: the context of
\* the run is not the one of the request.
SetupSucceeds(c) ==
    /\ conn[c] = "setup"
    /\ conn' = [conn EXCEPT ![c] = "installing"]
    /\ reply' = Nil
    /\ UNCHANGED <<request, gone, runVars, options, db, inShutdown>>

SetupFails(c) ==
    /\ conn[c] \in InSetup
    /\ Run!Quiesce
    /\ conn' = [conn EXCEPT ![c] = "failing"]
    /\ reply' = Nil
    /\ UNCHANGED <<request, gone, options, db, inShutdown>>

\* The rest of Coordinator.Start: a run that was asked to stop meanwhile is
\* installed as well, and reported as stopping.
Install(c) ==
    /\ conn[c] = "installing"
    /\ IF phase = "starting" THEN Run!ComeUp ELSE UNCHANGED runVars
    /\ Respond(c, 200, "none")
    /\ UNCHANGED options

\* finishStartFailure.
FinishStartFailure(c) ==
    /\ conn[c] = "failing"
    /\ Run!Conclude
    /\ Fail(c, IF phase' = "stopped" THEN "canceled" ELSE "setup")
    /\ UNCHANGED options

HandleAlter(c) ==
    LET body == request[c].body IN
    /\ Handling(c, "alter")
    /\ UNCHANGED runVars
    /\ \/ /\ ~DecodeAlterOptions(body)
          /\ Respond(c, 400, IF body = Nil THEN "syntax" ELSE "validation")
          /\ UNCHANGED options
       \/ /\ DecodeAlterOptions(body)
          /\ \/ /\ phase # "running"
                /\ Fail(c, "ErrRunNotRunning")
                /\ UNCHANGED options
             \/ /\ phase = "running" /\ ~ApplyAlterAccepts(options, body)
                /\ Fail(c, "validation")
                /\ UNCHANGED options
             \/ /\ phase = "running" /\ ApplyAlterAccepts(options, body)
                /\ Respond(c, 200, "none")
                /\ options' = Altered(options, body)

HandleStop(c) ==
    /\ Handling(c, "stop")
    /\ IF phase \in {"starting", "running"} THEN Run!RequestStop
                                            ELSE UNCHANGED runVars
    /\ Respond(c, 200, "none")
    /\ UNCHANGED options

-----------------------------------------------------------------------------
Starting == \E c \in Clients : conn[c] \in InStart

\* The workers of a run that came out of setup end, by themselves, on a stop
\* or because their pool has been closed.
RunEnds ==
    /\ \A c \in Clients : conn[c] \notin InSetup
    /\ Run!Quiesce
    /\ reply' = Nil
    /\ UNCHANGED <<connVars, options, db, inShutdown>>

\* waitForRun.
ConcludeRun ==
    /\ ~Starting
    /\ Run!Conclude
    /\ reply' = Nil
    /\ UNCHANGED <<connVars, options, db, inShutdown>>

HandlerStep(c) ==
    \/ HandleUnrouted(c)
    \/ HandleRead(c)
    \/ HandleReadyz(c)
    \/ HandleStart(c)
    \/ Install(c)
    \/ FinishStartFailure(c)
    \/ HandleAlter(c)
    \/ HandleStop(c)

SetupStep(c) == SetupSucceeds(c) \/ SetupFails(c)

RunStep == RunEnds \/ ConcludeRun

ServerStep ==
    \/ \E c \in Clients : ReadRequest(c) \/ HangUp(c) \/ HandlerStep(c)
                          \/ SetupStep(c)
    \/ RunStep
=============================================================================

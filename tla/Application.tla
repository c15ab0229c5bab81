----------------------------- MODULE Application -----------------------------
(***************************************************************************)
(* cmd/pg_gobench/main.go and internal/app/app.go: the process from its    *)
(* arguments to its exit status.  The main goroutine reads the             *)
(* configuration, opens the pool, listens, announces the address and then  *)
(* waits for a signal or for the goroutine that serves; on a signal it     *)
(* shuts the server down with a deadline.  Handlers and the benchmark run  *)
(* go on beside it (module HttpServer) until the process exits: nothing    *)
(* waits for the run.  net/http and database/sql are modelled from their   *)
(* use: Shutdown closes the listener it serves and idle connections until  *)
(* none is left; Close does not wait for queries under way.                *)
(***************************************************************************)
EXTENDS HttpServer, ConfigSource

CONSTANT Setups     \* command lines, configuration files and their environment

VARIABLES
    main,       \* where the main goroutine is
    setup,      \* what the process is started with; Nil once it has been read
    source,     \* cfg.Source until the pool is opened, or Nil
    listener,   \* "none", "open" or "closed"
    server,     \* the goroutine of Serve: none, spawned, accepting, returned
    serveErrCh, \* what it has sent: <<>>, or <<set of errors>>
    signalled,  \* "yes" once a signal has cancelled ctx
    runErr,     \* errors joined in the result of Run
    failures,   \* history: the steps that failed
    exit        \* exit status of the process, -1 before

mainVars == <<main, setup, source, listener, server, serveErrCh, signalled,
              runErr, failures, exit>>

vars == <<conn, request, gone, reply, phase, current, busy, options, db,
          inShutdown, mainVars>>

aside == <<connVars, runVars, options>>

Running == main # "exited"

-----------------------------------------------------------------------------
Init ==
    /\ ServerInit
    /\ main = "parsing"
    /\ setup \in Setups
    /\ source = Nil
    /\ listener = "none"
    /\ server = "none"
    /\ serveErrCh = <<>>
    /\ signalled = "no"
    /\ runErr = {}
    /\ failures = {}
    /\ exit = -1

\* The flags of ParseConfig and the file they name.
ParseAccepts(s) ==
    /\ s.flags = "parsed" /\ s.positional = 0
    /\ s.addr # "" /\ s.config # ""
    /\ Load(s.documents, s.env, s.files)

SourceOf(s) ==
    Source(requiredMapping(Head(s.documents))["source"], s.env, s.files)

ParseConfig ==
    /\ main = "parsing"
    /\ IF ParseAccepts(setup)
       THEN /\ main' = "opening"
            /\ source' = SourceOf(setup)
            /\ UNCHANGED <<failures, exit, setup>>
       ELSE /\ main' = "exited"
            /\ failures' = {"config"}
            /\ exit' = 2
            /\ setup' = Nil
            /\ UNCHANGED source
    /\ reply' = Nil
    /\ UNCHANGED <<aside, db, inShutdown, listener, server, serveErrCh,
                   signalled, runErr>>

\* Run returns err; what it deferred comes next.
Return(errs) ==
    /\ runErr' = errs
    /\ main' = IF db' = "open" THEN "closing" ELSE "reporting"

OpenDatabase ==
    /\ main = "opening"
    /\ IF Opens(source, setup.files)
       THEN /\ db' = "open"
            /\ main' = "listening"
            /\ UNCHANGED <<runErr, failures>>
       ELSE /\ UNCHANGED db
            /\ Return({"open"})
            /\ failures' = failures \cup {"open"}
    /\ source' = Nil
    /\ setup' = Nil
    /\ reply' = Nil
    /\ UNCHANGED <<aside, inShutdown, listener, server, serveErrCh, signalled,
                   exit>>

Listen ==
    /\ main = "listening"
    /\ UNCHANGED db
    /\ \/ /\ listener' = "open"
          /\ main' = "announcing"
          /\ UNCHANGED <<runErr, failures>>
       \/ /\ Return({"listen"})
          /\ failures' = failures \cup {"listen"}
          /\ UNCHANGED listener
    /\ reply' = Nil
    /\ UNCHANGED <<aside, inShutdown, setup, source, server, serveErrCh,
                   signalled, exit>>

\* The address is written to stdout; without it the listener is closed, which
\* may fail as well.
Announce ==
    /\ main = "announcing"
    /\ UNCHANGED db
    /\ \/ /\ main' = "selecting"
          /\ server' = "spawned"
          /\ UNCHANGED <<listener, runErr, failures>>
       \/ \E errs \in {{"announce"}, {"announce", "close listener"}} :
             /\ Return(errs)
             /\ failures' = failures \cup errs
             /\ listener' = "closed"
             /\ UNCHANGED server
    /\ reply' = Nil
    /\ UNCHANGED <<aside, inShutdown, setup, source, serveErrCh, signalled,
                   exit>>

-----------------------------------------------------------------------------
(* The goroutine that serves.                                              *)

\* Serve registers the listener, unless Shutdown has been called before.
ServeBegins ==
    /\ Running
    /\ server = "spawned"
    /\ IF inShutdown = "no"
       THEN server' = "accepting" /\ UNCHANGED <<listener, serveErrCh>>
       ELSE /\ server' = "returned"
            /\ listener' = "closed"
            /\ serveErrCh' = <<{}>>
    /\ reply' = Nil
    /\ UNCHANGED <<aside, db, inShutdown, main, setup, source, signalled,
                   runErr, failures, exit>>

AcceptConnection(c) ==
    /\ Running
    /\ server = "accepting"
    /\ listener = "open"
    /\ Accept(c)
    /\ UNCHANGED mainVars

\* Accept fails for good: before a shutdown that is an error of Serve.
ServeFails ==
    /\ Running
    /\ server = "accepting"
    /\ inShutdown = "no"
    /\ server' = "returned"
    /\ listener' = "closed"
    /\ serveErrCh' = <<{"serve"}>>
    /\ failures' = failures \cup {"serve"}
    /\ reply' = Nil
    /\ UNCHANGED <<aside, db, inShutdown, main, setup, source, signalled,
                   runErr, exit>>

MutantServeEnds ==
    /\ Running
    /\ server = "accepting"
    /\ inShutdown = "yes"
    /\ server' = "returned"
    /\ reply' = Nil
    /\ UNCHANGED <<aside, db, inShutdown, main, setup, source, listener,
                   serveErrCh, signalled, runErr, failures, exit>>

\* Accept fails because Shutdown has closed the listener: ErrServerClosed.
ServeEnds ==
    /\ Running
    /\ server = "accepting"
    /\ inShutdown = "yes"
    /\ server' = "returned"
    /\ serveErrCh' = <<{}>>
    /\ reply' = Nil
    /\ UNCHANGED <<aside, db, inShutdown, main, setup, source, listener,
                   signalled, runErr, failures, exit>>

-----------------------------------------------------------------------------
Signal ==
    /\ main \notin {"parsing", "exited"}
    /\ signalled = "no"
    /\ signalled' = "yes"
    /\ reply' = Nil
    /\ UNCHANGED <<aside, db, inShutdown, main, setup, source, listener,
                   server, serveErrCh, runErr, failures, exit>>

\* One case of the select; server.Shutdown closes the listener if Serve has
\* registered it.  An error of that is returned when Shutdown is through.
SelectSignal ==
    /\ main = "selecting"
    /\ signalled = "yes"
    /\ main' = "shutdown"
    /\ inShutdown' = "yes"
    /\ IF server = "accepting"
       THEN /\ listener' = "closed"
            /\ runErr' \in {{}, {"shutdown"}}
            /\ failures' = failures \cup runErr'
       ELSE UNCHANGED <<listener, runErr, failures>>
    /\ reply' = Nil
    /\ UNCHANGED <<aside, db, setup, source, server, serveErrCh, signalled, exit>>

SelectServeError ==
    /\ main = "selecting"
    /\ serveErrCh # <<>>
    /\ UNCHANGED db
    /\ Return(serveErrCh[1])
    /\ serveErrCh' = <<>>
    /\ reply' = Nil
    /\ UNCHANGED <<aside, inShutdown, setup, source, listener, server,
                   signalled, failures, exit>>

\* The connections that Shutdown may close: idle ones, and of those that sent
\* nothing yet any that have been open for five seconds.
Closable == {{c \in Clients : conn[c] = "idle"} \cup old :
                old \in SUBSET {c \in Clients : conn[c] = "new"}}

\* A round of Shutdown, the first of which waits for Serve to return.  With no
\* connection left Shutdown returns.
ShutdownRound ==
    /\ main \in {"shutdown", "polling"}
    /\ server # "accepting"
    /\ \E closed \in Closable :
          conn' = [c \in Clients |-> IF c \in closed THEN "none" ELSE conn[c]]
    /\ main' = IF \E c \in Clients : conn'[c] # "none" THEN "polling"
               ELSE IF runErr = {} THEN "awaiting" ELSE "closing"
    /\ reply' = Nil
    /\ UNCHANGED <<request, gone, runVars, options, db, inShutdown, setup,
                   source, listener, server, serveErrCh, signalled, runErr,
                   failures, exit>>

\* The deadline passes before the next round.
ShutdownDeadline ==
    /\ main = "polling"
    /\ UNCHANGED db
    /\ Return({"shutdown"})
    /\ failures' = failures \cup {"shutdown"}
    /\ reply' = Nil
    /\ UNCHANGED <<aside, inShutdown, setup, source, listener, server,
                   serveErrCh, signalled, exit>>

MutantAwaitServe ==
    /\ main = "awaiting"
    /\ UNCHANGED db
    /\ Return({})
    /\ reply' = Nil
    /\ UNCHANGED <<aside, inShutdown, setup, source, listener, server,
                   serveErrCh, signalled, failures, exit>>

AwaitServe ==
    /\ main = "awaiting"
    /\ serveErrCh # <<>>
    /\ UNCHANGED db
    /\ Return(serveErrCh[1])
    /\ serveErrCh' = <<>>
    /\ reply' = Nil
    /\ UNCHANGED <<aside, inShutdown, setup, source, listener, server,
                   signalled, failures, exit>>

MutantJoined(errs) == IF errs = {} THEN {} ELSE errs \cup {"close database"}

\* The deferred function keeps the error of Run and adds its own.
Joined(errs) == errs \cup {"close database"}

CloseDatabase ==
    /\ main = "closing"
    /\ main' = "reporting"
    /\ db' = "closed"
    /\ \/ UNCHANGED <<runErr, failures>>
       \/ /\ runErr' = Joined(runErr)
          /\ failures' = failures \cup {"close database"}
    /\ reply' = Nil
    /\ UNCHANGED <<aside, inShutdown, setup, source, listener, server,
                   serveErrCh, signalled, exit>>

\* main.run; writeFatal panics when stderr cannot be written, exit status 2.
Exit ==
    /\ main = "reporting"
    /\ main' = "exited"
    /\ exit' \in IF runErr = {} THEN {0} ELSE {1, 2}
    /\ reply' = Nil
    /\ UNCHANGED <<aside, db, inShutdown, setup, source, listener, server,
                   serveErrCh, signalled, runErr, failures>>

-----------------------------------------------------------------------------
ServeStep == ServeBegins \/ ServeFails \/ ServeEnds

MainStep ==
    \/ ParseConfig
    \/ OpenDatabase
    \/ Listen
    \/ Announce
    \/ SelectSignal
    \/ SelectServeError
    \/ ShutdownRound
    \/ ShutdownDeadline
    \/ AwaitServe
    \/ CloseDatabase
    \/ Exit

Next ==
    \/ MainStep
    \/ ServeStep
    \/ Signal
    \/ \E c \in Clients : AcceptConnection(c)
    \/ Running /\ ServerStep /\ UNCHANGED mainVars

Spec == Init /\ [][Next]_vars

(***************************************************************************)
(* The main goroutine is scheduled, the deadline of Shutdown passes, Serve *)
(* starts and returns when its listener is closed.  Nothing is assumed of  *)
(* clients, of handlers, of a setup or of the run.                         *)
(***************************************************************************)
Fairness == WF_vars(MainStep) /\ WF_vars(ServeBegins) /\ WF_vars(ServeEnds)

FairSpec == Spec /\ Fairness

-----------------------------------------------------------------------------
TypeOK ==
    /\ ServerTypeOK
    /\ main \in {"parsing", "opening", "listening", "announcing", "selecting",
                 "shutdown", "polling", "awaiting", "closing", "reporting", "exited"}
    /\ db \in {"none", "open", "closed"}
    /\ listener \in {"none", "open", "closed"}
    /\ server \in {"none", "spawned", "accepting", "returned"}
    /\ inShutdown \in {"no", "yes"} /\ signalled \in {"no", "yes"}
    /\ exit \in {-1, 0, 1, 2}
    /\ source # Nil => main = "opening"

(***************************************************************************)
(* The exit status tells whether anything went wrong: it is 0 exactly when *)
(* no step failed, whichever of the main goroutine, the serving goroutine, *)
(* the shutdown and the deferred close it was and however they overlapped; *)
(* a refused configuration has touched neither the network nor the         *)
(* database (main.go:18-34, app.go:59-125).                                *)
(***************************************************************************)
ExitTellsFailure ==
    main = "exited" =>
       /\ exit = 0 <=> failures = {}
       /\ "config" \in failures => exit = 2 /\ db = "none" /\ listener = "none"

(***************************************************************************)
(* Requests are not cut off unnoticed: when the pool is closed under a     *)
(* handler, Run has an error to report, and a process that exits with 0    *)
(* was signalled, has answered every request it read, closed the listener  *)
(* and the pool, and left no goroutine serving (app.go:64-72, 98-124).     *)
(***************************************************************************)
CutOffIsReported ==
    /\ db = "closed" /\ (\E c \in Clients : conn[c] \in InHandler) =>
          runErr # {}
    /\ exit = 0 =>
          /\ signalled = "yes"
          /\ \A c \in Clients : conn[c] = "none"
          /\ listener = "closed" /\ db = "closed" /\ server = "returned"

(***************************************************************************)
(* A signal ends the process, whatever clients, handlers, a schema setup   *)
(* and a run are doing, and so does a server that stops serving            *)
(* (app.go:108-124).                                                       *)
(***************************************************************************)
SignalEndsProcess == signalled = "yes" \/ "serve" \in failures ~> main = "exited"

(***************************************************************************)
(* What a client is told is what happened to the run.  A request that is   *)
(* not a POST, or is refused with 4xx, leaves the run and its options      *)
(* alone; a start is answered 200 when its run is up or already stopping,  *)
(* and with an error when nothing of it is left, whatever other clients    *)
(* did during its setup (server.go:76-98, 160-246, 266-285).               *)
(***************************************************************************)
RepliesTellOutcome ==
    [][\A c \in Clients : conn[c] \in InHandler /\ reply' # Nil
                          /\ conn'[c] \notin InHandler =>
          /\ request[c].method # "POST" \/ reply'.status \in 400..499 =>
                UNCHANGED <<runVars, options>>
          /\ conn[c] \in InStart =>
                IF reply'.status = 200
                THEN phase' \in {"running", "stopping"}
                ELSE phase' \in {"stopped", "failed"} /\ busy' = {}]_vars

-----------------------------------------------------------------------------
(***************************************************************************)
(* What the plan of the API says: benchmark validation errors are answered *)
(* 400.  An alteration that is valid by itself but not for the run it is   *)
(* applied to is refused by Coordinator.Alter with an error that           *)
(* statusForBenchmarkError does not know.                                  *)
(***************************************************************************)
ValidationErrorsAre400 ==
    reply # Nil /\ reply.cause = "validation" => reply.status = 400

(***************************************************************************)
(* What the task of sslmode asks for: TLS files provide their material     *)
(* whenever TLS is enabled, and a combination of sslmode and files that    *)
(* does not go together is refused instead of silently ignored.  So a pool *)
(* that is opened with files can connect, and the server is verified       *)
(* against ca_cert.  buildTLSConfig puts the files into a clone of what    *)
(* the mode has become: nothing at all with allow, so that no handshake    *)
(* can be made; a configuration that verifies nothing with require and     *)
(* prefer; one whose callback keeps the roots of the original, which are   *)
(* the system's, with verify-ca (config.go:163-183, database.go:48, 72-83).*)
(***************************************************************************)
TLSFilesTakeEffect ==
    main = "opening" /\ hasTLS(source.tls) /\ Opens(source, setup.files) =>
       LET attempts == newConnConfig(source)
       IN  /\ \E i \in DOMAIN attempts : CanConnect(attempts[i])
           /\ source.tls["ca_cert"] # "" =>
                 \A i \in DOMAIN attempts : Consulted(attempts[i]) = {"bundle"}
=============================================================================

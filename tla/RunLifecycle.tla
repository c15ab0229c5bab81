---------------------------- MODULE RunLifecycle ----------------------------
(***************************************************************************)
(* What the control plane promises to whoever calls its HTTP API, said     *)
(* without its mutex, its goroutines or its run ids: one benchmark run at  *)
(* a time, each with a life of its own.  A run holds the database from the *)
(* moment it begins until it has quiesced; it is concluded only after it   *)
(* has quiesced, and the next one begins only after it is concluded.       *)
(***************************************************************************)
EXTENDS Naturals

VARIABLES
    phase,      \* the status the API reports
    current,    \* number of the latest run, 0 before the first
    busy        \* runs that may still be using the database

vars == <<phase, current, busy>>

ActivePhases == {"starting", "running", "stopping"}

Init ==
    /\ phase = "idle"
    /\ current = 0
    /\ busy = {}

\* A new run begins: only when nothing is under way and nothing is busy.
Begin ==
    /\ phase \notin ActivePhases
    /\ busy = {}
    /\ phase' = "starting"
    /\ current' = current + 1
    /\ busy' = {current + 1}

\* The run's schema is there and its workers are known to the control plane.
ComeUp ==
    /\ phase = "starting"
    /\ phase' = "running"
    /\ UNCHANGED <<current, busy>>

RequestStop ==
    /\ phase \in {"starting", "running"}
    /\ phase' = "stopping"
    /\ UNCHANGED <<current, busy>>

\* The run stops using the database, whatever the reason.
Quiesce ==
    /\ busy = {current}
    /\ busy' = {}
    /\ UNCHANGED <<phase, current>>

\* A run that nobody stopped while it was starting can only have failed.
Conclude ==
    /\ phase \in ActivePhases
    /\ busy = {}
    /\ phase' \in (IF phase = "starting" THEN {"failed"}
                                         ELSE {"stopped", "failed"})
    /\ UNCHANGED <<current, busy>>

Next == Begin \/ ComeUp \/ RequestStop \/ Quiesce \/ Conclude

Spec == Init /\ [][Next]_vars
=============================================================================

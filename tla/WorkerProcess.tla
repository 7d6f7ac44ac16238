---------------------------- MODULE WorkerProcess ----------------------------
(***************************************************************************)
(* A worker process as the rest of the system may rely on it: JobQueue has *)
(* several of them around the tables, WorkerPool looks inside one.  Both   *)
(* are shown to implement this module.                                     *)
(***************************************************************************)
EXTENDS Naturals

CONSTANT Concurrency    \* jobs a process may run at the same time

VARIABLES
    pc,         \* what its main loop is at
    running,    \* handlers that are running
    cancelled,  \* TRUE when it has been signalled
    row         \* TRUE when the workers table has its row

vars == <<pc, running, cancelled, row>>

-----------------------------------------------------------------------------
Init ==
    /\ pc = "off"
    /\ running = 0
    /\ cancelled = FALSE
    /\ row = FALSE

Up == pc \in {"reclaim", "select", "dispatch"}

\* The node registers before it does anything else.
Register ==
    /\ pc = "off"
    /\ pc' = "reclaim"
    /\ row' = TRUE
    /\ UNCHANGED <<running, cancelled>>

Reclaim ==
    /\ pc = "select"
    /\ pc' = "reclaim"
    /\ UNCHANGED <<running, cancelled, row>>

EndReclaim ==
    /\ pc = "reclaim"
    /\ pc' = "select"
    /\ UNCHANGED <<running, cancelled, row>>

\* A job is claimed only with a slot for it, and by no process that has been signalled.
Claim ==
    /\ pc = "select"
    /\ ~cancelled
    /\ running < Concurrency
    /\ pc' = "dispatch"
    /\ UNCHANGED <<running, cancelled, row>>

\* A claimed job is started, signal or not.
Dispatch ==
    /\ pc = "dispatch"
    /\ pc' = "select"
    /\ running' = running + 1
    /\ row' \in {row, TRUE}
    /\ UNCHANGED cancelled

\* A handler ends.
Finish ==
    /\ running > 0
    /\ running' = running - 1
    /\ row' \in {row, TRUE}
    /\ UNCHANGED <<pc, cancelled>>

\* Heartbeats, and changes of the node's status.
Upsert ==
    /\ Up
    /\ row' = TRUE
    /\ UNCHANGED <<pc, running, cancelled>>

Signal ==
    /\ Up
    /\ ~cancelled
    /\ cancelled' = TRUE
    /\ UNCHANGED <<pc, running, row>>

\* A process unregisters after the signal, when no handler is running and none is claimed.
Exit ==
    /\ pc = "select"
    /\ cancelled
    /\ running = 0
    /\ pc' = "exited"
    /\ row' = FALSE
    /\ UNCHANGED <<running, cancelled>>

\* The last upsert of an executor may come after that.
LateUpsert ==
    /\ pc = "exited"
    /\ pc' = "dead"
    /\ row' = TRUE
    /\ UNCHANGED <<running, cancelled>>

Crash ==
    /\ Up
    /\ pc' = "dead"
    /\ running' = 0
    /\ UNCHANGED <<cancelled, row>>

Next ==
    \/ Register \/ Reclaim \/ EndReclaim \/ Claim \/ Dispatch \/ Finish
    \/ Upsert \/ Signal \/ Exit \/ LateUpsert \/ Crash

Spec == Init /\ [][Next]_vars
=============================================================================

-------------------------- MODULE WorkerPoolProcess --------------------------
(***************************************************************************)
(* The goroutines of WorkerPool make up the process that JobQueue takes a  *)
(* pool to be.                                                             *)
(***************************************************************************)
EXTENDS WorkerPool

\* A process whose registration failed has never begun; one whose row came back after
\* it returned is gone with its row.
ProcessPc ==
    CASE main = "register" \/ (main = "returned" /\ beat = "off") -> "off"
      [] main \in {"reclaim", "notify"} -> "reclaim"
      [] main \in {"claimed", "activate", "spawn"} -> "dispatch"
      [] main = "returned" /\ beat # "off" -> IF row THEN "dead" ELSE "exited"
      [] main \in {"select", "fetch", "wait", "blocked", "deferred", "unregister"} -> "select"

Process == INSTANCE WorkerProcess WITH
    pc <- ProcessPc,
    running <- at["run"],
    cancelled <- ctxDone /\ ProcessPc # "off",
    row <- row

processVars == <<ProcessPc, at["run"], ctxDone /\ ProcessPc # "off", row>>

\* Of the process, JobQueue knows that it claims jobs only with a slot free and before the
\* signal, starts every job it has claimed, and unregisters when nothing is left running.
\* No interleaving of the main loop, the executors, the heartbeat and the scheduler does
\* anything else, as long as nobody calls Stop from outside, which no command does.
ImplementsProcess ==
    Process!Init /\ [][Process!Next \/ caller' # "idle"]_processVars
=============================================================================

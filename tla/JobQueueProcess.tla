--------------------------- MODULE JobQueueProcess ---------------------------
(***************************************************************************)
(* Each pool of JobQueue is a process as WorkerProcess describes it.       *)
(***************************************************************************)
EXTENDS JobQueue

ProcessPc(p) ==
    IF loop[p].pc \in {"starting", "list", "scan", "check", "fail"} THEN "reclaim"
    ELSE loop[p].pc

HasRow(p) == workers[p].status # "absent"

Process(p) == INSTANCE WorkerProcess WITH
    pc <- ProcessPc(p),
    running <- Cardinality(execs[p]),
    cancelled <- p \in cancelled,
    row <- HasRow(p)

processVars(p) == <<ProcessPc(p), Cardinality(execs[p]), p \in cancelled, HasRow(p)>>

\* What the refinement rests on: upserts come from live processes; a process has finitely
\* many executors, each of an attempt that was inserted, and not yet the one it is to start.
ProcessInv ==
    /\ \A p \in beating : Alive(p)
    /\ \A p \in Pools :
          /\ IsFiniteSet(execs[p])
          /\ \A e \in execs[p] : e.log <= Len(logs[e.job])
          /\ loop[p].pc = "dispatch" =>
                Claimed(p) \notin execs[p] /\ loop[p].log <= Len(logs[loop[p].job])

\* The pools of JobQueue do what WorkerProcess says of one process and no more: whatever
\* other pools, reclaimers and operators do to the tables, each claims jobs within its
\* slots and before its signal, starts what it has claimed, and unregisters when it is done.
ImplementsProcess ==
    /\ \A p \in Pools : Process(p)!Init
    /\ [][\A p \in Pools : UNCHANGED processVars(p) \/ Process(p)!Next]_vars
=============================================================================

-------------------------- MODULE JobQueueLifecycle --------------------------
(***************************************************************************)
(* JobQueue implements JobLifecycle: a job's abstract life is its row.     *)
(***************************************************************************)
EXTENDS JobQueue

\* The life of a job, read off the jobs table.
JobLife ==
    [j \in Jobs |-> [state |-> jobs[j].status, tries |-> jobs[j].retries,
                     limit |-> jobs[j].maxRetries]]

Lifecycle == INSTANCE JobLifecycle WITH
    Limits <- {IF r <= 0 THEN DefaultMaxRetries ELSE r : r \in RequestedRetries},
    life <- JobLife

\* The one step off the diagram: a dlq delete whose job was written to after it was read,
\* which DeletesOnlySettledJobs is about.
LateDelete == \E a \in Admins : WriteDelete(a) /\ ~StillAsRead(a)

\* docs/ARCHITECTURE.md, the diagram of the Job Lifecycle State Machine.  Every step of the
\* executors, reclaimers, late answers and dlq commands moves each job along an edge of it, or
\* leaves it alone.  Which edge a failure takes is by retry.go: the first maxRetries of a round
\* go back to pending and the next is the last.  The documents' own count is one less, and does
\* not hold: FailuresReachLimit.
ImplementsLifecycle == Lifecycle!Init /\ [][Lifecycle!Next \/ LateDelete]_JobLife
=============================================================================

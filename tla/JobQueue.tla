------------------------------ MODULE JobQueue ------------------------------
(***************************************************************************)
(* The life of a job in QueueCTL: the jobs, execution_logs and workers     *)
(* tables, the worker pools that poll them, the executor goroutines that   *)
(* run handlers, the reclaimer inside every pool's main loop, and the      *)
(* operators' dlq and purge commands.                                      *)
(*                                                                         *)
(* A database transaction, and a statement outside one, is one step.  Two  *)
(* statements of one handler that are not in one transaction are two       *)
(* steps, so that everything another process can do between them happens.  *)
(* Wall-clock time is abstracted to two facts: whether a job's run_at has  *)
(* passed (due), and whether a worker's last_heartbeat is younger than the *)
(* 30 s of PruneStale (fresh).                                             *)
(***************************************************************************)
EXTENDS Integers, Sequences, FiniteSets

CONSTANTS
    Jobs,               \* job ids (uuids: never reused)
    Pools,              \* worker pool incarnations: a restarted process has a new id
    Mortal,             \* the pools that may be signalled or killed
    Admins,             \* processes running a dlq command
    Queues,             \* queue names
    QueueOf,            \* the queue each pool was started with
    Priorities,         \* priorities a client may ask for
    RequestedRetries,   \* max-retries values a client may ask for
    DefaultMaxRetries,  \* Worker.MaxRetries of the configuration
    Concurrency,        \* slots of a pool's semaphore
    MaxReplays,         \* bound: dlq retry and restore commands
    MaxLapses,          \* bound: heartbeats of a live process more than 30 s late
    MaxLosses,          \* bound: outcome transactions that fail (busy, 5 s timeout)
    NoJob, NoWorker     \* "no value" for a job id and for a worker id

ASSUME PoolsAssumption ==
    /\ Mortal \subseteq Pools
    /\ Queues # {}
    /\ QueueOf \in [Pools -> Queues]
    /\ NoWorker \notin Pools
    /\ NoJob \notin Jobs

ASSUME LimitsAssumption ==
    /\ RequestedRetries \subseteq Int
    /\ DefaultMaxRetries \in Nat
    /\ Priorities \subseteq Int
    /\ Concurrency \in Nat \ {0}
    /\ MaxReplays \in Nat
    /\ MaxLapses \in Nat
    /\ MaxLosses \in Nat

VARIABLES
    jobs,       \* table jobs
    logs,       \* table execution_logs: the rows of each job in insertion order
    workers,    \* table workers
    loop,       \* main loop of each pool
    execs,      \* executor goroutines of each pool
    beating,    \* pools that run and have started their heartbeat goroutine
    cancelled,  \* pools whose context is cancelled
    admins,     \* dlq command each admin is in the middle of
    budget      \* what is left of the bounds above

vars == <<jobs, logs, workers, loop, execs, beating, cancelled, admins, budget>>
tables == <<jobs, logs, workers>>
process == <<loop, execs, beating, cancelled>>

-----------------------------------------------------------------------------
\* "none": not enqueued yet; "deleted": the row is gone.
JobStatus == {"none", "pending", "running", "completed", "dead_letter", "deleted"}

\* updatedAt is the row's updated_at as a stamp: every write draws a later one.
JobRow == [status: JobStatus, queue: Queues, priority: Int, retries: Nat,
           maxRetries: Nat, due: BOOLEAN, updatedAt: Nat]

\* outcome "open" is a zero finished_at; the stored status is then "failed".
LogRow == [worker: Pools, attempt: Nat, outcome: {"open", "success", "failed"}]

\* "live" is idle or active: only the metrics tell these two apart.
WorkerRow == [status: {"absent", "live", "stopped"}, fresh: BOOLEAN]

LoopState == [pc: {"off", "starting", "select", "list", "scan", "check", "fail",
                   "dispatch", "exited", "dead"}, \* unregistered, or gone with its row
              todo: SUBSET Jobs,            \* listed jobs the reclaimer has not looked at
              job: Jobs \cup {NoJob},       \* job in hand
              owner: Pools \cup {NoWorker}, \* worker of its latest log
              log: Nat]                     \* index of the log row just inserted

Execution == [job: Jobs, log: Nat]

AdminState == [op: {"none", "retry", "restore", "delete"}, job: Jobs \cup {NoJob},
               seen: Nat, target: Queues]

TypeOK ==
    /\ jobs \in [Jobs -> JobRow]
    /\ logs \in [Jobs -> Seq(LogRow)]
    /\ workers \in [Pools -> WorkerRow]
    /\ loop \in [Pools -> LoopState]
    /\ execs \in [Pools -> SUBSET Execution]
    /\ beating \subseteq Pools
    /\ cancelled \subseteq Pools
    /\ admins \in [Admins -> AdminState]
    /\ budget \in [replays: Nat, lapses: Nat, losses: Nat]

-----------------------------------------------------------------------------
SomeQueue == CHOOSE q \in Queues : TRUE

\* A main loop at pc with nothing in hand, and an admin between commands.
LoopAt(pc) == [pc |-> pc, todo |-> {}, job |-> NoJob, owner |-> NoWorker, log |-> 0]
NoCommand == [op |-> "none", job |-> NoJob, seen |-> 0, target |-> SomeQueue]

Exists(j) == jobs[j].status \notin {"none", "deleted"}

Alive(p) == loop[p].pc \notin {"off", "exited", "dead"}

\* The last row of GetByJobID, which orders by attempt; equal attempts come in
\* insertion order.
IsLatest(j, i) ==
    /\ i \in DOMAIN logs[j]
    /\ \A k \in DOMAIN logs[j] :
          \/ logs[j][k].attempt < logs[j][i].attempt
          \/ logs[j][k].attempt = logs[j][i].attempt /\ k <= i

\* Variant: updated_at is left as it was.
UpdatedUnstamped(j, status, retries, due) ==
    [jobs[j] EXCEPT !.status = status, !.retries = retries, !.due = due]

\* The row as Update writes it: status, retries_count, run_at, updated_at and
\* error_message are set; the queue is not among the columns.
Updated(j, status, retries, due) ==
    [jobs[j] EXCEPT !.status = status, !.retries = retries, !.due = due,
                    !.updatedAt = @ + 1]

\* RegisterWorker: Upsert of the in-memory node, whose last_heartbeat has just been set by
\* NewWorker, SetStatus or Heartbeat.
Registered(p) == [workers EXCEPT ![p] = [status |-> "live", fresh |-> TRUE]]

\* A change between idle and active is upserted as well, its errors ignored.
MaybeRegistered(p) == workers' = workers \/ workers' = Registered(p)

\* UnregisterWorker: the row is deleted.
Unregistered(p) == [workers EXCEPT ![p] = [status |-> "absent", fresh |-> FALSE]]

\* The history of j after the latest row, if w owns it and it is open, is completed.
\* The empty worker id owns every row.
Closed(j, w, outcome) ==
    [i \in DOMAIN logs[j] |->
        IF /\ IsLatest(j, i)
           /\ w \in {logs[j][i].worker, NoWorker}
           /\ logs[j][i].outcome = "open"
        THEN [logs[j][i] EXCEPT !.outcome = outcome]
        ELSE logs[j][i]]

\* Variant: only the status is checked, as in HandleJobSuccess.
MayFailAnyOwner(j, w) == jobs[j].status = "running"

\* The checks of HandleJobFailure that end in ErrAlreadyReclaimed when they fail.
MayFail(j, w) ==
    /\ jobs[j].status = "running"
    /\ w # NoWorker =>
          \A i \in DOMAIN logs[j] :
              IsLatest(j, i) => logs[j][i].worker = w /\ logs[j][i].outcome = "open"

\* Variants: the unused status "failed"; one retry too many.
FailedRowAsFailed(j) ==
    Updated(j, IF jobs[j].retries < jobs[j].maxRetries THEN "pending" ELSE "failed",
            jobs[j].retries + 1, FALSE)
FailedRowOneMore(j) ==
    Updated(j, IF jobs[j].retries <= jobs[j].maxRetries THEN "pending" ELSE "dead_letter",
            jobs[j].retries + 1, FALSE)

\* RetryEngine.HandleFailure and, past the limit, Router.Route.
FailedRow(j) ==
    LET tries == jobs[j].retries + 1
    IN  IF tries > jobs[j].maxRetries
        THEN Updated(j, "dead_letter", tries, jobs[j].due)
        ELSE Updated(j, "pending", tries, FALSE)

\* The transaction of HandleJobFailure: rejected, or the job and its log together.
HandleJobFailure(j, w) ==
    IF MayFail(j, w)
    THEN /\ jobs' = [jobs EXCEPT ![j] = FailedRow(j)]
         /\ logs' = [logs EXCEPT ![j] = Closed(j, w, "failed")]
    ELSE UNCHANGED <<jobs, logs>>

\* The transaction of HandleJobSuccess: it checks the status, and closes the latest
\* log only if that is the caller's.
HandleJobSuccess(j, w) ==
    IF jobs[j].status = "running"
    THEN /\ jobs' = [jobs EXCEPT ![j] =
                        Updated(j, "completed", jobs[j].retries, jobs[j].due)]
         /\ logs' = [logs EXCEPT ![j] = Closed(j, w, "success")]
    ELSE UNCHANGED <<jobs, logs>>

-----------------------------------------------------------------------------
Init ==
    /\ jobs = [j \in Jobs |->
                  [status |-> "none", queue |-> SomeQueue, priority |-> 0,
                   retries |-> 0, maxRetries |-> 0, due |-> FALSE, updatedAt |-> 0]]
    /\ logs = [j \in Jobs |-> <<>>]
    /\ workers = [p \in Pools |-> [status |-> "absent", fresh |-> FALSE]]
    /\ loop = [p \in Pools |-> LoopAt("off")]
    /\ execs = [p \in Pools |-> {}]
    /\ beating = {}
    /\ cancelled = {}
    /\ admins = [a \in Admins |-> NoCommand]
    /\ budget = [replays |-> MaxReplays, lapses |-> MaxLapses, losses |-> MaxLosses]

-----------------------------------------------------------------------------
(* Clients, and the clock of run_at *)

\* Enqueue: max-retries of zero or less asks for the configured default.
Enqueue(j) ==
    /\ jobs[j].status = "none"
    /\ \E q \in Queues, pr \in Priorities, r \in RequestedRetries, due \in BOOLEAN :
          jobs' = [jobs EXCEPT ![j] =
                      [status |-> "pending", queue |-> q, priority |-> pr, retries |-> 0,
                       maxRetries |-> IF r <= 0 THEN DefaultMaxRetries ELSE r,
                       due |-> due, updatedAt |-> 1]]
    /\ UNCHANGED <<logs, workers, process, admins, budget>>

\* run_at of a delayed or backed-off job passes.
BecomeDue(j) ==
    /\ jobs[j].status = "pending"
    /\ ~jobs[j].due
    /\ jobs' = [jobs EXCEPT ![j].due = TRUE]
    /\ UNCHANGED <<logs, workers, process, admins, budget>>

\* purge: the completed jobs older than the cutoff, any of them here, are deleted.
PurgeCompleted ==
    /\ \E S \in SUBSET {j \in Jobs : jobs[j].status = "completed"} \ {{}} :
          jobs' = [j \in Jobs |-> IF j \in S THEN [jobs[j] EXCEPT !.status = "deleted"]
                                             ELSE jobs[j]]
    /\ UNCHANGED <<logs, workers, process, admins, budget>>

-----------------------------------------------------------------------------
(* A pool's main loop: WorkerPool.Start *)

Goto(p, pc) == loop' = [loop EXCEPT ![p].pc = pc]

\* Start registers the node and goes on to reclaim orphans.
StartPool(p) ==
    /\ loop[p].pc = "off"
    /\ workers' = Registered(p)
    /\ Goto(p, "starting")
    /\ UNCHANGED <<jobs, logs, execs, beating, cancelled, admins, budget>>

\* Variant: attempts counted from zero.
AttemptFromZero(p, j) == [worker |-> p, attempt |-> jobs[j].retries, outcome |-> "open"]

\* The execution log of a claimed job, unfinished.
NewExecutionLog(p, j) ==
    [worker |-> p, attempt |-> jobs[j].retries + 1, outcome |-> "open"]

\* Variant: the status is not among the conditions.
IsNextOfQueue(p, j) ==
    LET eligible == {k \in Jobs : /\ Exists(k)
                                  /\ jobs[k].due
                                  /\ jobs[k].queue = QueueOf[p]}
    IN  j \in eligible /\ \A k \in eligible : jobs[k].priority <= jobs[j].priority

\* AcquireNextPendingJob: a due pending job of p's queue, none of a higher priority.  The
\* order among equal priorities (run_at, created_at) is left open.
IsNextPending(p, j) ==
    LET eligible == {k \in Jobs : /\ jobs[k].status = "pending"
                                  /\ jobs[k].due
                                  /\ jobs[k].queue = QueueOf[p]}
    IN  j \in eligible /\ \A k \in eligible : jobs[k].priority <= jobs[j].priority

\* FetchNextJob, on a poll tick or a notification, with a free slot: one transaction
\* marks the job as running and inserts its log.
FetchNextJob(p, j) ==
    /\ loop[p].pc = "select"
    /\ p \notin cancelled
    /\ Cardinality(execs[p]) < Concurrency
    /\ IsNextPending(p, j)
    /\ jobs' = [jobs EXCEPT ![j] = Updated(j, "running", jobs[j].retries, jobs[j].due)]
    /\ logs' = [logs EXCEPT ![j] = Append(@, NewExecutionLog(p, j))]
    /\ loop' = [loop EXCEPT ![p] = [@ EXCEPT !.pc = "dispatch", !.job = j,
                                             !.log = Len(logs[j]) + 1]]
    /\ UNCHANGED <<workers, execs, beating, cancelled, admins, budget>>

Claimed(p) == [job |-> loop[p].job, log |-> loop[p].log]

\* Variant: a claimed job is not started once the context is cancelled.
StartedUnlessCancelled(p) == IF p \in cancelled THEN execs[p] ELSE execs[p] \cup {Claimed(p)}

\* The executor goroutines with the one for the claimed job.
Started(p) == execs[p] \cup {Claimed(p)}

\* The rest of pollAndDispatch: an idle node becomes active, which is not upserted once
\* the context is cancelled; the executor goroutine starts.
Dispatch(p) ==
    /\ loop[p].pc = "dispatch"
    /\ IF p \in cancelled THEN UNCHANGED workers ELSE MaybeRegistered(p)
    /\ execs' = [execs EXCEPT ![p] = Started(p)]
    /\ loop' = [loop EXCEPT ![p] = LoopAt("select")]
    /\ UNCHANGED <<jobs, logs, beating, cancelled, admins, budget>>

\* Variant: a process that is interrupted is left to end by itself.
PrunableUnlessCancelled(w) ==
    workers[w].status = "live" /\ ~workers[w].fresh /\ w \notin cancelled

\* Variant: the age of the heartbeat is not among the conditions.
PrunableAnyLive(w) == workers[w].status = "live"

\* The rows PruneStale marks as stopped.
Prunable(w) == workers[w].status = "live" /\ ~workers[w].fresh

Pruned == [w \in Pools |-> IF Prunable(w) THEN [status |-> "stopped", fresh |-> TRUE]
                                          ELSE workers[w]]

\* ReclaimOrphanedJobs starts, at startup or on the 30 s ticker, with PruneStale.
PruneStale(p) ==
    /\ loop[p].pc \in {"starting", "select"}
    /\ p \notin cancelled
    /\ workers' = Pruned
    /\ Goto(p, "list")
    /\ UNCHANGED <<jobs, logs, execs, beating, cancelled, admins, budget>>

\* ListJobs: the running jobs, from here on a snapshot.
ListRunning(p) ==
    /\ loop[p].pc = "list"
    /\ p \notin cancelled
    /\ loop' = [loop EXCEPT ![p] = [@ EXCEPT !.pc = "scan",
                                !.todo = {j \in Jobs : jobs[j].status = "running"}]]
    /\ UNCHANGED <<tables, execs, beating, cancelled, admins, budget>>

\* GetByJobID of one listed job: who ran it last.
ReadLatestLog(p, j) ==
    /\ loop[p].pc = "scan"
    /\ p \notin cancelled
    /\ j \in loop[p].todo
    /\ \E w \in Pools \cup {NoWorker} :
          /\ IF logs[j] = <<>>
             THEN w = NoWorker
             ELSE \E i \in DOMAIN logs[j] : IsLatest(j, i) /\ w = logs[j][i].worker
          /\ loop' = [loop EXCEPT ![p] =
                          [loop[p] EXCEPT !.pc = "check", !.todo = @ \ {j},
                                          !.job = j, !.owner = w]]
    /\ UNCHANGED <<tables, execs, beating, cancelled, admins, budget>>

\* Variant: a node without a row does not count as dead.
StaleIfStopped(w) == w = NoWorker \/ workers[w].status = "stopped"

\* The worker's row is gone or stopped, or nobody ran the job.
Stale(w) == w = NoWorker \/ workers[w].status \in {"absent", "stopped"}

\* workerRepo.GetByID of the owner just read.
CheckOwner(p) ==
    /\ loop[p].pc = "check"
    /\ p \notin cancelled
    /\ loop' = [loop EXCEPT ![p] =
                    IF Stale(loop[p].owner) THEN [@ EXCEPT !.pc = "fail"]
                    ELSE [@ EXCEPT !.pc = "scan", !.job = NoJob, !.owner = NoWorker]]
    /\ UNCHANGED <<tables, execs, beating, cancelled, admins, budget>>

\* HandleJobFailure on behalf of the worker found dead.
ReclaimJob(p) ==
    /\ loop[p].pc = "fail"
    /\ p \notin cancelled
    /\ HandleJobFailure(loop[p].job, loop[p].owner)
    /\ loop' = [loop EXCEPT ![p] = [@ EXCEPT !.pc = "scan", !.job = NoJob,
                                             !.owner = NoWorker]]
    /\ UNCHANGED <<workers, execs, beating, cancelled, admins, budget>>

\* The listed jobs are done; after the reclaim at startup the heartbeat goroutine starts.
FinishReclaim(p) ==
    /\ loop[p].pc = "scan"
    /\ p \notin cancelled
    /\ loop[p].todo = {}
    /\ loop' = [loop EXCEPT ![p] = LoopAt("select")]
    /\ beating' = beating \cup {p}
    /\ UNCHANGED <<tables, execs, cancelled, admins, budget>>

\* Every statement of a reclaim fails once its context is cancelled.
AbandonReclaim(p) ==
    /\ loop[p].pc \in {"starting", "list", "scan", "check", "fail"}
    /\ p \in cancelled
    /\ loop' = [loop EXCEPT ![p] = LoopAt("select")]
    /\ beating' = beating \cup {p}
    /\ UNCHANGED <<tables, execs, cancelled, admins, budget>>

\* ctx.Done, Stop: with every executor finished, Start returns and unregisters the node.
ShutDown(p) ==
    /\ loop[p].pc = "select"
    /\ p \in cancelled
    /\ execs[p] = {}
    /\ workers' = Unregistered(p)
    /\ Goto(p, "exited")
    /\ beating' = beating \ {p}
    /\ UNCHANGED <<jobs, logs, execs, cancelled, admins, budget>>

-----------------------------------------------------------------------------
(* Executor goroutines: executeWorker.  A panic takes the path of an error. *)

\* The goroutine releases its slot and may set the node idle.
Finish(p, e) ==
    /\ execs' = [execs EXCEPT ![p] = @ \ {e}]
    /\ MaybeRegistered(p)

ExecutionSucceeds(p, e) ==
    /\ e \in execs[p]
    /\ HandleJobSuccess(e.job, p)
    /\ Finish(p, e)
    /\ UNCHANGED <<loop, beating, cancelled, admins, budget>>

ExecutionFails(p, e) ==
    /\ e \in execs[p]
    /\ HandleJobFailure(e.job, p)
    /\ Finish(p, e)
    /\ UNCHANGED <<loop, beating, cancelled, admins, budget>>

\* The outcome's transaction fails or times out: it is logged and given up.
OutcomeIsLost(p, e) ==
    /\ e \in execs[p]
    /\ budget.losses > 0
    /\ budget' = [budget EXCEPT !.losses = @ - 1]
    /\ Finish(p, e)
    /\ UNCHANGED <<jobs, logs, loop, beating, cancelled, admins>>

-----------------------------------------------------------------------------
(* Heartbeats, signals and crashes *)

\* An upsert by the heartbeat goroutine, one under way at the signal included, or by an
\* executor that has released its slot.
Heartbeat(p) ==
    /\ p \in beating
    /\ workers' = Registered(p)
    /\ UNCHANGED <<jobs, logs, process, admins, budget>>

\* The upsert of an executor that Stop has not waited for: it is past wg.Done when the node
\* is unregistered.
LateUpsert(p) ==
    /\ loop[p].pc = "exited"
    /\ \E j \in Jobs : \E i \in DOMAIN logs[j] : logs[j][i].worker = p
    /\ workers' = Registered(p)
    /\ Goto(p, "dead")
    /\ UNCHANGED <<jobs, logs, execs, beating, cancelled, admins, budget>>

\* 30 s without a heartbeat.  Free for a process that is gone; a live one needs a
\* stall, failing upserts, or a drain longer than 25 s (heartbeats stop at the signal).
Lapse(p) ==
    /\ workers[p].status = "live"
    /\ workers[p].fresh
    /\ Alive(p) => budget.lapses > 0
    /\ workers' = [workers EXCEPT ![p].fresh = FALSE]
    /\ budget' = IF Alive(p) THEN [budget EXCEPT !.lapses = @ - 1] ELSE budget
    /\ UNCHANGED <<jobs, logs, process, admins>>

\* SIGINT or SIGTERM cancels the context, which also ends the heartbeat goroutine, but not in
\* the middle of an upsert.
Interrupt(p) ==
    /\ p \in Mortal
    /\ Alive(p)
    /\ p \notin cancelled
    /\ cancelled' = cancelled \cup {p}
    /\ UNCHANGED <<tables, loop, execs, beating, admins, budget>>

\* The process dies: a crash, the kill of worker stop, the forced exit after 30 s.
Crash(p) ==
    /\ p \in Mortal
    /\ Alive(p)
    /\ loop' = [loop EXCEPT ![p] = LoopAt("dead")]
    /\ execs' = [execs EXCEPT ![p] = {}]
    /\ beating' = beating \ {p}
    /\ UNCHANGED <<tables, cancelled, admins, budget>>

\* The metrics command prunes stale workers too; the rest of it only reads.
GetMetrics ==
    /\ workers' = Pruned
    /\ UNCHANGED <<jobs, logs, process, admins, budget>>

-----------------------------------------------------------------------------
(* The dlq commands: GetByID and the status check, then a write, outside a transaction *)

ReadDeadLetter(a, j, op, target) ==
    /\ admins[a].op = "none"
    /\ jobs[j].status = "dead_letter"
    /\ op # "delete" => budget.replays > 0
    /\ budget' = IF op = "delete" THEN budget ELSE [budget EXCEPT !.replays = @ - 1]
    /\ admins' = [admins EXCEPT ![a] = [op |-> op, job |-> j, seen |-> jobs[j].updatedAt,
                                        target |-> target]]
    /\ UNCHANGED <<tables, process>>

CommandDone(a) ==
    admins' = [admins EXCEPT ![a] = NoCommand]

\* Variant: Update by id alone.
StillAsReadById(a) == Exists(admins[a].job)

\* The WHERE clause of Update: the row exists and updated_at is what the command read.
StillAsRead(a) ==
    Exists(admins[a].job) /\ jobs[admins[a].job].updatedAt = admins[a].seen

\* Variant: the retries are not given back.
ReplayedWithRetries(j) == Updated(j, "pending", jobs[j].retries, TRUE)

\* The row as the retry and restore commands write it.
Replayed(j) == Updated(j, "pending", 0, TRUE)

\* Update of the retry and restore commands: nothing if updated_at is not what was read.
\* Restore has set job.Queue to the target, but Update does not write that column: the job
\* stays in its queue, and the target is read by nobody.
WriteReplay(a) ==
    LET j == admins[a].job
    IN  /\ admins[a].op \in {"retry", "restore"}
        /\ jobs' = IF StillAsRead(a) THEN [jobs EXCEPT ![j] = Replayed(j)] ELSE jobs
        /\ CommandDone(a)
        /\ UNCHANGED <<logs, workers, process, budget>>

\* Delete of the delete command: by id alone.
WriteDelete(a) ==
    LET j == admins[a].job
    IN  /\ admins[a].op = "delete"
        /\ jobs' = IF Exists(j) THEN [jobs EXCEPT ![j].status = "deleted"] ELSE jobs
        /\ CommandDone(a)
        /\ UNCHANGED <<logs, workers, process, budget>>

-----------------------------------------------------------------------------
LoopStep(p) ==
    \/ StartPool(p)
    \/ \E j \in Jobs : FetchNextJob(p, j)
    \/ Dispatch(p)
    \/ PruneStale(p)
    \/ ListRunning(p)
    \/ \E j \in Jobs : ReadLatestLog(p, j)
    \/ CheckOwner(p)
    \/ ReclaimJob(p)
    \/ FinishReclaim(p)
    \/ AbandonReclaim(p)
    \/ ShutDown(p)

ExecutorStep(p) ==
    \E e \in execs[p] :
        ExecutionSucceeds(p, e) \/ ExecutionFails(p, e) \/ OutcomeIsLost(p, e)

Environment(p) == Heartbeat(p) \/ LateUpsert(p) \/ Lapse(p) \/ Interrupt(p) \/ Crash(p)

AdminStep(a) ==
    \/ \E j \in Jobs, op \in {"retry", "delete"} : ReadDeadLetter(a, j, op, jobs[j].queue)
    \/ \E j \in Jobs, q \in Queues : ReadDeadLetter(a, j, "restore", q)
    \/ WriteReplay(a)
    \/ WriteDelete(a)

Next ==
    \/ \E j \in Jobs : Enqueue(j) \/ BecomeDue(j)
    \/ PurgeCompleted
    \/ GetMetrics
    \/ \E p \in Pools : LoopStep(p) \/ ExecutorStep(p) \/ Environment(p)
    \/ \E a \in Admins : AdminStep(a)

Spec == Init /\ [][Next]_vars

-----------------------------------------------------------------------------
(* Safety *)

\* An attempt left open in execution_logs is the last one inserted for its job, and the
\* job is running it or is past it: no pending or dead-lettered job has an open attempt,
\* and no job has two.  FetchNextJob inserts without looking at earlier rows, so this
\* rests on every path back to pending closing its row, late answers, reclaims and stale
\* dlq commands included.
OpenAttemptIsCurrent ==
    \A j \in Jobs : \A i \in DOMAIN logs[j] :
        logs[j][i].outcome = "open" =>
            i = Len(logs[j]) /\ jobs[j].status \in {"running", "completed", "deleted"}

\* A running job's last inserted row is open and carries the attempt number that
\* retries_count says is under way, so a reclaim can find who to blame.
RunningHasOpenAttempt ==
    \A j \in Jobs : jobs[j].status = "running" =>
        LET n == Len(logs[j])
        IN  n > 0 /\ logs[j][n].outcome = "open" /\ logs[j][n].attempt = jobs[j].retries + 1

\* retry.go, HandleFailure, and retry_test.go: a job is dead-lettered by the failure that makes
\* retries_count exceed max_retries.  So it is started at most maxRetries + 1 times between two
\* replays, whatever crashes, lapses and late answers do: no attempt number beyond that, and
\* none used more often than the job was replayed, plus one.  Three documents give one
\* start less: FailuresReachLimit.
AttemptBudget ==
    \A j \in Jobs :
        /\ \A i \in DOMAIN logs[j] : logs[j][i].attempt <= jobs[j].maxRetries + 1
        /\ \A n \in 1 .. jobs[j].maxRetries + 1 :
              Cardinality({i \in DOMAIN logs[j] : logs[j][i].attempt = n})
                  <= 1 + MaxReplays - budget.replays

\* docs/CLI.md, --max-retries: "Max execution failures before moving to the DLQ."
\* docs/ARCHITECTURE.md, DeadLetter: "The job has failed `max_retries` times."  A job whose
\* failures have come to max_retries is not attempted again.  (A replay starts a new count; a
\* limit of zero failures would leave nothing to attempt.)
FailuresReachLimit ==
    budget.replays = MaxReplays =>
        \A j \in Jobs : jobs[j].status \in {"pending", "running"} /\ jobs[j].maxRetries > 0 =>
            Cardinality({i \in DOMAIN logs[j] : logs[j][i].outcome = "failed"})
                < jobs[j].maxRetries

\* While no outcome has been lost, a running job has an executor of the worker that
\* claimed it, or that worker is gone and a reclaimer will see it so: no order of late
\* answers and reclaims leaves a job running that nobody runs and nobody will reclaim.
RunningIsBacked ==
    budget.losses = MaxLosses /\ budget.replays = MaxReplays =>
        \A j \in Jobs : jobs[j].status = "running" =>
            LET n == Len(logs[j])
                w == logs[j][n].worker
            IN  \/ [job |-> j, log |-> n] \in execs[w]
                \/ loop[w].pc = "dispatch" /\ loop[w].job = j /\ loop[w].log = n
                \/ ~Alive(w)

\* TEST_PLAN.md: "A single job must never be picked up by multiple workers concurrently."
\* No job has two executor goroutines at once, of one pool or of two.
NoDuplicateRuns ==
    \A p, q \in Pools : \A e \in execs[p], f \in execs[q] :
        e.job = f.job => p = q /\ e = f

\* The same promise, kept as long as no live process has been taken for dead: no order of
\* claims, crashes, reclaims, lost outcomes and dlq commands hands a job out twice.
NoDuplicateRunsOnTime == budget.lapses = MaxLapses => NoDuplicateRuns

\* A completed job's attempts are closed.  HandleJobSuccess: "updates job state and
\* closes the execution log attempt."
CompletionClosesAttempt ==
    \A j \in Jobs : jobs[j].status = "completed" =>
        \A i \in DOMAIN logs[j] : logs[j][i].outcome # "open"

\* The same promise, kept as long as no live process has been taken for dead and nothing was
\* replayed: HandleJobSuccess closes the latest log only if that is its caller's, and no order
\* of claims, crashes, reclaims and lost outcomes makes it another's or an older one.
CompletionClosesAttemptOnTime ==
    budget.lapses = MaxLapses /\ budget.replays = MaxReplays => CompletionClosesAttempt

\* While nothing is replayed, retries_count counts the failures: the first so many attempts of
\* a job are the failed ones.  An attempt that its worker and a reclaimer both report is not
\* counted twice, and none is closed as failed without being counted.
RetriesAreFailures ==
    budget.replays = MaxReplays =>
        \A j \in Jobs :
            /\ jobs[j].retries <= Len(logs[j])
            /\ \A i \in DOMAIN logs[j] :
                  logs[j][i].outcome = "failed" <=> i <= jobs[j].retries

KeepsSettled ==
    \A j \in Jobs :
        /\ jobs[j].status = "completed" => jobs'[j].status \in {"completed", "deleted"}
        /\ jobs[j].status = "deleted" => jobs'[j] = jobs[j]
        /\ jobs[j].status = "dead_letter" /\ jobs'[j] # jobs[j] =>
              \E a \in Admins : /\ admins[a].job = j
                                /\ admins'[a] = NoCommand
                                /\ admins[a].op # "delete" =>
                                      admins[a].seen = jobs[j].updatedAt

\* Once a job is completed or deleted nothing brings it back, and a dead-lettered job
\* is brought back only by a dlq command that read this very row: an executor or a
\* reclaimer that answers late changes nothing.
LateAnswersRejected == [][KeepsSettled]_vars

\* As long as no live process has been taken for dead, an attempt is closed by the very
\* executor that runs it, or its process is gone: no reclaimer takes an attempt away from
\* a live one, and no late answer of a worker closes an attempt that is not its own, though
\* HandleJobFailure and HandleJobSuccess compare worker ids and not attempts.
AnsweredByItsRunner ==
    [][budget.lapses = MaxLapses /\ budget'.lapses = MaxLapses =>
          \A j \in Jobs : \A i \in DOMAIN logs[j] :
              logs[j][i].outcome = "open" /\ logs'[j][i].outcome # "open" =>
                  LET w == logs[j][i].worker
                  IN  \/ [job |-> j, log |-> i] \in execs[w] \ execs'[w]
                      \/ ~Alive(w)]_vars

\* dlq.Service.Delete: "removes a DLQ job from the database."  With purge, a row is
\* removed only in the state the command checked for.
DeletesOnlySettledJobs ==
    [][\A j \in Jobs : jobs[j].status # "deleted" /\ jobs'[j].status = "deleted" =>
          jobs[j].status \in {"dead_letter", "completed"}]_vars

-----------------------------------------------------------------------------
(* Liveness *)

\* The select of the main loop chooses among ready cases at random, so a case that is
\* ready again and again is taken (SF); a started handler, a started statement and the
\* clock go on (WF).  Nothing is assumed of clients, operators, signals and crashes.
Fairness ==
    /\ \A p \in Pools \ Mortal :
          /\ WF_vars(StartPool(p))
          /\ SF_vars(\E j \in Jobs : FetchNextJob(p, j))
          /\ SF_vars(PruneStale(p))
          /\ WF_vars(ListRunning(p))
          /\ WF_vars(\E j \in Jobs : ReadLatestLog(p, j))
          /\ WF_vars(CheckOwner(p))
          /\ WF_vars(ReclaimJob(p))
          /\ WF_vars(FinishReclaim(p))
    /\ \A p \in Pools :
          /\ WF_vars(Dispatch(p))
          /\ WF_vars(\E e \in execs[p] : ExecutionSucceeds(p, e) \/ ExecutionFails(p, e))
          /\ WF_vars(~Alive(p) /\ Lapse(p))
    /\ \A j \in Jobs : WF_vars(BecomeDue(j))

FairSpec == Spec /\ Fairness

\* A job that is not replayed from the DLQ, and whose outcomes reach the database, ends
\* completed, dead-lettered or deleted, whichever pools crash while they run it.
EveryJobSettles ==
    [](budget.losses = MaxLosses /\ budget.replays = MaxReplays) =>
        \A j \in Jobs : jobs[j].status \in {"pending", "running"} ~>
                           jobs[j].status \in {"completed", "dead_letter", "deleted"}

\* TEST_PLAN.md, Zero Orphaned Jobs: "Any running job whose worker dies must be marked as
\* pending or sent to the DLQ."
ZeroOrphanedJobs ==
    \A j \in Jobs, p \in Mortal :
        (jobs[j].status = "running" /\ ~Alive(p) /\ logs[j][Len(logs[j])].worker = p)
            ~> (jobs[j].status # "running" \/ logs[j][Len(logs[j])].worker # p)
=============================================================================

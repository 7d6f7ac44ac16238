# QueueCTL in TLA+

QueueCTL is a persistent job queue: command-line clients put jobs into a SQLite database,
worker processes poll it and run handlers, failures are retried with a backoff and end in a
dead letter queue (DLQ), and every worker also looks for jobs whose worker has died.  All
coordination between processes goes through three tables.  This project models that
coordination, checks it with TLC and proves its core with TLAPS.

## 1. The system

| Part | State | Operations | Talks to |
|---|---|---|---|
| `JobService` (`internal/service`) | none of its own | Enqueue, FetchNextJob, HandleJobSuccess, HandleJobFailure, ReclaimOrphanedJobs, Register/UnregisterWorker, ExecuteJob | the repositories, the retry engine, the scheduler |
| job repository | table `jobs` (status, queue, priority, retries_count, max_retries, run_at, updated_at) | AcquireNextPendingJob and WithTx (transactions), Update (only if updated_at is what was read), Delete, DeleteCompletedJobs | SQLite, one connection per process |
| execution log repository | table `execution_logs`: one row per attempt, without a foreign key | Create, Update, GetByJobID (ordered by attempt) | SQLite |
| worker repository | table `workers` | Upsert, Delete, GetByID, PruneStale (last_heartbeat older than 30 s) | SQLite |
| `WorkerPool` (`internal/worker`) | semaphore channel, wait group, stop channel with a `sync.Once`, in-memory node | main loop (poll, notification, reclaim every 30 s, stop), heartbeat goroutine (5 s), one executor goroutine per job | `JobService` |
| retry engine, backoff | none | next status after a failure and, by the backoff, next run_at; past the limit, route to the DLQ | DLQ router |
| DLQ service | none | Retry, Restore, Delete: a read, then a write, no transaction | job repository |
| scheduler | a channel with one slot | Notify (dropped when the channel is full), periodic ticker | Enqueue and the reclaimer send; the main loop of the same process receives |
| metrics | none | PruneStale, then counts | repositories |
| CLI | PID file | worker start/stop (SIGINT, kill after 5 s, forced exit 30 s after the signal), enqueue, dlq, purge, list, status, config | everything above |
| configuration | current configuration, callbacks | load, hot reload | logger |

What is hard here, and where the properties aim:

* **Several processes on one table.**  Pools, their executors, their reclaimers and operators
  change the same job in transactions, or in a read and a later write.
* **A dead worker and a slow one look the same**: liveness is a heartbeat, ownership of a job
  is the last row of its execution log.  Late answers must change nothing.
* **Crashes** between claiming a job, starting it, and recording its outcome.
* **Clocks** that must leave room for one another: tickers, limits on statements, the age at
  which a worker is taken for dead, backoffs, purge cutoffs.
* **A shutdown** in which the main loop, executors, heartbeat and callers of Stop wait for one
  another.

`PROJECT.json` lists each hazard at its line with the properties that would notice it.

## 2. Modules

| Module | What it is |
|---|---|
| `JobQueue` | the core: tables, several pools, reclaimers, executors, operators, crashes; safety, liveness, fairness |
| `JobQueueInvariant` | the inductive invariants behind `JobQueue`'s safety, in three parts: always, while heartbeats are on time, and counting attempts |
| `JobLifecycle` | the abstract specification: the documented states and edges of one job, with the retry count of the code |
| `JobQueueLifecycle` | the refinement mapping: `JobQueue` implements `JobLifecycle` |
| `JobQueue_proofs` | type correctness and safety of `JobQueue`, proved |
| `JobQueueOnTime_proofs` | no duplicate runs, and attempts closed by those who run them, while heartbeats are on time |
| `JobQueueAttempts_proofs` | the budget of attempts, how they end, and that running jobs are backed |
| `JobQueueLifecycle_proofs` | the refinement, proved |
| `WorkerProcess` | the abstract specification of one worker process: what the rest of the system relies on |
| `JobQueueProcess`, `JobQueueProcess_proofs` | each pool of `JobQueue` implements it: the mapping, and the proof |
| `WorkerPool` | the goroutines of one process, statement by statement, with the scheduler's channel |
| `WorkerPoolProcess` | the goroutines together implement `WorkerProcess` as well: the mapping |
| `WorkerPool_proofs` | safety of `WorkerPool`, and the refinement of `WorkerProcess`, proved |
| `WorkerControl` | worker start and worker stop: the PID file, process numbers, signals |
| `WorkerControl_proofs` | safety of `WorkerControl`, proved |
| `Timing` | the tickers, limits, delays and ages of the code in units of time, around one job |
| `Timing_proofs` | bounds on these times, proved for all durations that leave enough room |
| `MCJobQueue`, `MCTiming` and the `.cfg` files | instances for TLC |

The four state machines cut the system along its interfaces.  `JobQueue` has every process that
touches the tables, and lets each clock go off at any moment.  `WorkerPool` looks inside one of
these processes, `WorkerControl` at the commands that start and end it, and `Timing` says when
the clocks that `JobQueue` leaves open do go off.  The first two meet in `WorkerProcess`.

### `JobQueue`

State and code: `jobs`, `logs`, `workers` are the tables; `loop[p]` is where the main loop of
pool `p` is (`worker.go` `Start`) and what its reclaimer has in hand; `execs[p]` are its executor
goroutines, `beating` and `cancelled` its heartbeat goroutine and context; `admins` are dlq
commands between their read and their write; `budget` holds what is left of the bounds.

A transaction, or a statement outside one, is one action; a handler with two statements
outside a transaction is two:

* client: `Enqueue`; clock: `BecomeDue`; operators: `PurgeCompleted`, `GetMetrics` (it prunes),
  `ReadDeadLetter` then `WriteReplay` (retry, restore) or `WriteDelete`;
* main loop: `StartPool`, `FetchNextJob`, `Dispatch`, and the reclaimer `PruneStale`, `ListRunning`,
  `ReadLatestLog`, `CheckOwner`, `ReclaimJob`, `FinishReclaim`, `AbandonReclaim`; then `ShutDown`;
* executors: `ExecutionSucceeds`, `ExecutionFails` (a panic too), `OutcomeIsLost`;
* environment: `Heartbeat` (one may be under way at the signal, so the goroutine lives until the
  node is unregistered), `LateUpsert` (an executor past `wg.Done` puts the row of an exited node
  back: the row is then no one's), `Lapse`, `Interrupt`, `Crash`.

Abstractions, and why they are sound for the properties:

* Time is `due` (run_at has passed) and `fresh` (heartbeat younger than 30 s).  A heartbeat of a
  dead process may lapse freely; one of a live process only while `budget.lapses` lasts.  This
  is what separates what holds always from what holds when heartbeats are on time.  `Timing`
  shows what "on time" asks of the durations.
* `updated_at` is a stamp that grows with every write of the row.  The code compares
  nanosecond UTC timestamps as text; that two writes of a row never get the same one is assumed.
* Among due jobs of the highest priority any may be taken (the code orders them by run_at and
  created_at).  Job payloads, names, error texts and the length of the backoff are left out.
* A worker row is absent, live or stopped; `idle` and `active` are merged, since only metrics
  tell them apart.  Upserts that accompany their change have their errors ignored in the code,
  so they may or may not happen (`MaybeRegistered`).
* `Finish` takes an outcome's transaction, the release of the slot and the upsert as one
  step.  `WorkerPool` takes them apart.
* `--all` variants of dlq commands are the command for one job, repeated.  The reclaimer's
  limit of 1000 listed jobs is not modelled.  Database errors are modelled where the code
  goes on without retrying: lost outcomes and upserts.
* `StatusFailed` is defined in `domain/job.go` and never written; it is not a status here.
* `Closed` and `Stale` have a case for a running job without history, as the code has; the
  invariant `RunningHasOpenAttempt` shows that it does not arise.

### `WorkerPool`

`main`, `beat` and `caller` are program counters; executors are interchangeable, so `at` counts
them per statement of `executeWorker`.  `sem`, `wg`, `once`, `stopChan`, `ctxDone`, `node` are the Go
objects of the same name, `row` whether the table has the node's row.  `SeeCancel` and `SeeStop`
are the two ways out of the select, of which only the first calls `Stop`; the deferred function of
`Start` is `JoinHeartbeat` and `Unregister`; that of an executor is `ReleaseSlot`, `LeaveGroup`,
`SeeUnused`/`SeeUsed`, `SetIdle`, `UpsertIdle`.  A test of `len(sem)` and the read of the node's
status after it are one step.  The registration may fail (`RegisterFails`), for whatever reason; the
delete of the row is taken to succeed.

`wake` is the scheduler's channel of capacity one.  Those who send are the callers of Enqueue in
this process (`Insert`, then `Announce`; `announcing` counts those between the two), the reclaimer
(`NotifyReclaimed`, from the main loop itself) and the ticker (`SchedulerTick`).  A send to a full
channel is dropped.  The main loop polls by its own ticker (`PollTick`) or on a wake-up
(`TakeWake`), which is used up for nothing when every slot is taken (`WakeThrottled`).  Jobs are
counted: `pending` are due and waiting, and become so by `Insert` or, without a word to this
process, by `ReadyUnannounced`; another pool may take them (`TakenElsewhere`).  `late` is not in
the code: it remembers that a waiting job may have lost its wake-up in one of the ways the code
provides for.

### `WorkerControl`

The two commands of `internal/cli/worker.go`, any number of each, on one PID file.  `proc[w]` is the
statement a start command is at (`Launch`, `WritePIDFile`, `CatchSignals`, `Return`, `RemoveAndExit`;
`Die` is a crash or the forced exit, both of which leave the file), `pid[w]` its process number,
which may be given to another process once it has ended.  `stop[s]` is the statement of a stop
command, `target[s]` the number it has read, `held[s]` what `os.FindProcess` gave it: a handle for
one process (Linux with pidfd, the Go version of `go.mod`) or only the number (other Unix systems).
Which of the two is left open.  `aim[s]` is not in the code: it remembers which worker had
the number when it was read, for the property to speak of.

A signal before `signal.Notify` ends the process; after it, it starts the drain.  `os.WriteFile`
(truncate, then write) is one step; a stop that reads between the two gets an error and ends,
changing nothing.  The signal fails only if there is no process: on Windows it always fails,
and `docs/CLI.md` says that worker stop is not supported there; all commands are taken to be one
user's, so that none lacks the permission.  Two more idealisations: `Kill` ends the process in the
same step (the code ignores Kill's error and does not wait, so a report may precede the end by as
long as the system takes to deliver it), and the worker's own removal of the file, deferred to the
end of the command, is one step with its exit.  Time is left out: the timeout may
come at any moment of the polling loop, the forced exit at any moment.

### `Timing`

Two worker processes share one job: `node` starts, beats, may be signalled, drains, is killed or
exits; the *keeper* is healthy, polls and reclaims.  Every clock is a variable: `nextBeat`,
`reclaimIn` and `pollIn` count down to the next tick of the heartbeat, reclaim and poll tickers,
`elapsed` is the time spent starting or draining, `upsert` the age of the stamp that an upsert
under way is about to write, `age` that of the row's last heartbeat, `wait` the time to the job's
run_at and `since` the age of its updated_at.  `Tick` lets one unit pass, and not while something
is due (`NothingIsDue`): a ticker fires on time and a context expires on time, so no fairness is
needed and the timing properties are safety properties.

* A heartbeat writes the stamp taken *before* its upsert, which takes up to 3 s and may fail;
  the heartbeat goroutine ends at the signal but not in the middle of an upsert; the ticker
  starts only after the reclaim at startup.  `StartLimit` (how long that reclaim takes) and
  `MaxMisses` (upserts that fail in a row) are assumptions, not code; `TimersAssumption` says
  that they and the code's own 5 s and 3 s fit into the 30 s of PruneStale.
* Executors upsert the row as well; this is left out, since it can only make `age` smaller.
* `Calculate` is `Backoff.Calculate` with the cap applied after the conversion of a float64 to a
  `time.Duration`.  Where the product does not convert the result depends on the machine: the
  least duration on amd64, which passes the cap and makes the retry due at once, the greatest on
  arm64, which is capped.  Both are allowed.  With the default base of 2 s this takes 33
  retries or more; the instance scales the delays down to reach it at the third.
* `PurgeCompleted` compares a cutoff in the local zone with a UTC stamp as text, which adds the
  zone's offset to the age asked for.  Run `timing` purges in UTC, `purge_zone` in any zone.
* The keeper always has a free slot, and its polls and reclaims do not fail; there is one job.  So
  `RetriesAreStarted` says nothing of a pool under load, which throttles its polls, nor
  `OrphansAreReclaimed` of a reclaim that fails and is left to the next tick.

### `WorkerProcess` and the two that implement it

`JobQueue` and `WorkerPool` describe the same process, one from outside and one from inside, and
nothing in either says that they agree.  `WorkerProcess` is what they must agree on: the place of
the main loop, the number of handlers that run, the signal, and whether the table has the node's
row.  A process registers before it reclaims, claims a job only with a slot free and before its
signal, starts every job it has claimed even if the signal comes in between, unregisters only
with nothing claimed and nothing running, and may get its row back once after that.

`JobQueueProcess` reads this off the tables and the pool's part of the state, for every pool while
the others prune, reclaim and claim; `WorkerPoolProcess` off the program counters of one process.
`at["run"]`, the executors whose handler has not returned, are the handlers that run: an executor
that only gives back its slot no longer counts, which is why `JobQueue` may take the end of an
executor as one step.  The second holds for as long as nobody calls Stop from outside, which no
command does.

### `JobLifecycle` and the refinement

`JobLifecycle` has the states and edges of the diagram in `docs/ARCHITECTURE.md`: nothing but
Enqueue, Acquire, Complete, Retry, DeadLetter, Replay, Discard, Purge.  When a failure is a Retry and
when a DeadLetter is taken from `retry.go`: failure number `max_retries` + 1 is the last.  The text
below the diagram says number `max_retries`; run `retry_limit` checks that statement, and finds
it violated.  `JobQueueLifecycle` maps
a job's row to its abstract state.  The refinement holds for any number of operators but for one
step, `LateDelete`: a `dlq delete` whose job was written to after it was read.  Run `delete_race`
shows where that leads.

## 3. Runs

| Run | Instance | Shows |
|---|---|---|
| `faults` | 1 job, 2 mortal pools, 2 operators, 2 replays, 1 late heartbeat, 1 lost outcome | `TypeOK`, `OpenAttemptIsCurrent`, `RunningHasOpenAttempt`, `AttemptBudget`, `RunningIsBacked`, `NoDuplicateRunsOnTime`, `CompletionClosesAttemptOnTime`, `RetriesAreFailures`, `LateAnswersRejected`, `AnsweredByItsRunner`, `ImplementsLifecycle`, `ImplementsProcess`; and the invariants of the proofs, `Inductive`, `InductiveOnTime`, `InductiveAttempts` |
| `liveness` | 1 job, one mortal pool and one that goes on, 1 late heartbeat, 1 lost outcome | `EveryJobSettles`, `ZeroOrphanedJobs` |
| `pool` | 2 slots, 3 jobs, 1 caller of Enqueue, a signal and a Stop from outside at any point | `TypeOK`, `SlotsAreHeld`, `DrainsOnSignal`, `WakeUpsAreNotLost`, `NoCircularWait`, `NoHeartbeatReregisters`, `ImplementsProcess`, `ShutdownCompletes`, `EveryJobIsStarted` |
| `control` | 2 starts, 2 stops, 2 process numbers | `StopIsFinal`, `SoleWorkerIsStoppable`, `StopEnds` |
| `timing` | the code's own durations in seconds, 4 failed upserts in a row, backoffs scaled down | `TypeOK`, `HealthyIsNotPruned`, `HealthyRunsAlone`, `OrphansAreReclaimed`, `RetriesAreStarted`, `RetriesAreSpaced` |

Why the bounds are enough: every race in `JobQueue` is about one job, so one job with two
pools and two operators has every pair of actors that can meet on it, and two pools give a
healthy owner, a dead one and a reclaimer in every combination (a pool may also reclaim from
itself).  What jobs compete for (slots, priorities, queues) is not checked with two jobs:
the theorems of section 4 cover any number.  A retry limit of 1 gives a first attempt, a retry and
the DLQ; two replays let a stale command meet a job that has been replayed and has failed again.
`Concurrency` 2 in `faults` lets one pool run two attempts of a job at once.  Symmetry is over the
operators and over the pools, which no constant of that run tells apart, and only in `faults`,
which checks no liveness.  In `pool`, two slots and three jobs
give a full semaphore, a poll with one slot free, a slot that is used again, a notification dropped
by a full channel and one used up while both slots are taken.  In `control`, a second worker may
get the number of the first between any two calls of a stop, and two stops meet on one worker.  In
`timing`, `MaxAge` 61 is one more than the age at which an orphan must have been reclaimed, and
`WithinBound` stops time only then and once the job has settled for long enough to be purged.

`SoleWorkerIsStoppable` is stated for a worker that is the only one ever started.  The file holds
one number: a second start overwrites it and whichever ends first removes it.  No document
promises a stop for several workers, so this is listed as a hazard and not as a disagreement.

`WakeUpsAreNotLost` is about jobs enqueued by the process itself; `late` excuses a wake-up that was
throttled, merged with another, or spent on a poll that failed.  `EveryJobIsStarted` excuses
no loss: unless the pool could not register or is told to stop, its poll ticker gets to every job.

Deadlock is not checked: a system in which every process has ended, every job is settled or
`Timing`'s bound is reached may stop.

### Disagreements with the documentation

Each of these runs checks one statement of the repository and finds it violated:

| Run | Statement | What happens |
|---|---|---|
| `late_success` | `CompletionClosesAttempt` | `HandleJobSuccess` does not check who owns the running attempt: a worker once taken for dead completes the job while another runs it, and that attempt stays open |
| `duplicate_run` | `NoDuplicateRuns` | with one late heartbeat, or a drain of more than 25 s (heartbeats stop at the signal), a job runs twice at once |
| `delete_race` | `DeletesOnlySettledJobs` | `dlq delete` checks the status, then deletes by id: a job replayed in between is deleted while it runs |
| `retry_limit` | `FailuresReachLimit` | the DLQ takes `max_retries` + 1 failures (`retry.go`, and `retry_test.go` expects it); `docs/CLI.md`, `docs/ARCHITECTURE.md` and the comment on `max_retries` in the repository's `README.md` say `max_retries` |
| `replay_stuck` | `ZeroOrphanedJobs` | after a replay, attempt numbers start over and an old, closed row sorts last: neither the worker nor a reclaimer can fail the job any more |
| `pool_exit` | `UnregistersForGood` | an executor past `wg.Done` upserts the row of a node that has just been unregistered |
| `purge_zone` | `PurgeKeepsYoung` | east of UTC a purge deletes jobs younger than it was asked to |

`AttemptBudget`, `EveryJobSettles` and `RunningIsBacked` take these into account: the first allows
`max_retries` + 1 attempts, as `JobLifecycle` does, and each to repeat once per replay, the other two are stated for histories without replay and
without lost outcomes (`budget`), in which they hold for every crash and late heartbeat.
`NoDuplicateRunsOnTime` and `AnsweredByItsRunner` are stated for histories without a late heartbeat
of a live process, and hold there whatever else happens.  `RetriesAreFailures` is stated for
histories without replay, since a replay gives the retries back and keeps the rows, and
`CompletionClosesAttemptOnTime` without either: they say how far `late_success` and `replay_stuck`
reach.  `HealthyRunsAlone` is the other side of `duplicate_run`: with the code's durations only a
long drain gets there, and neither slow nor missed upserts do.

Read in the code and not a run of its own, since no order of steps matters to it: `dlq restore` to
another queue moves nothing, because `Update` does not write the queue column (`dlq.go` says that it
"moves a DLQ job to a different queue and schedules it"); the repository's `README.md` gives a backoff
formula with jitter that the code does not have; `ARCHITECTURE.md` has the heartbeats end after the drain,
the code ends them at the signal (this is how `duplicate_run` gets its drain); the metrics count
attempts under way as failures.

### Fairness

`JobQueue!Fairness` asks of a pool outside `Mortal` that its polls and reclaims happen if they are
possible again and again (strong fairness: they are cases of a Go select fed by tickers, and a
select chooses among ready cases at random), and of every pool that a started statement or
handler goes on (weak fairness: handlers are assumed to return, and every database call has a
timeout).  The clock goes on: backoffs pass and heartbeats of dead processes grow old.  Nothing
is assumed of clients, operators, signals or crashes.

`WorkerPool!Fairness` is the same for one process: statements of the main loop, of the heartbeat
goroutine, of executors and of a caller that has inserted its job go on; the stop cases and the
poll ticker's case of a select, ready again and again, are taken at last; a fetch that finds jobs
again and again does not fail for ever.  Nothing is assumed of the scheduler's ticker, of
other pools, of signals and of callers of Stop.

`WorkerControl!Fairness` asks only that a stop command that has read the file goes on: its calls do
not block and its ticker and timeout run.  Workers may hang.  `Timing` needs none.

## 4. Proofs

TLAPS checks, for any sets of jobs, pools, admins and queues and any limits, under
`PoolsAssumption` and `LimitsAssumption` (`Concurrency` at least 1, the configured retry limit and
the bounds natural numbers):

* `InductiveHolds`: `Spec => []Inductive`;
* `TypeCorrect`, `OpenAttemptsAreCurrent`, `RunningJobsHaveOpenAttempt`: its conjuncts;
* `LateAnswersAreRejected`: the action property `LateAnswersRejected`;
* `OnTimeHolds`, and from it `NoDuplicateRunsWhenOnTime` and `AnswersAreTheRunners`;
* `AttemptsHold`, and from it `AttemptsAreBudgeted`, `RunningJobsAreBacked`, `FailuresAreCounted`
  and `CompletionsClose`;
* `LifecycleImplemented`: `Spec => ImplementsLifecycle`;
* `ProcessInvHolds`, and from it `PoolsAreProcesses`: `Spec => ImplementsProcess`.

**Always.**  `OpenAttemptIsCurrent` and `RunningHasOpenAttempt` say that the status of a job
and its history agree, but are not inductive alone.  `Inductive` adds:

* `RowsInv` and `AttemptBound`: a job that may run has failures to spare, and attempts are
  bounded by the retry limit, so a history has a *latest* attempt by number (lemma
  `LatestExists`, by the least-element principle) and an accepted failure closes the open one
  (`FailureCloses`);
* `ReclaimInv`: a reclaimer holds a job with a history, hence never acts for the empty worker
  id, which owns every attempt; it rests on histories only growing (`HistoryGrows`);
* `CommandInv`: while `updated_at` is what a dlq command read, the job is still dead-lettered;
  this is what makes the unguarded write of the command safe.

Since an attempt belongs to one job, the step case is by what a step may do to one job: lemma
`JobStep` classifies all actions into eight cases (kept, enqueued, came due, deleted, acquired,
failed, completed, replayed) and `JobInvStep` treats each once.

**On time.**  That no job has two executors is not inductive: it must follow from what makes a
claim possible.  `InductiveOnTime` says that a live process has a live row, so that whoever a
reclaimer is about to blame is dead (`LiveIsSeen`), and that every executor, as well as the one a
main loop is about to start, runs the *last* attempt of its job, which its own process inserted
(`RunnersInv`).  Two executors of a job would then run the same row and belong to the same
process.  A step that closes an attempt is either its executor's or a reclaimer's on behalf of a
dead process; so a live executor's job stays where it is (`BacksStep`), and no claim can happen.

**Counting attempts.**  An attempt number is used once per *round* of a job, and a round begins
with a replay.  `AttemptsInv` counts the rows with each number against the replays that are over
and the numbers used since the last; `BudgetInv` gives the balance between replays counted when a
command starts and those that are over.  `OrderInv` says that without replays a row's attempt
number is its place, so that the latest attempt by number is the last row, a worker's own answer
is accepted (`OwnAnswerAccepted`), and no reclaim or late answer leaves a running job with nobody
who runs it and somebody alive to blame (`BackedStep`): hence `RunningIsBacked`, late heartbeats included.

**How attempts end.**  With `OrderInv` the latest attempt is the last row (`LatestIsLast`), so an
answer by that row's worker is written to it and to no other (`ClosesLast`).  A failure is accepted
only from that worker (`AcceptedIsLast`): it closes row `retries_count + 1` and counts it, in one
transaction (`FailuresStep`).  A success is checked less, so `CompletionStep` needs `RunnersInv`: on
time, whoever answers runs the last row.

**Refinement.**  Each action is mapped to an edge of `JobLifecycle` for the job it writes, or a
stutter, given `Inductive`: `RowsInv` gives the edge its retry count, `CommandInv` the status a
replay starts from.

**Pools as processes.**  `ProcessInv` says that upserts come from live processes, so that a row
never comes back but by `LateUpsert`; that executors are finitely many, so that they can be
counted; and that the attempt a main loop has claimed is not among them yet, so that starting it
counts one more.  The last follows from histories only growing: an executor's row was inserted before,
the claimed one just now.  `PoolStep` says what a step may do to one pool, and `ProcessStep` maps each
case; the steps of other pools, clients and operators stutter, but for a prune, which keeps the row.

**`WorkerPool`**, with any number of slots, callers and jobs: `SlotsAreNeverLost`,
`SignalledPoolDrains`, `HeartbeatsStayOut`, `WakeUpsAreKept`, `WaitsEnd`, `PoolIsAProcess`,
`TypeCorrect`.  The invariant counts the executors
(`GroupInv`), orders the shutdown when only the main loop has called Stop (`SignalInv`), bounds the
heartbeat goroutine's life by the main loop's (`BeatInv`), says who is inside `sync.Once` and who
waits for it (`OnceInv`), and relates the jobs that wait to the wake-ups that are coming (`WakeInv`).
`WaitsEnd` is the safety part of `ShutdownCompletes`: what a shutdown waits for has been told to
end, or waits for nothing in return.  That it then does end takes fairness and stays with TLC.  `PoolIsAProcess` maps each
statement to a step of `WorkerProcess` or a stutter; `GroupInv` and `SignalInv` give its `Exit`, and
`BeatInv` that no heartbeat brings the row back.

**`WorkerControl`**, with any number of commands and numbers: `TypeCorrect`, `StopsAreFinal`,
`SoleWorkersAreStoppable`.  `AimInv` and `NumberInv` say that the worker a stop aims at keeps the number
that was read and is alone with it while it lives; so what the stop finds is that worker or
nothing (`HeldInv`), and a failed signal means that it has ended.  For the sole worker,
`BlankInv` and `SoleInv` say that before its file is written there is nothing for a stop to read, so
that every stop that gets to its removal has first seen it end.

**`Timing`**, for any durations under `TimersAssumption` and `DelaysAssumption`: `TimersTyped`,
`HealthyNodesAreNotPruned`, `HealthyNodesRunAlone`, `OrphansAreReclaimedInTime`, `RetriesAreStartedInTime`,
`RetriesAreSpacedOut`.  The invariant adds up the age of a heartbeat from the failures so far and the clock of its
ticker (`HeartInv`), and that of an orphan from the reclaim ticker (`OrphanInv`).  `NodeInv` says
that a second handler was let in only by a stopped row, which takes a drain longer than the slack.

Only model-checked: liveness, which is out of the prover's reach (`EveryJobSettles`,
`ZeroOrphanedJobs`, `ShutdownCompletes`, `EveryJobIsStarted`, `StopEnds`).

## 5. Not modelled

* The counts of the metrics: nothing that changes a job or a worker reads them.
* Configuration: what loading yields are the models' constants.  `CONFIGURATION.md` has
  settings swapped in memory, but a reload replaces a variable that no running component reads.
  There is no behaviour to model.
* The reclaimer's limit of 1000 listed jobs, two writes of a row with equal timestamps, a clock
  that is set back: listed as hazards.
* Logging, output, list, status and config commands, validation, migrations and connection
  set-up: input, output and stateless checks.

## 6. Plan

Done: the four state machines with their runs; the two abstract specifications, of a job's life and
of a worker process, and the three refinements; every safety and action property that a
passing run checks is a theorem.

Left, in this order:

1. The drain under a Stop from outside: `wg.Wait` may return while the main loop is about to
   spawn an executor.  `WorkerPool` has the steps; what can be promised there is to be stated.
2. Node status against executors: a node left idle while it runs a job.
3. `updated_at` with equal stamps: a choice in `Updated`, and which properties survive it.
4. Several PID files or several starts, should the code come to support them.

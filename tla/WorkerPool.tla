----------------------------- MODULE WorkerPool -----------------------------
(***************************************************************************)
(* The goroutines of one worker process: the main loop of WorkerPool.Start,*)
(* its heartbeat, the executors it spawns, the scheduler's ticker, the     *)
(* callers of Enqueue and a caller of Stop.  They share a semaphore        *)
(* channel, a wait group, the stop channel with its sync.Once, the         *)
(* scheduler's notification channel, the in-memory node and the node's row *)
(* in the workers table.  What a job is and what happens to it is left to  *)
(* JobQueue: here jobs that a poll may find are counted.  Executors are    *)
(* alike, and so are the callers of Enqueue, so they are counted by the    *)
(* statement they are at.                                                  *)
(***************************************************************************)
EXTENDS Integers

CONSTANTS
    Concurrency,    \* capacity of the semaphore
    MaxJobs,        \* bound: jobs that ever become ready to run
    MaxCallers      \* bound: calls of Enqueue at the same time

ASSUME PoolAssumption ==
    Concurrency \in Nat \ {0} /\ MaxJobs \in Nat /\ MaxCallers \in Nat

VARIABLES
    main,       \* statement the main loop is at
    beat,       \* statement the heartbeat goroutine is at
    caller,     \* statement a caller of Stop from outside is at
    at,         \* number of executors at each statement
    sem,        \* slots taken in the semaphore channel
    wg,         \* counter of the wait group
    once,       \* sync.Once of Stop
    stopChan,   \* TRUE when closed
    ctxDone,    \* TRUE when the context is cancelled
    node,       \* status of the in-memory node
    row,        \* TRUE when the workers table has the node's row
    wake,       \* TRUE when the notification channel, of capacity one, is full
    announcing, \* calls of Enqueue in this process between Insert and Notify
    pending,    \* due pending jobs of the pool's queue
    arrived,    \* jobs that became ready so far
    late        \* history: a pending job may have no wake-up of its own coming

shared == <<sem, wg, once, stopChan, ctxDone, node, row>>
work == <<wake, announcing, pending, arrived, late>>
vars == <<main, beat, caller, at, shared, work>>

-----------------------------------------------------------------------------
MainStep == {"register", "reclaim", "notify", "select", "fetch", "claimed", "activate",
             "spawn", "wait", "blocked", "deferred", "unregister", "returned"}

CallerStep == {"idle", "wait", "blocked", "returned"}

\* run: the handler and its outcome; then the deferred function, statement by statement.
ExecStep == {"run", "release", "done", "look", "setIdle", "upsert"}

TypeOK ==
    /\ main \in MainStep
    /\ beat \in {"off", "select", "upsert", "done"}
    /\ caller \in CallerStep
    /\ at \in [ExecStep -> Nat]
    /\ sem \in Nat
    /\ wg \in Nat
    /\ once \in {"fresh", "running", "done"}
    /\ stopChan \in BOOLEAN
    /\ ctxDone \in BOOLEAN
    /\ node \in {"idle", "active"}
    /\ row \in BOOLEAN
    /\ wake \in BOOLEAN
    /\ announcing \in Nat
    /\ pending \in 0 .. MaxJobs
    /\ arrived \in 0 .. MaxJobs
    /\ late \in BOOLEAN

Init ==
    /\ main = "register"
    /\ beat = "off"
    /\ caller = "idle"
    /\ at = [s \in ExecStep |-> 0]
    /\ sem = 0
    /\ wg = 0
    /\ once = "fresh"
    /\ stopChan = FALSE
    /\ ctxDone = FALSE
    /\ node = "idle"
    /\ row = FALSE
    /\ wake = FALSE
    /\ announcing = 0
    /\ pending = 0
    /\ arrived = 0
    /\ late = FALSE

-----------------------------------------------------------------------------
(* The main loop *)

Register ==
    /\ main = "register"
    /\ ~ctxDone
    /\ row' = TRUE
    /\ main' = "reclaim"
    /\ UNCHANGED <<beat, caller, at, sem, wg, once, stopChan, ctxDone, node, work>>

\* RegisterWorker fails, with a cancelled context or for any other reason, and Start returns
\* its error.
RegisterFails ==
    /\ main = "register"
    /\ main' = "returned"
    /\ UNCHANGED <<beat, caller, at, shared, work>>

\* The reclaimTicker's case of the select.
Reclaim ==
    /\ main = "select"
    /\ main' = "reclaim"
    /\ UNCHANGED <<beat, caller, at, shared, work>>

\* ReclaimOrphanedJobs has put a job back to pending, for when its backoff has passed.
\* One job stands for all of a run: the loop does the same for each.
OrphanReclaimed ==
    /\ main = "reclaim"
    /\ ~ctxDone
    /\ main' = "notify"
    /\ UNCHANGED <<beat, caller, at, shared, work>>

\* After the reclaim at startup the heartbeat goroutine starts.
EndReclaim ==
    /\ main' = "select"
    /\ beat' = IF beat = "off" THEN "select" ELSE beat

NothingToReclaim ==
    /\ main = "reclaim"
    /\ EndReclaim
    /\ UNCHANGED <<caller, at, shared, work>>

\* Variant: a send without the default case.
MaySendIfEmpty == ~wake

\* Notify's select has a default case: it never waits for a receiver.
MaySend == TRUE

\* The reclaimer notifies from the main loop, which is the channel's only receiver.
NotifyReclaimed ==
    /\ main = "notify"
    /\ MaySend
    /\ wake' = TRUE
    /\ EndReclaim
    /\ UNCHANGED <<caller, at, shared, announcing, pending, arrived, late>>

\* The ticker's case of the select, with a slot free; without one nothing happens.
PollTick ==
    /\ main = "select"
    /\ sem < Concurrency
    /\ sem' = sem + 1
    /\ main' = "fetch"
    /\ UNCHANGED <<beat, caller, at, wg, once, stopChan, ctxDone, node, row, work>>

\* The NotifyChan case, with a slot free.
WakePolls ==
    /\ sem < Concurrency
    /\ sem' = sem + 1
    /\ main' = "fetch"
    /\ UNCHANGED late

\* With no slot free the wake-up is used up for nothing.
WakeThrottled ==
    /\ sem >= Concurrency
    /\ late' = (pending > 0)
    /\ UNCHANGED <<sem, main>>

TakeWake ==
    /\ main = "select"
    /\ wake
    /\ wake' = FALSE
    /\ WakePolls \/ WakeThrottled
    /\ UNCHANGED <<beat, caller, at, wg, once, stopChan, ctxDone, node, row,
                   announcing, pending, arrived>>

\* Variant: the slot is kept.
NothingFoundKeepsSlot ==
    /\ main = "fetch"
    /\ main' = "select"
    /\ late' = (pending > 0)
    /\ UNCHANGED <<beat, caller, at, shared, wake, announcing, pending, arrived>>

\* FetchNextJob finds no job, or fails with one there.
NothingFound ==
    /\ main = "fetch"
    /\ sem' = sem - 1
    /\ main' = "select"
    /\ late' = (pending > 0)
    /\ UNCHANGED <<beat, caller, at, wg, once, stopChan, ctxDone, node, row,
                   wake, announcing, pending, arrived>>

\* A pending job leaves the queue; with none left, none is late.
LeavesQueue ==
    /\ pending > 0
    /\ pending' = pending - 1
    /\ late' = (late /\ pending > 1)

\* The transaction needs a live context.
JobFound ==
    /\ main = "fetch"
    /\ ~ctxDone
    /\ LeavesQueue
    /\ main' = IF node = "active" THEN "spawn" ELSE "claimed"
    /\ UNCHANGED <<beat, caller, at, shared, wake, announcing, arrived>>

SetActive ==
    /\ main = "claimed"
    /\ node' = "active"
    /\ main' = "activate"
    /\ UNCHANGED <<beat, caller, at, sem, wg, once, stopChan, ctxDone, row, work>>

\* An upsert whose error nobody looks at.
MaybeUpsert == row' \in {row, TRUE}

UpsertActive ==
    /\ main = "activate"
    /\ IF ctxDone THEN UNCHANGED row ELSE MaybeUpsert
    /\ main' = "spawn"
    /\ UNCHANGED <<beat, caller, at, sem, wg, once, stopChan, ctxDone, node, work>>

Spawn ==
    /\ main = "spawn"
    /\ wg' = wg + 1
    /\ at' = [at EXCEPT !["run"] = @ + 1]
    /\ main' = "select"
    /\ UNCHANGED <<beat, caller, sem, once, stopChan, ctxDone, node, row, work>>

\* Where a call of Stop leads: the first one closes stopChan and waits for the executors,
\* another waits for the first, a later one does nothing.
EnterStop(after) ==
    CASE once = "fresh"   -> "wait"
      [] once = "running" -> "blocked"
      [] once = "done"    -> after

Stop ==
    /\ once' = IF once = "fresh" THEN "running" ELSE once
    /\ stopChan' = TRUE

\* The cases ctx.Done and stopChan of the select: only the first calls Stop.
SeeCancel ==
    /\ main = "select"
    /\ ctxDone
    /\ Stop
    /\ main' = EnterStop("deferred")
    /\ UNCHANGED <<beat, caller, at, sem, wg, ctxDone, node, row, work>>

SeeStop ==
    /\ main = "select"
    /\ stopChan
    /\ main' = "deferred"
    /\ UNCHANGED <<beat, caller, at, shared, work>>

\* Variant: Stop does not wait for the executors.
DrainedAtOnce == TRUE

\* wg.Wait returns.
Drained == wg = 0

FinishStop ==
    /\ main = "wait"
    /\ Drained
    /\ once' = "done"
    /\ main' = "deferred"
    /\ UNCHANGED <<beat, caller, at, sem, wg, stopChan, ctxDone, node, row, work>>

AwaitOnce ==
    /\ main = "blocked"
    /\ once = "done"
    /\ main' = "deferred"
    /\ UNCHANGED <<beat, caller, at, shared, work>>

\* Variant: the node is unregistered without waiting for the heartbeat goroutine.
HeartbeatLeftAlone == TRUE

\* heartbeatWg.Wait returns.
HeartbeatJoined == beat = "done"

JoinHeartbeat ==
    /\ main = "deferred"
    /\ HeartbeatJoined
    /\ main' = "unregister"
    /\ UNCHANGED <<beat, caller, at, shared, work>>

\* A delete that fails is ignored as well; it is left out here, as the row would then wait
\* for PruneStale like that of a crashed process.
Unregister ==
    /\ main = "unregister"
    /\ row' = FALSE
    /\ main' = "returned"
    /\ UNCHANGED <<beat, caller, at, sem, wg, once, stopChan, ctxDone, node, work>>

-----------------------------------------------------------------------------
(* Jobs becoming ready, and the scheduler *)

Arrives ==
    /\ arrived < MaxJobs
    /\ arrived' = arrived + 1
    /\ pending' = pending + 1

\* Variant: the caller notifies first and inserts then; the job is announced by nothing.
InsertUnannounced ==
    /\ Arrives
    /\ announcing < MaxCallers
    /\ UNCHANGED announcing
    /\ UNCHANGED <<main, beat, caller, at, shared, wake, late>>

\* Enqueue in this process, first half: the row is inserted.
Insert ==
    /\ Arrives
    /\ announcing < MaxCallers
    /\ announcing' = announcing + 1
    /\ UNCHANGED <<main, beat, caller, at, shared, wake, late>>

\* Second half, Notify.  A full channel drops it: the wake-up in it serves this job too,
\* but not two of them.
Announce ==
    /\ announcing > 0
    /\ MaySend
    /\ announcing' = announcing - 1
    /\ wake' = TRUE
    /\ late' = (late \/ (wake /\ pending > 1))
    /\ UNCHANGED <<main, beat, caller, at, shared, pending, arrived>>

\* Enqueued by another process, or run_at passes: nothing wakes this pool.
ReadyUnannounced ==
    /\ Arrives
    /\ late' = TRUE
    /\ UNCHANGED <<main, beat, caller, at, shared, wake, announcing>>

\* Another pool claims a job.
TakenElsewhere ==
    /\ LeavesQueue
    /\ UNCHANGED <<main, beat, caller, at, shared, wake, announcing, arrived>>

\* The scheduler's own ticker, whose context no signal cancels.
SchedulerTick ==
    /\ MaySend
    /\ wake' = TRUE
    /\ UNCHANGED <<main, beat, caller, at, shared, announcing, pending, arrived, late>>

-----------------------------------------------------------------------------
(* The heartbeat goroutine *)

Beat ==
    /\ beat = "select"
    /\ beat' = "upsert"
    /\ UNCHANGED <<main, caller, at, shared, work>>

BeatUpsert ==
    /\ beat = "upsert"
    /\ MaybeUpsert
    /\ beat' = "select"
    /\ UNCHANGED <<main, caller, at, sem, wg, once, stopChan, ctxDone, node, work>>

\* Variant: the goroutine listens to the context alone.
MustStopBeatingOnCancel == ctxDone

MustStopBeating == ctxDone \/ stopChan

BeatStops ==
    /\ beat = "select"
    /\ MustStopBeating
    /\ beat' = "done"
    /\ UNCHANGED <<main, caller, at, shared, work>>

-----------------------------------------------------------------------------
(* Executors *)

\* One executor goes from one statement to the next, or ends.
Advance(from, to) ==
    /\ at[from] > 0
    /\ at' = [at EXCEPT ![from] = @ - 1, ![to] = @ + 1]

End(from) ==
    /\ at[from] > 0
    /\ at' = [at EXCEPT ![from] = @ - 1]

\* The handler returns, fails or panics, and its outcome is recorded or given up.
HandlerEnds ==
    /\ Advance("run", "release")
    /\ UNCHANGED <<main, beat, caller, shared, work>>

ReleaseSlot ==
    /\ Advance("release", "done")
    /\ sem' = sem - 1
    /\ UNCHANGED <<main, beat, caller, wg, once, stopChan, ctxDone, node, row, work>>

\* Variant: Done called twice.
DoneTwice == wg - 2

WgDone == wg - 1

LeaveGroup ==
    /\ Advance("done", "look")
    /\ wg' = WgDone
    /\ UNCHANGED <<main, beat, caller, sem, once, stopChan, ctxDone, node, row, work>>

\* len(sem) = 0 and the node is not idle.
LooksUnused == sem = 0 /\ node # "idle"

SeeUnused ==
    /\ LooksUnused
    /\ Advance("look", "setIdle")
    /\ UNCHANGED <<main, beat, caller, shared, work>>

SeeUsed ==
    /\ ~LooksUnused
    /\ End("look")
    /\ UNCHANGED <<main, beat, caller, shared, work>>

SetIdle ==
    /\ Advance("setIdle", "upsert")
    /\ node' = "idle"
    /\ UNCHANGED <<main, beat, caller, sem, wg, once, stopChan, ctxDone, row, work>>

UpsertIdle ==
    /\ End("upsert")
    /\ MaybeUpsert
    /\ UNCHANGED <<main, beat, caller, sem, wg, once, stopChan, ctxDone, node, work>>

-----------------------------------------------------------------------------
(* A caller of Stop, and the signal *)

CallStop ==
    /\ caller = "idle"
    /\ Stop
    /\ caller' = EnterStop("returned")
    /\ UNCHANGED <<main, beat, at, sem, wg, ctxDone, node, row, work>>

CallerDrained ==
    /\ caller = "wait"
    /\ Drained
    /\ once' = "done"
    /\ caller' = "returned"
    /\ UNCHANGED <<main, beat, at, sem, wg, stopChan, ctxDone, node, row, work>>

CallerAwaitsOnce ==
    /\ caller = "blocked"
    /\ once = "done"
    /\ caller' = "returned"
    /\ UNCHANGED <<main, beat, at, shared, work>>

Cancel ==
    /\ ~ctxDone
    /\ ctxDone' = TRUE
    /\ UNCHANGED <<main, beat, caller, at, sem, wg, once, stopChan, node, row, work>>

-----------------------------------------------------------------------------
Reclaims == Reclaim \/ OrphanReclaimed \/ NothingToReclaim \/ NotifyReclaimed

Poll ==
    \/ PollTick \/ TakeWake \/ NothingFound \/ JobFound
    \/ SetActive \/ UpsertActive \/ Spawn

Leave ==
    SeeCancel \/ SeeStop \/ FinishStop \/ AwaitOnce \/ JoinHeartbeat \/ Unregister

Main == Register \/ RegisterFails \/ Reclaims \/ Poll \/ Leave

Heartbeats == Beat \/ BeatUpsert \/ BeatStops

Executor ==
    \/ HandlerEnds \/ ReleaseSlot \/ LeaveGroup
    \/ SeeUnused \/ SeeUsed \/ SetIdle \/ UpsertIdle

Caller == CallStop \/ CallerDrained \/ CallerAwaitsOnce

Queue == Insert \/ Announce \/ ReadyUnannounced \/ TakenElsewhere \/ SchedulerTick

Next == Main \/ Heartbeats \/ Executor \/ Caller \/ Cancel \/ Queue

Spec == Init /\ [][Next]_vars

-----------------------------------------------------------------------------
(* Safety *)

\* The main loop has a slot it has not handed to an executor.
HoldsSlot == main \in {"fetch", "claimed", "activate", "spawn"}

\* No slot of the semaphore is lost or released twice, on any path of a poll: each is held
\* by the main loop or by an executor that has not released it.
SlotsAreHeld ==
    /\ sem = at["run"] + at["release"] + (IF HoldsSlot THEN 1 ELSE 0)
    /\ sem <= Concurrency

\* docs/ARCHITECTURE.md: the node is unregistered after the active tasks have finished.  A
\* process that was signalled, and whose Stop nobody else called, has no handler running,
\* and none about to be started, once the main loop is past Stop.
DrainsOnSignal ==
    main \in {"deferred", "unregister", "returned"} /\ caller = "idle" =>
        at["run"] = 0 /\ wg = 0

\* CHANGELOG.md, Worker Heartbeat Re-registration Race: "ensure the heartbeat loop
\* terminates before unregistering the worker."  Once the node is unregistered only an
\* executor's last upsert can bring its row back.
NoHeartbeatReregisters ==
    [][main = "returned" /\ ~row /\ row' => at'["upsert"] < at["upsert"]]_vars

\* docs/ARCHITECTURE.md: the pool "gracefully unregisters from the database".  When Start
\* has returned after a signal, the row of its node is gone and stays so.
UnregistersForGood == main = "returned" /\ caller = "idle" => ~row

\* scheduler.go, Notify: a dropped notification is one the "worker is already waking" for.
\* Once Enqueue of this process has returned, its job has a poll coming, in the channel or
\* under way, unless a poll was throttled or failed, another process's job is waiting,
\* or two jobs share one wake-up: then it waits for a tick.
WakeUpsAreNotLost ==
    pending > 0 /\ ~late => announcing > 0 \/ wake \/ main = "fetch"

\* worker.go, Stop: whoever waits, inside sync.Once or for the heartbeat goroutine, waits for
\* somebody that goes on by itself: a second call of Stop for the first one, the first for
\* executors only, and the way out of Start for a goroutine that has its own way to end,
\* whether it was a signal or a Stop that ended the loop.
NoCircularWait ==
    /\ main = "blocked" => once = "done" \/ caller = "wait"
    /\ caller = "blocked" => once = "done" \/ main = "wait"
    /\ ~(main = "wait" /\ caller = "wait")
    /\ main = "wait" \/ caller = "wait" => wg = at["run"] + at["release"] + at["done"]
    /\ main \in {"wait", "blocked", "deferred"} => beat # "off"
    /\ main = "deferred" /\ beat # "done" => MustStopBeating

-----------------------------------------------------------------------------
(* Liveness *)

\* Every goroutine that can go on does so.  The cases of a select that are ready are
\* chosen at random, so one that is ready again and again is taken; a fetch that finds jobs
\* waiting does not fail for ever.  Nothing is assumed of the scheduler's ticker, of other
\* pools, of signals and of callers of Stop.
Fairness ==
    /\ WF_vars(Main)
    /\ SF_vars(SeeCancel \/ SeeStop)
    /\ SF_vars(PollTick)
    /\ SF_vars(JobFound)
    /\ WF_vars(Announce)
    /\ WF_vars(Heartbeats)
    /\ SF_vars(BeatStops)
    /\ WF_vars(HandlerEnds) /\ WF_vars(ReleaseSlot) /\ WF_vars(LeaveGroup)
    /\ WF_vars(CallerDrained)
    /\ WF_vars(CallerAwaitsOnce)

FairSpec == Spec /\ Fairness

\* A signal or a Stop ends Start, and a call of Stop returns: the main loop, the caller, the
\* executors and the heartbeat goroutine never wait for one another in a circle.
ShutdownCompletes ==
    ctxDone \/ stopChan ~> main = "returned" /\ caller \in {"idle", "returned"}

\* DESIGN.md, Backup Ticker: "The background ticker handles missed notifications".
\* However many wake-ups are dropped or throttled, the ready jobs are all started, unless
\* the pool is stopped or could not be registered: no slot, token or poll is lost on the way.
EveryJobIsStarted ==
    pending > 0 ~> pending = 0 \/ ctxDone \/ stopChan \/ (main = "returned" /\ beat = "off")
=============================================================================

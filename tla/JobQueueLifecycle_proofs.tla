---------------------- MODULE JobQueueLifecycle_proofs ----------------------
(***************************************************************************)
(* JobQueue implements JobLifecycle, for any sets of jobs, pools, admins   *)
(* and queues and any limits: one simulation step per action.              *)
(***************************************************************************)
EXTENDS JobQueueLifecycle, JobQueue_proofs

-----------------------------------------------------------------------------
(* What a write to the jobs table is in the abstract life *)

\* One row is written.
LEMMA LifeWritten ==
    ASSUME TypeOK, NEW j \in Jobs, NEW row, jobs' = [jobs EXCEPT ![j] = row]
    PROVE  JobLife' = [JobLife EXCEPT ![j] = [state |-> row.status, tries |-> row.retries,
                                              limit |-> row.maxRetries]]
BY DEF TypeOK, JobLife

\* Update moves the job to the status and the count it writes.
LEMMA UpdateMoves ==
    ASSUME TypeOK, NEW j \in Jobs, NEW status, NEW retries, NEW due,
           jobs' = [jobs EXCEPT ![j] = Updated(j, status, retries, due)]
    PROVE  Lifecycle!Move(j, jobs[j].status, status, retries)
<1> DEFINE row == Updated(j, status, retries, due)
<1>1. jobs[j] \in JobRow
  BY DEF TypeOK
<1>2. row.status = status /\ row.retries = retries /\ row.maxRetries = jobs[j].maxRetries
  BY <1>1 DEF Updated, JobRow
<1>3. JobLife' = [JobLife EXCEPT ![j] = [state |-> status, tries |-> retries,
                                         limit |-> jobs[j].maxRetries]]
  BY <1>2, LifeWritten
<1> QED
  BY <1>3 DEF Lifecycle!Move, JobLife

\* A delete moves the job and keeps its count.
LEMMA DeleteMoves ==
    ASSUME TypeOK, NEW j \in Jobs, jobs' = [jobs EXCEPT ![j].status = "deleted"]
    PROVE  Lifecycle!Move(j, jobs[j].status, "deleted", JobLife[j].tries)
<1> DEFINE row == [jobs[j] EXCEPT !.status = "deleted"]
<1>1. jobs[j] \in JobRow
  BY DEF TypeOK
<1>2. /\ row.status = "deleted"
      /\ row.retries = jobs[j].retries
      /\ row.maxRetries = jobs[j].maxRetries
  BY <1>1 DEF JobRow
<1>3. JobLife' = [JobLife EXCEPT ![j] = [state |-> "deleted", tries |-> jobs[j].retries,
                                         limit |-> jobs[j].maxRetries]]
  BY <1>2, LifeWritten
<1> QED
  BY <1>3 DEF Lifecycle!Move, JobLife

-----------------------------------------------------------------------------
(* The steps *)

\* The one transaction that ends an attempt without success, whoever asks for it.
LEMMA FailureSimulated ==
    ASSUME Inductive, NEW j \in Jobs, NEW w, HandleJobFailure(j, w)
    PROVE  Lifecycle!Next \/ UNCHANGED JobLife
<1> DEFINE tries == jobs[j].retries + 1
<1>1. CASE ~MayFail(j, w)
  BY <1>1 DEF HandleJobFailure, JobLife
<1>2. CASE MayFail(j, w)
  <2>1. /\ jobs[j].status = "running"
        /\ jobs[j].retries <= jobs[j].maxRetries
        /\ jobs[j].retries \in Nat /\ jobs[j].maxRetries \in Nat
    BY <1>2 DEF MayFail, Inductive, RowsInv, TypeOK, JobRow
  <2>2. jobs' = [jobs EXCEPT ![j] = FailedRow(j)]
    BY <1>2 DEF HandleJobFailure
  <2>3. TypeOK
    BY DEF Inductive
  <2> HIDE DEF tries
  <2>a. JobLife[j].tries + 1 = tries
    BY DEF JobLife, tries
  <2>b. /\ tries > jobs[j].maxRetries => JobLife[j].tries >= JobLife[j].limit
        /\ ~(tries > jobs[j].maxRetries) => JobLife[j].tries < JobLife[j].limit
    <3>1. JobLife[j].tries = jobs[j].retries /\ JobLife[j].limit = jobs[j].maxRetries
      BY DEF JobLife
    <3> QED
      BY <2>1, <3>1 DEF tries
  <2>4. CASE tries > jobs[j].maxRetries
    <3>1. Lifecycle!Move(j, "running", "dead_letter", tries)
      BY <2>1, <2>2, <2>3, <2>4, UpdateMoves DEF FailedRow, tries
    <3>2. Lifecycle!DeadLetter(j)
      BY <2>a, <2>b, <2>4, <3>1 DEF Lifecycle!DeadLetter
    <3> QED
      BY <3>2 DEF Lifecycle!Next
  <2>5. CASE ~(tries > jobs[j].maxRetries)
    <3>1. Lifecycle!Move(j, "running", "pending", tries)
      BY <2>1, <2>2, <2>3, <2>5, UpdateMoves DEF FailedRow, tries
    <3>2. Lifecycle!Retry(j)
      BY <2>a, <2>b, <2>5, <3>1 DEF Lifecycle!Retry
    <3> QED
      BY <3>2 DEF Lifecycle!Next
  <2> QED
    BY <2>4, <2>5
<1> QED
  BY <1>1, <1>2

\* Success, by whichever worker.
LEMMA SuccessSimulated ==
    ASSUME TypeOK, NEW j \in Jobs, NEW w, HandleJobSuccess(j, w)
    PROVE  Lifecycle!Next \/ UNCHANGED JobLife
<1>1. CASE jobs[j].status # "running"
  BY <1>1 DEF HandleJobSuccess, JobLife
<1>2. CASE jobs[j].status = "running"
  <2>1. Lifecycle!Move(j, "running", "completed", jobs[j].retries)
    BY <1>2, UpdateMoves DEF HandleJobSuccess
  <2>2. Lifecycle!Complete(j)
    BY <2>1 DEF Lifecycle!Complete, Lifecycle!Move, JobLife
  <2> QED
    BY <2>2 DEF Lifecycle!Next
<1> QED
  BY <1>1, <1>2

\* A dlq retry or restore, or nothing if the row is not the one that was read.
LEMMA ReplaySimulated ==
    ASSUME Inductive, NEW a \in Admins, WriteReplay(a)
    PROVE  Lifecycle!Next \/ UNCHANGED JobLife
<1> DEFINE j == admins[a].job
<1>1. j \in Jobs /\ (StillAsRead(a) => jobs[j].status = "dead_letter")
  BY DEF Inductive, CommandInv, WriteReplay, StillAsRead
<1>2. CASE ~StillAsRead(a)
  BY <1>2 DEF WriteReplay, JobLife
<1>3. CASE StillAsRead(a)
  <2>1. jobs' = [jobs EXCEPT ![j] = Updated(j, "pending", 0, TRUE)]
    BY <1>3 DEF WriteReplay, Replayed
  <2>2. Lifecycle!Move(j, "dead_letter", "pending", 0)
    BY <1>1, <1>3, <2>1, UpdateMoves DEF Inductive
  <2>3. Lifecycle!Replay(j)
    BY <2>2 DEF Lifecycle!Replay
  <2> QED
    BY <1>1, <2>3 DEF Lifecycle!Next
<1> QED
  BY <1>2, <1>3

\* A dlq delete of the row that was read; otherwise it is late.
LEMMA DeleteSimulated ==
    ASSUME Inductive, NEW a \in Admins, WriteDelete(a)
    PROVE  Lifecycle!Next \/ LateDelete \/ UNCHANGED JobLife
<1> DEFINE j == admins[a].job
<1>1. j \in Jobs /\ (StillAsRead(a) => jobs[j].status = "dead_letter")
  BY DEF Inductive, CommandInv, WriteDelete, StillAsRead
<1>2. CASE ~StillAsRead(a)
  BY <1>2 DEF LateDelete
<1>3. CASE StillAsRead(a)
  <2>1. jobs' = [jobs EXCEPT ![j].status = "deleted"]
    BY <1>3 DEF WriteDelete, StillAsRead
  <2>2. Lifecycle!Move(j, "dead_letter", "deleted", JobLife[j].tries)
    BY <1>1, <1>3, <2>1, DeleteMoves DEF Inductive
  <2>3. Lifecycle!Discard(j)
    BY <2>2 DEF Lifecycle!Discard
  <2> QED
    BY <1>1, <2>3 DEF Lifecycle!Next
<1> QED
  BY <1>2, <1>3

\* An enqueued job gets one of the limits a job may be given.
LEMMA EnqueueSimulated ==
    ASSUME TypeOK, NEW j \in Jobs, Enqueue(j)
    PROVE  Lifecycle!Next
<1>1. PICK q \in Queues, pr \in Priorities, r \in RequestedRetries, due \in BOOLEAN :
          jobs' = [jobs EXCEPT ![j] =
                      [status |-> "pending", queue |-> q, priority |-> pr, retries |-> 0,
                       maxRetries |-> IF r <= 0 THEN DefaultMaxRetries ELSE r,
                       due |-> due, updatedAt |-> 1]]
  BY DEF Enqueue
<1> DEFINE limit == IF r <= 0 THEN DefaultMaxRetries ELSE r
<1>2. JobLife' = [JobLife EXCEPT ![j] = [state |-> "pending", tries |-> 0, limit |-> limit]]
  BY <1>1, LifeWritten
<1>3. JobLife[j].state = "none"
  BY DEF Enqueue, JobLife
<1>4. Lifecycle!Enqueue(j)
  BY <1>2, <1>3 DEF Lifecycle!Enqueue
<1> QED
  BY <1>4 DEF Lifecycle!Next

\* A purge takes the completed jobs it has chosen.
LEMMA PurgeSimulated ==
    ASSUME TypeOK, PurgeCompleted
    PROVE  Lifecycle!Next
<1>1. PICK S \in SUBSET {j \in Jobs : jobs[j].status = "completed"} \ {{}} :
          jobs' = [j \in Jobs |-> IF j \in S THEN [jobs[j] EXCEPT !.status = "deleted"]
                                             ELSE jobs[j]]
  BY DEF PurgeCompleted
<1>2. S \in SUBSET {j \in Jobs : JobLife[j].state = "completed"}
  BY DEF JobLife
<1>3. JobLife' = [j \in Jobs |-> IF j \in S THEN [JobLife[j] EXCEPT !.state = "deleted"]
                                            ELSE JobLife[j]]
  <2>1. ASSUME NEW j \in Jobs
        PROVE  JobLife'[j] = IF j \in S THEN [JobLife[j] EXCEPT !.state = "deleted"]
                                        ELSE JobLife[j]
    <3>1. jobs[j] \in JobRow
      BY DEF TypeOK
    <3> QED
      BY <1>1, <3>1 DEF JobLife, JobRow
  <2> QED
    BY <2>1 DEF JobLife
<1>4. Lifecycle!Purge
  BY <1>2, <1>3 DEF Lifecycle!Purge
<1> QED
  BY <1>4 DEF Lifecycle!Next

\* Every step of the queue is an edge of the diagram, the late delete, or leaves every
\* job's life alone.
LEMMA LifecycleStep ==
    ASSUME Inductive, [Next]_vars
    PROVE  [Lifecycle!Next \/ LateDelete]_JobLife
<1> USE DEF tables, process
<1> DEFINE Goal == Lifecycle!Next \/ LateDelete \/ UNCHANGED JobLife
<1>a. TypeOK /\ ReclaimInv
  BY DEF Inductive
<1>b. ASSUME jobs' = jobs
      PROVE  Goal
  BY <1>b DEF JobLife
<1>1. ASSUME NEW j \in Jobs, Enqueue(j)
      PROVE  Goal
  BY <1>1, <1>a, EnqueueSimulated
<1>2. ASSUME NEW j \in Jobs, BecomeDue(j)
      PROVE  Goal
  BY <1>2, <1>a DEF BecomeDue, TypeOK, JobRow, JobLife
<1>3. CASE PurgeCompleted
  BY <1>3, <1>a, PurgeSimulated
<1>4. ASSUME NEW p \in Pools, NEW j \in Jobs, FetchNextJob(p, j)
      PROVE  Goal
  <2>1. jobs[j].status = "pending"
    BY <1>4 DEF FetchNextJob, IsNextPending
  <2>2. Lifecycle!Move(j, "pending", "running", jobs[j].retries)
    BY <1>4, <1>a, <2>1, UpdateMoves DEF FetchNextJob
  <2>3. Lifecycle!Acquire(j)
    BY <2>2 DEF Lifecycle!Acquire, Lifecycle!Move, JobLife
  <2> QED
    BY <2>3 DEF Lifecycle!Next
<1>5. ASSUME NEW p \in Pools, ReclaimJob(p)
      PROVE  Goal
  <2>1. loop[p].job \in Jobs
    BY <1>5, <1>a DEF ReclaimInv, ReclaimJob
  <2> QED
    BY <1>5, <2>1, FailureSimulated DEF ReclaimJob
<1>6. ASSUME NEW p \in Pools, NEW e \in execs[p], ExecutionFails(p, e)
      PROVE  Goal
  <2>1. e.job \in Jobs
    BY <1>a DEF TypeOK, Execution
  <2> QED
    BY <1>6, <2>1, FailureSimulated DEF ExecutionFails
<1>7. ASSUME NEW p \in Pools, NEW e \in execs[p], ExecutionSucceeds(p, e)
      PROVE  Goal
  <2>1. e.job \in Jobs
    BY <1>a DEF TypeOK, Execution
  <2> QED
    BY <1>7, <1>a, <2>1, SuccessSimulated DEF ExecutionSucceeds
<1>8. ASSUME NEW a \in Admins, WriteReplay(a)
      PROVE  Goal
  BY <1>8, ReplaySimulated
<1>9. ASSUME NEW a \in Admins, WriteDelete(a)
      PROVE  Goal
  BY <1>9, DeleteSimulated
<1>10. ASSUME NEW p \in Pools,
              \/ StartPool(p) \/ Dispatch(p) \/ PruneStale(p) \/ ListRunning(p)
              \/ \E k \in Jobs : ReadLatestLog(p, k)
              \/ CheckOwner(p) \/ FinishReclaim(p) \/ AbandonReclaim(p) \/ ShutDown(p)
              \/ \E e \in execs[p] : OutcomeIsLost(p, e)
              \/ Environment(p)
       PROVE  Goal
  BY <1>10, <1>b
     DEF StartPool, Dispatch, PruneStale, ListRunning, ReadLatestLog, CheckOwner,
         FinishReclaim, AbandonReclaim, ShutDown, OutcomeIsLost, Environment, Heartbeat,
         LateUpsert, Lapse, Interrupt, Crash
<1>11. ASSUME NEW a \in Admins, NEW k \in Jobs, NEW op, NEW q, ReadDeadLetter(a, k, op, q)
       PROVE  Goal
  BY <1>11, <1>b DEF ReadDeadLetter
<1>12. CASE GetMetrics \/ UNCHANGED vars
  BY <1>12, <1>b DEF GetMetrics, vars
<1> QED
  BY <1>1, <1>2, <1>3, <1>4, <1>5, <1>6, <1>7, <1>8, <1>9, <1>10, <1>11, <1>12
     DEF Next, LoopStep, ExecutorStep, AdminStep

\* Init, read through the mapping: no job has begun its life.
LEMMA LifecycleInit == Init => Lifecycle!Init
BY DEF Init, Lifecycle!Init, JobLife

\* docs/ARCHITECTURE.md, Job Lifecycle State Machine: whatever any number of pools,
\* reclaimers and dlq commands do, each job goes along the diagram's edges, with its retry
\* count and limit, but for a dlq delete that comes late.
THEOREM LifecycleImplemented == Spec => ImplementsLifecycle
<1>1. Init => Lifecycle!Init
  BY LifecycleInit
<1>2. Inductive /\ [Next]_vars => [Lifecycle!Next \/ LateDelete]_JobLife
  BY LifecycleStep
<1> QED
  BY <1>1, <1>2, InductiveHolds, PTL DEF Spec, ImplementsLifecycle
=============================================================================

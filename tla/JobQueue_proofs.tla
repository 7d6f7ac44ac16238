--------------------------- MODULE JobQueue_proofs ---------------------------
(***************************************************************************)
(* Proofs about JobQueue, for any sets of jobs, pools, admins and queues   *)
(* and any limits.                                                         *)
(***************************************************************************)
EXTENDS JobQueueInvariant, WellFoundedInduction, TLAPS

-----------------------------------------------------------------------------
(* Type correctness *)

\* Every value a row of jobs takes by an Update is a row again.
LEMMA UpdatedType ==
    ASSUME TypeOK, NEW j \in Jobs, NEW status \in JobStatus, NEW retries \in Nat,
           NEW due \in BOOLEAN
    PROVE  Updated(j, status, retries, due) \in JobRow
<1>1. jobs[j] \in JobRow
  BY DEF TypeOK
<1>2. jobs[j].updatedAt + 1 \in Nat
  BY <1>1 DEF JobRow
<1> QED
  BY <1>1, <1>2 DEF Updated, JobRow

\* A failure, retried or dead-lettered, leaves a row.
LEMMA FailedRowType ==
    ASSUME TypeOK, NEW j \in Jobs
    PROVE  FailedRow(j) \in JobRow
<1> DEFINE tries == jobs[j].retries + 1
<1>1. /\ jobs[j] \in JobRow
      /\ tries \in Nat
      /\ jobs[j].due \in BOOLEAN
  BY DEF TypeOK, JobRow
<1>2. /\ Updated(j, "dead_letter", tries, jobs[j].due) \in JobRow
      /\ Updated(j, "pending", tries, FALSE) \in JobRow
  BY <1>1, UpdatedType DEF JobStatus
<1> QED
  BY <1>2 DEF FailedRow

\* Closing an attempt keeps the history a sequence of the same rows.
LEMMA ClosedType ==
    ASSUME TypeOK, NEW j \in Jobs, NEW w, NEW outcome \in {"success", "failed"}
    PROVE  /\ Closed(j, w, outcome) \in Seq(LogRow)
           /\ Len(Closed(j, w, outcome)) = Len(logs[j])
<1>1. /\ logs[j] \in Seq(LogRow)
      /\ DOMAIN logs[j] = 1 .. Len(logs[j])
      /\ Len(logs[j]) \in Nat
  BY DEF TypeOK
<1>2. ASSUME NEW i \in 1 .. Len(logs[j])
      PROVE  Closed(j, w, outcome)[i] \in LogRow
  <2>1. logs[j][i] \in LogRow
    BY <1>1
  <2>2. [logs[j][i] EXCEPT !.outcome = outcome] \in LogRow
    BY <2>1 DEF LogRow
  <2> QED
    BY <1>1, <2>1, <2>2 DEF Closed
<1>3. Closed(j, w, outcome) \in [1 .. Len(logs[j]) -> LogRow]
  <2>1. Closed(j, w, outcome) = [i \in 1 .. Len(logs[j]) |-> Closed(j, w, outcome)[i]]
    BY <1>1 DEF Closed
  <2> QED
    BY <1>2, <2>1
<1> QED
  BY <1>1, <1>3

\* The upserts of a node keep the workers table typed.
LEMMA RegisteredType ==
    ASSUME TypeOK, NEW p \in Pools
    PROVE  /\ Registered(p) \in [Pools -> WorkerRow]
           /\ MaybeRegistered(p) => workers' \in [Pools -> WorkerRow]
<1>1. Registered(p) \in [Pools -> WorkerRow]
  BY DEF TypeOK, Registered, WorkerRow
<1> QED
  BY <1>1 DEF TypeOK, MaybeRegistered

\* So does PruneStale.
LEMMA PrunedType ==
    ASSUME TypeOK
    PROVE  Pruned \in [Pools -> WorkerRow]
BY DEF TypeOK, Pruned, WorkerRow

\* The values a loop and an admin start from.
LEMMA ConstantsType ==
    /\ SomeQueue \in Queues
    /\ NoCommand \in AdminState
    /\ \A pc \in {"off", "select", "dead"} : LoopAt(pc) \in LoopState
<1>1. SomeQueue \in Queues
  BY PoolsAssumption DEF SomeQueue
<1> QED
  BY <1>1 DEF NoCommand, LoopAt, AdminState, LoopState

\* The two outcome transactions.
LEMMA OutcomeType ==
    ASSUME TypeOK, NEW j \in Jobs, NEW w,
           HandleJobFailure(j, w) \/ HandleJobSuccess(j, w)
    PROVE  jobs' \in [Jobs -> JobRow] /\ logs' \in [Jobs -> Seq(LogRow)]
<1>1. FailedRow(j) \in JobRow
  BY FailedRowType
<1>2. Updated(j, "completed", jobs[j].retries, jobs[j].due) \in JobRow
  <2>1. jobs[j].retries \in Nat /\ jobs[j].due \in BOOLEAN
    BY DEF TypeOK, JobRow
  <2> QED
    BY <2>1, UpdatedType DEF JobStatus
<1>3. \A outcome \in {"success", "failed"} : Closed(j, w, outcome) \in Seq(LogRow)
  BY ClosedType
<1> QED
  BY <1>1, <1>2, <1>3 DEF TypeOK, HandleJobFailure, HandleJobSuccess

\* An executor that ends.
LEMMA FinishType ==
    ASSUME TypeOK, NEW p \in Pools, NEW e, Finish(p, e)
    PROVE  /\ workers' \in [Pools -> WorkerRow]
           /\ execs' \in [Pools -> SUBSET Execution]
<1>1. workers' \in [Pools -> WorkerRow]
  BY RegisteredType DEF Finish
<1> QED
  BY <1>1 DEF TypeOK, Finish

\* A main loop that changes its record for another one.
LEMMA LoopType ==
    ASSUME TypeOK, NEW p \in Pools, NEW l \in LoopState, loop' = [loop EXCEPT ![p] = l]
    PROVE  loop' \in [Pools -> LoopState]
BY DEF TypeOK

\* A main loop that only goes on to another statement.
LEMMA GotoType ==
    ASSUME TypeOK, NEW p \in Pools, NEW pc \in {"starting", "list", "exited", "dead"}, Goto(p, pc)
    PROVE  loop' \in [Pools -> LoopState]
<1>1. loop[p] \in LoopState
  BY DEF TypeOK
<1>2. [loop[p] EXCEPT !.pc = pc] \in LoopState
  BY <1>1 DEF LoopState
<1>3. loop' = [loop EXCEPT ![p] = [loop[p] EXCEPT !.pc = pc]]
  BY DEF Goto
<1> QED
  BY <1>2, <1>3, LoopType

\* A job row, and an admin's command, replaced by another one.
LEMMA RowType ==
    ASSUME TypeOK, NEW j \in Jobs, NEW r \in JobRow, jobs' = [jobs EXCEPT ![j] = r]
    PROVE  jobs' \in [Jobs -> JobRow]
BY DEF TypeOK

\* An admin that takes up another command.
LEMMA CommandType ==
    ASSUME TypeOK, NEW a \in Admins, NEW c \in AdminState,
           admins' = [admins EXCEPT ![a] = c]
    PROVE  admins' \in [Admins -> AdminState]
BY DEF TypeOK

\* Every step keeps the types; a reclaimer's and a command's job is a job because of what
\* they hold.
LEMMA TypeStep ==
    TypeOK /\ ReclaimInv /\ CommandInv /\ [Next]_vars => TypeOK'
<1> SUFFICES ASSUME TypeOK, ReclaimInv, CommandInv, [Next]_vars
             PROVE  TypeOK'
  OBVIOUS
<1> USE DEF tables, process
<1>1. ASSUME NEW j \in Jobs, Enqueue(j)
      PROVE  TypeOK'
  <2>1. PICK q \in Queues, pr \in Priorities, r \in RequestedRetries, due \in BOOLEAN :
           jobs' = [jobs EXCEPT ![j] =
                      [status |-> "pending", queue |-> q, priority |-> pr, retries |-> 0,
                       maxRetries |-> IF r <= 0 THEN DefaultMaxRetries ELSE r,
                       due |-> due, updatedAt |-> 1]]
    BY <1>1 DEF Enqueue
  <2>2. (IF r <= 0 THEN DefaultMaxRetries ELSE r) \in Nat /\ pr \in Int
    BY LimitsAssumption
  <2>3. [status |-> "pending", queue |-> q, priority |-> pr, retries |-> 0,
         maxRetries |-> IF r <= 0 THEN DefaultMaxRetries ELSE r,
         due |-> due, updatedAt |-> 1] \in JobRow
    BY <2>2 DEF JobRow, JobStatus
  <2>4. jobs' \in [Jobs -> JobRow]
    BY <2>1, <2>3, RowType
  <2> QED
    BY <1>1, <2>4 DEF TypeOK, Enqueue
<1>2. ASSUME NEW j \in Jobs, BecomeDue(j)
      PROVE  TypeOK'
  BY <1>2 DEF TypeOK, BecomeDue, JobRow
<1>3. CASE PurgeCompleted
  <2>1. \A j \in Jobs : jobs[j] \in JobRow /\ [jobs[j] EXCEPT !.status = "deleted"] \in JobRow
    BY DEF TypeOK, JobRow, JobStatus
  <2>2. jobs' \in [Jobs -> JobRow]
    BY <1>3, <2>1 DEF PurgeCompleted
  <2> QED
    BY <1>3, <2>2 DEF TypeOK, PurgeCompleted
<1>4. CASE GetMetrics
  BY <1>4, PrunedType DEF TypeOK, GetMetrics
<1>5. ASSUME NEW p \in Pools, StartPool(p)
      PROVE  TypeOK'
  BY <1>5, RegisteredType, GotoType DEF TypeOK, StartPool
<1>6. ASSUME NEW p \in Pools, NEW j \in Jobs, FetchNextJob(p, j)
      PROVE  TypeOK'
  <2> DEFINE l == [loop[p] EXCEPT !.pc = "dispatch", !.job = j, !.log = Len(logs[j]) + 1]
  <2>1. jobs[j].retries \in Nat /\ jobs[j].due \in BOOLEAN
    BY DEF TypeOK, JobRow
  <2>2. Updated(j, "running", jobs[j].retries, jobs[j].due) \in JobRow
    BY <2>1, UpdatedType DEF JobStatus
  <2>3. jobs' \in [Jobs -> JobRow]
    BY <1>6, <2>2, RowType DEF FetchNextJob
  <2>4. NewExecutionLog(p, j) \in LogRow
    BY <2>1 DEF NewExecutionLog, LogRow
  <2>5. logs[j] \in Seq(LogRow) /\ Len(logs[j]) + 1 \in Nat
    BY DEF TypeOK
  <2>6. Append(logs[j], NewExecutionLog(p, j)) \in Seq(LogRow)
    BY <2>4, <2>5
  <2>7. logs' \in [Jobs -> Seq(LogRow)]
    BY <1>6, <2>6 DEF TypeOK, FetchNextJob
  <2>8. loop[p] \in LoopState
    BY DEF TypeOK
  <2>9. l \in LoopState
    BY <2>5, <2>8 DEF LoopState
  <2>10. loop' \in [Pools -> LoopState]
    BY <1>6, <2>9, LoopType DEF FetchNextJob
  <2> QED
    BY <1>6, <2>3, <2>7, <2>10 DEF TypeOK, FetchNextJob
<1>7. ASSUME NEW p \in Pools, Dispatch(p)
      PROVE  TypeOK'
  <2>1. loop' \in [Pools -> LoopState]
    BY <1>7, ConstantsType, LoopType DEF Dispatch
  <2>2. workers' \in [Pools -> WorkerRow]
    BY <1>7, RegisteredType DEF TypeOK, Dispatch
  <2>3. Claimed(p) \in Execution
    BY <1>7 DEF TypeOK, ReclaimInv, LoopState, Dispatch, Claimed, Execution
  <2> QED
    BY <1>7, <2>1, <2>2, <2>3 DEF TypeOK, Dispatch, Started
<1>8. ASSUME NEW p \in Pools, PruneStale(p)
      PROVE  TypeOK'
  BY <1>8, PrunedType, GotoType DEF TypeOK, PruneStale
<1>9. ASSUME NEW p \in Pools, ListRunning(p)
      PROVE  TypeOK'
  <2> DEFINE l == [loop[p] EXCEPT !.pc = "scan",
                                  !.todo = {j \in Jobs : jobs[j].status = "running"}]
  <2>1. loop[p] \in LoopState
    BY DEF TypeOK
  <2>2. l \in LoopState
    BY <2>1 DEF LoopState
  <2>3. loop' \in [Pools -> LoopState]
    BY <1>9, <2>2, LoopType DEF ListRunning
  <2> QED
    BY <1>9, <2>3 DEF TypeOK, ListRunning
<1>10. ASSUME NEW p \in Pools, NEW j \in Jobs, ReadLatestLog(p, j)
       PROVE  TypeOK'
  <2> DEFINE l(w) == [loop[p] EXCEPT !.pc = "check", !.todo = @ \ {j},
                                     !.job = j, !.owner = w]
  <2>1. PICK w \in Pools \cup {NoWorker} : loop' = [loop EXCEPT ![p] = l(w)]
    BY <1>10 DEF ReadLatestLog
  <2>2. loop[p] \in LoopState
    BY DEF TypeOK
  <2>3. l(w) \in LoopState
    BY <2>2 DEF LoopState
  <2>4. loop' \in [Pools -> LoopState]
    BY <2>1, <2>3, LoopType
  <2> QED
    BY <1>10, <2>4 DEF TypeOK, ReadLatestLog
<1>11. ASSUME NEW p \in Pools, CheckOwner(p)
       PROVE  TypeOK'
  <2>1. loop[p] \in LoopState
    BY DEF TypeOK
  <2>2. [loop[p] EXCEPT !.pc = "fail"] \in LoopState
    BY <2>1 DEF LoopState
  <2>3. [loop[p] EXCEPT !.pc = "scan", !.job = NoJob, !.owner = NoWorker] \in LoopState
    BY <2>1 DEF LoopState
  <2>4. loop' \in [Pools -> LoopState]
    BY <1>11, <2>2, <2>3, LoopType DEF CheckOwner
  <2> QED
    BY <1>11, <2>4 DEF TypeOK, CheckOwner
<1>12. ASSUME NEW p \in Pools, ReclaimJob(p)
       PROVE  TypeOK'
  <2>1. loop[p] \in LoopState /\ loop[p].job \in Jobs
    BY <1>12 DEF TypeOK, ReclaimInv, ReclaimJob
  <2>2. [loop[p] EXCEPT !.pc = "scan", !.job = NoJob, !.owner = NoWorker] \in LoopState
    BY <2>1 DEF LoopState
  <2>3. loop' \in [Pools -> LoopState]
    BY <1>12, <2>2, LoopType DEF ReclaimJob
  <2>4. jobs' \in [Jobs -> JobRow] /\ logs' \in [Jobs -> Seq(LogRow)]
    BY <1>12, <2>1, OutcomeType DEF ReclaimJob
  <2> QED
    BY <1>12, <2>3, <2>4 DEF TypeOK, ReclaimJob
<1>13. ASSUME NEW p \in Pools, FinishReclaim(p) \/ AbandonReclaim(p)
       PROVE  TypeOK'
  <2>1. loop' \in [Pools -> LoopState]
    BY <1>13, ConstantsType, LoopType DEF FinishReclaim, AbandonReclaim
  <2> QED
    BY <1>13, <2>1 DEF TypeOK, FinishReclaim, AbandonReclaim
<1>14. ASSUME NEW p \in Pools, ShutDown(p)
       PROVE  TypeOK'
  <2>1. workers' \in [Pools -> WorkerRow]
    BY <1>14 DEF TypeOK, ShutDown, Unregistered, WorkerRow
  <2> QED
    BY <1>14, <2>1, GotoType DEF TypeOK, ShutDown
<1>15. ASSUME NEW p \in Pools, NEW e \in execs[p], ExecutionSucceeds(p, e) \/ ExecutionFails(p, e)
       PROVE  TypeOK'
  <2>1. e.job \in Jobs
    BY DEF TypeOK, Execution
  <2>2. jobs' \in [Jobs -> JobRow] /\ logs' \in [Jobs -> Seq(LogRow)]
    BY <1>15, <2>1, OutcomeType DEF ExecutionSucceeds, ExecutionFails
  <2>3. /\ workers' \in [Pools -> WorkerRow]
        /\ execs' \in [Pools -> SUBSET Execution]
    BY <1>15, FinishType DEF ExecutionSucceeds, ExecutionFails
  <2> QED
    BY <1>15, <2>2, <2>3 DEF TypeOK, ExecutionSucceeds, ExecutionFails
<1>16. ASSUME NEW p \in Pools, NEW e \in execs[p], OutcomeIsLost(p, e)
       PROVE  TypeOK'
  <2>1. /\ workers' \in [Pools -> WorkerRow]
        /\ execs' \in [Pools -> SUBSET Execution]
    BY <1>16, FinishType DEF OutcomeIsLost
  <2>2. budget.losses - 1 \in Nat
    BY <1>16 DEF TypeOK, OutcomeIsLost
  <2>3. budget' \in [replays: Nat, lapses: Nat, losses: Nat]
    BY <1>16, <2>2 DEF TypeOK, OutcomeIsLost
  <2> QED
    BY <1>16, <2>1, <2>3 DEF TypeOK, OutcomeIsLost
<1>17. ASSUME NEW p \in Pools, Heartbeat(p)
       PROVE  TypeOK'
  BY <1>17, RegisteredType DEF TypeOK, Heartbeat
<1>18. ASSUME NEW p \in Pools, Lapse(p)
       PROVE  TypeOK'
  <2>1. workers' \in [Pools -> WorkerRow]
    BY <1>18 DEF TypeOK, Lapse, WorkerRow
  <2>2. budget' \in [replays: Nat, lapses: Nat, losses: Nat]
    BY <1>18 DEF TypeOK, Lapse
  <2> QED
    BY <1>18, <2>1, <2>2 DEF TypeOK, Lapse
<1>19. ASSUME NEW p \in Pools, Interrupt(p)
       PROVE  TypeOK'
  BY <1>19 DEF TypeOK, Interrupt
<1>20. ASSUME NEW p \in Pools, Crash(p)
       PROVE  TypeOK'
  <2>1. loop' \in [Pools -> LoopState]
    BY <1>20, ConstantsType, LoopType DEF Crash
  <2> QED
    BY <1>20, <2>1 DEF TypeOK, Crash
<1>21. ASSUME NEW a \in Admins, NEW j \in Jobs, NEW q \in Queues,
              NEW op \in {"retry", "restore", "delete"}, ReadDeadLetter(a, j, op, q)
       PROVE  TypeOK'
  <2>1. [op |-> op, job |-> j, seen |-> jobs[j].updatedAt, target |-> q] \in AdminState
    BY DEF TypeOK, AdminState, JobRow
  <2>2. admins' \in [Admins -> AdminState]
    BY <1>21, <2>1, CommandType DEF ReadDeadLetter
  <2>3. op # "delete" => budget.replays - 1 \in Nat
    BY <1>21 DEF TypeOK, ReadDeadLetter
  <2>4. budget' \in [replays: Nat, lapses: Nat, losses: Nat]
    BY <1>21, <2>3 DEF TypeOK, ReadDeadLetter
  <2> QED
    BY <1>21, <2>2, <2>4 DEF TypeOK, ReadDeadLetter
<1>22. ASSUME NEW a \in Admins, WriteReplay(a)
       PROVE  TypeOK'
  <2>1. admins[a].job \in Jobs
    BY <1>22 DEF CommandInv, WriteReplay
  <2>2. Replayed(admins[a].job) \in JobRow
    BY <2>1, UpdatedType DEF Replayed, JobStatus
  <2>3. jobs' \in [Jobs -> JobRow]
    BY <1>22, <2>1, <2>2, RowType DEF TypeOK, WriteReplay
  <2>4. admins' \in [Admins -> AdminState]
    BY <1>22, ConstantsType, CommandType DEF WriteReplay, CommandDone
  <2> QED
    BY <1>22, <2>3, <2>4 DEF TypeOK, WriteReplay
<1>23. ASSUME NEW a \in Admins, WriteDelete(a)
       PROVE  TypeOK'
  <2> DEFINE j == admins[a].job
  <2>0. jobs[j] \in JobRow
    BY <1>23 DEF TypeOK, CommandInv, WriteDelete
  <2>1. jobs' \in [Jobs -> JobRow]
    <3>1. [jobs[j] EXCEPT !.status = "deleted"] \in JobRow
      BY <2>0 DEF JobRow, JobStatus
    <3>2. \/ jobs' = [jobs EXCEPT ![j] = [jobs[j] EXCEPT !.status = "deleted"]]
          \/ jobs' = jobs
      BY <1>23 DEF WriteDelete
    <3> QED
      BY <3>1, <3>2 DEF TypeOK
  <2>2. admins' \in [Admins -> AdminState]
    BY <1>23, ConstantsType, CommandType DEF WriteDelete, CommandDone
  <2> QED
    BY <1>23, <2>1, <2>2 DEF TypeOK, WriteDelete
<1>24. CASE UNCHANGED vars
  BY <1>24 DEF TypeOK, vars
<1>25. \A j \in Jobs : jobs[j].queue \in Queues
  BY DEF TypeOK, JobRow
<1>26. ASSUME NEW p \in Pools, LateUpsert(p)
       PROVE  TypeOK'
  BY <1>26, RegisteredType, GotoType DEF TypeOK, LateUpsert
<1> QED
  BY <1>1, <1>2, <1>3, <1>4, <1>5, <1>6, <1>7, <1>8, <1>9, <1>10, <1>11, <1>12, <1>13,
     <1>14, <1>15, <1>16, <1>17, <1>18, <1>19, <1>20, <1>21, <1>22, <1>23, <1>24, <1>25,
     <1>26
     DEF Next, LoopStep, ExecutorStep, Environment, AdminStep

-----------------------------------------------------------------------------
(* What a step may do to one job *)

Kept(j) == jobs'[j] = jobs[j] /\ logs'[j] = logs[j]

Enqueued(j) ==
    /\ jobs[j].status = "none"
    /\ jobs'[j].status = "pending"
    /\ jobs'[j].retries = 0
    /\ logs'[j] = logs[j]

CameDue(j) ==
    /\ jobs[j].status = "pending"
    /\ jobs'[j] = [jobs[j] EXCEPT !.due = TRUE]
    /\ logs'[j] = logs[j]

DeletedBy(a, j) ==
    /\ admins[a].op = "delete"
    /\ admins[a].job = j
    /\ admins'[a] = NoCommand

Deleted(j) ==
    /\ Exists(j)
    /\ jobs[j].status = "completed" \/ \E a \in Admins : DeletedBy(a, j)
    /\ jobs'[j] = [jobs[j] EXCEPT !.status = "deleted"]
    /\ logs'[j] = logs[j]

Acquired(j) ==
    /\ jobs[j].status = "pending"
    /\ jobs'[j] = Updated(j, "running", jobs[j].retries, jobs[j].due)
    /\ \E p \in Pools : /\ FetchNextJob(p, j)
                       /\ logs'[j] = Append(logs[j], NewExecutionLog(p, j))

\* An executor of w answers for j and ends.
Answers(w, j) ==
    \E e \in execs[w] : /\ e.job = j
                       /\ execs' = [execs EXCEPT ![w] = @ \ {e}]
                       /\ loop' = loop

\* A reclaimer answers for a worker it has found dead.
Blamed(w) == \E p \in Pools : loop[p].pc = "fail" /\ loop[p].owner = w

Failed(j) ==
    \E w \in Pools :
        /\ Answers(w, j) \/ Blamed(w)
        /\ MayFail(j, w)
        /\ jobs'[j] = FailedRow(j)
        /\ logs'[j] = Closed(j, w, "failed")

Completed(j) ==
    /\ jobs[j].status = "running"
    /\ jobs'[j] = Updated(j, "completed", jobs[j].retries, jobs[j].due)
    /\ \E w \in Pools : Answers(w, j) /\ logs'[j] = Closed(j, w, "success")

ReplayedBy(a, j) ==
    /\ admins[a].op \in {"retry", "restore"}
    /\ admins[a].job = j
    /\ StillAsRead(a)
    /\ jobs'[j] = Replayed(j)
    /\ logs'[j] = logs[j]
    /\ admins'[a] = NoCommand

\* Whatever the step, one job is left alone or goes through one of these.
LEMMA JobStep ==
    ASSUME TypeOK, ReclaimInv, CommandInv, [Next]_vars, NEW j \in Jobs
    PROVE  \/ Kept(j)  \/ Enqueued(j)  \/ CameDue(j)  \/ Deleted(j)  \/ Acquired(j)
           \/ Failed(j)  \/ Completed(j)
           \/ \E a \in Admins : ReplayedBy(a, j)
<1> USE DEF tables, process
<1> DEFINE Goal == \/ Kept(j)  \/ Enqueued(j)  \/ CameDue(j)  \/ Deleted(j)  \/ Acquired(j)
                   \/ Failed(j)  \/ Completed(j)
                   \/ \E a \in Admins : ReplayedBy(a, j)
<1>a. /\ DOMAIN jobs = Jobs
      /\ DOMAIN logs = Jobs
      /\ DOMAIN admins = Admins
      /\ NoWorker \notin Pools
  BY PoolsAssumption DEF TypeOK
<1>b. ASSUME jobs' = jobs, logs' = logs
      PROVE  Goal
  BY <1>b DEF Kept
<1>1. ASSUME NEW k \in Jobs, Enqueue(k)
      PROVE  Goal
  BY <1>1, <1>a DEF Enqueue, Enqueued, Kept
<1>2. ASSUME NEW k \in Jobs, BecomeDue(k)
      PROVE  Goal
  BY <1>2, <1>a DEF BecomeDue, CameDue, Kept
<1>3. CASE PurgeCompleted
  BY <1>3, <1>a DEF PurgeCompleted, Deleted, Kept, Exists
<1>4. ASSUME NEW p \in Pools, NEW k \in Jobs, FetchNextJob(p, k)
      PROVE  Goal
  BY <1>4, <1>a DEF FetchNextJob, IsNextPending, Acquired, Kept
<1>5. ASSUME NEW p \in Pools, ReclaimJob(p)
      PROVE  Goal
  <2>1. loop[p].owner \in Pools /\ loop[p].job \in Jobs
    BY <1>5 DEF ReclaimInv, ReclaimJob
  <2> QED
    BY <1>5, <2>1, <1>a DEF ReclaimJob, HandleJobFailure, Failed, Blamed, Kept
<1>6. ASSUME NEW p \in Pools, NEW e \in execs[p], ExecutionFails(p, e)
      PROVE  Goal
  <2>1. e.job \in Jobs
    BY DEF TypeOK, Execution
  <2>2. Answers(p, e.job)
    BY <1>6 DEF ExecutionFails, Finish, Answers
  <2> QED
    BY <1>6, <2>1, <2>2, <1>a DEF ExecutionFails, HandleJobFailure, Failed, Kept
<1>7. ASSUME NEW p \in Pools, NEW e \in execs[p], ExecutionSucceeds(p, e)
      PROVE  Goal
  <2>1. e.job \in Jobs
    BY DEF TypeOK, Execution
  <2>2. Answers(p, e.job)
    BY <1>7 DEF ExecutionSucceeds, Finish, Answers
  <2> QED
    BY <1>7, <2>1, <2>2, <1>a DEF ExecutionSucceeds, HandleJobSuccess, Completed, Kept
<1>8. ASSUME NEW a \in Admins, WriteReplay(a)
      PROVE  Goal
  <2>1. admins[a].job \in Jobs
    BY <1>8 DEF CommandInv, WriteReplay
  <2> QED
    BY <1>8, <2>1, <1>a DEF WriteReplay, CommandDone, ReplayedBy, Kept
<1>9. ASSUME NEW a \in Admins, WriteDelete(a)
      PROVE  Goal
  <2>1. admins[a].job \in Jobs
    BY <1>9 DEF CommandInv, WriteDelete
  <2> QED
    BY <1>9, <2>1, <1>a DEF WriteDelete, CommandDone, Deleted, DeletedBy, Kept
<1>10. ASSUME NEW p \in Pools,
              \/ StartPool(p) \/ Dispatch(p) \/ PruneStale(p) \/ ListRunning(p)
              \/ \E k \in Jobs : ReadLatestLog(p, k)
              \/ CheckOwner(p) \/ FinishReclaim(p) \/ AbandonReclaim(p) \/ ShutDown(p)
              \/ \E e \in execs[p] : OutcomeIsLost(p, e)
              \/ Environment(p)
       PROVE  Goal
  BY <1>10, <1>b
     DEF StartPool, Dispatch, PruneStale, ListRunning, ReadLatestLog, CheckOwner,
         FinishReclaim, AbandonReclaim, ShutDown, OutcomeIsLost, Environment, Heartbeat,
         LateUpsert, Lapse, Interrupt, Crash
<1>11. ASSUME NEW a \in Admins, NEW k \in Jobs, NEW op, NEW q, ReadDeadLetter(a, k, op, q)
       PROVE  Goal
  BY <1>11, <1>b DEF ReadDeadLetter
<1>12. CASE GetMetrics \/ UNCHANGED vars
  BY <1>12, <1>b DEF GetMetrics, vars
<1> QED
  BY <1>1, <1>2, <1>3, <1>4, <1>5, <1>6, <1>7, <1>8, <1>9, <1>10, <1>11, <1>12
     DEF Next, LoopStep, ExecutorStep, AdminStep

-----------------------------------------------------------------------------
(* The latest attempt *)

\* A set of naturals that is not empty has a least element, and, bounded, a greatest.
LEMMA LeastNatural ==
    ASSUME NEW T, T \subseteq Nat, T # {}
    PROVE  \E x \in T : \A y \in T : x <= y
<1> DEFINE R == OpToRel(<, Nat)
<1>1. \E x \in T : \A y \in T : <<y, x>> \notin R
  <2>1. IsWellFoundedOn(R, Nat)
    BY NatLessThanWellFounded
  <2> HIDE DEF R
  <2> QED
    BY <2>1, WFMin
<1>2. \A x, y \in Nat : <<y, x>> \notin R => x <= y
  BY DEF OpToRel
<1> QED
  BY <1>1, <1>2

\* By the least element of the distances from the bound.
LEMMA GreatestNatural ==
    ASSUME NEW T, T \subseteq Nat, T # {}, NEW b \in Nat, \A x \in T : x <= b
    PROVE  \E x \in T : \A y \in T : y <= x
<1> DEFINE U == {b - x : x \in T}
<1>1. U \subseteq Nat /\ U # {}
  <2>1. \A x \in T : b - x \in Nat
    OBVIOUS
  <2>2. PICK x \in T : TRUE
    OBVIOUS
  <2>3. b - x \in U
    BY <2>2
  <2> QED
    BY <2>1, <2>3
<1>2. PICK u \in U : \A v \in U : u <= v
  <2> HIDE DEF U
  <2> QED
    BY <1>1, LeastNatural
<1>3. PICK x \in T : u = b - x
  BY <1>2
<1>4. \A y \in T : y <= x
  BY <1>2, <1>3
<1> QED
  BY <1>4

\* A job that has a history has a latest attempt.
LEMMA LatestExists ==
    ASSUME TypeOK, AttemptBound, NEW j \in Jobs, logs[j] # <<>>
    PROVE  \E i \in DOMAIN logs[j] : IsLatest(j, i)
<1> DEFINE Attempt(i) == logs[j][i].attempt
           A == {Attempt(i) : i \in DOMAIN logs[j]}
<1>0. logs[j] \in Seq(LogRow)
  BY DEF TypeOK
<1>1. /\ DOMAIN logs[j] = 1 .. Len(logs[j])
      /\ Len(logs[j]) \in Nat
      /\ Len(logs[j]) # 0
      /\ \A i \in DOMAIN logs[j] : Attempt(i) \in Nat
  <2>1. \A i \in DOMAIN logs[j] : logs[j][i] \in LogRow
    BY <1>0
  <2> QED
    BY <1>0, <2>1 DEF LogRow
<1>2. PICK n \in A : \A m \in A : m <= n
  <2>1. A \subseteq Nat /\ A # {}
    <3>1. Attempt(1) \in A
      BY <1>1
    <3> QED
      BY <1>1, <3>1
  <2>2. jobs[j].maxRetries + 1 \in Nat /\ \A m \in A : m <= jobs[j].maxRetries + 1
    BY DEF TypeOK, JobRow, AttemptBound
  <2> HIDE DEF A
  <2> QED
    BY <2>1, <2>2, GreatestNatural
<1> DEFINE I == {i \in DOMAIN logs[j] : Attempt(i) = n}
<1>3. PICK i \in I : \A k \in I : k <= i
  <2>1. I \subseteq Nat /\ I # {} /\ \A k \in I : k <= Len(logs[j])
    BY <1>1, <1>2
  <2> HIDE DEF I
  <2> QED
    BY <1>1, <2>1, GreatestNatural
<1>4. \A k \in DOMAIN logs[j] : \/ Attempt(k) < Attempt(i)
                                \/ Attempt(k) = Attempt(i) /\ k <= i
  <2> SUFFICES ASSUME NEW k \in DOMAIN logs[j], ~(Attempt(k) < Attempt(i))
               PROVE  Attempt(k) = Attempt(i) /\ k <= i
    OBVIOUS
  <2>1. Attempt(k) <= n /\ Attempt(i) = n /\ Attempt(k) \in Nat /\ n \in Nat
    BY <1>1, <1>2, <1>3
  <2>2. Attempt(k) = n
    BY <2>1
  <2> QED
    BY <1>3, <2>1, <2>2
<1> QED
  BY <1>3, <1>4 DEF IsLatest

-----------------------------------------------------------------------------
(* The invariant of one job's row and history, and its preservation *)

JobInv(j) ==
    /\ \A i \in DOMAIN logs[j] : logs[j][i].outcome = "open" =>
          i = Len(logs[j]) /\ jobs[j].status \in {"running", "completed", "deleted"}
    /\ jobs[j].status = "running" =>
          LET n == Len(logs[j])
          IN  /\ n > 0
              /\ logs[j][n].outcome = "open"
              /\ logs[j][n].attempt = jobs[j].retries + 1
    /\ jobs[j].status = "none" => logs[j] = <<>>
    /\ jobs[j].status \in {"pending", "running"} => jobs[j].retries <= jobs[j].maxRetries
    /\ \A i \in DOMAIN logs[j] : logs[j][i].attempt <= jobs[j].maxRetries + 1

\* The job-wise conjuncts of the invariant, taken together for one job.
LEMMA JobInvParts ==
    (\A j \in Jobs : JobInv(j))
        <=> OpenAttemptIsCurrent /\ RunningHasOpenAttempt /\ RowsInv /\ AttemptBound
BY DEF JobInv, OpenAttemptIsCurrent, RunningHasOpenAttempt, RowsInv, AttemptBound

\* Closed changes nothing but the outcome of open rows.
LEMMA ClosedRows ==
    ASSUME TypeOK, NEW j \in Jobs, NEW w, NEW outcome \in {"success", "failed"},
           NEW i \in DOMAIN logs[j]
    PROVE  LET c == Closed(j, w, outcome)[i]
           IN  /\ c.attempt = logs[j][i].attempt
               /\ c.worker = logs[j][i].worker
               /\ c.outcome = "open" => logs[j][i].outcome = "open"
<1>1. logs[j][i] \in LogRow
  BY DEF TypeOK
<1>2. \/ Closed(j, w, outcome)[i] = logs[j][i]
      \/ Closed(j, w, outcome)[i] = [logs[j][i] EXCEPT !.outcome = outcome]
  BY DEF Closed
<1> QED
  BY <1>1, <1>2 DEF LogRow

\* A failure that is accepted closes the one attempt that was open.
LEMMA FailureCloses ==
    ASSUME TypeOK, AttemptBound, NEW j \in Jobs, JobInv(j), NEW w \in Pools, MayFail(j, w)
    PROVE  \A i \in DOMAIN logs[j] : Closed(j, w, "failed")[i].outcome # "open"
<1>1. w # NoWorker /\ logs[j] # <<>>
  BY PoolsAssumption DEF MayFail, JobInv, TypeOK
<1>2. PICK l \in DOMAIN logs[j] : IsLatest(j, l)
  BY <1>1, LatestExists
<1>3. logs[j][l].worker = w /\ logs[j][l].outcome = "open"
  BY <1>1, <1>2 DEF MayFail
<1>4. l = Len(logs[j])
  BY <1>3 DEF JobInv
<1>5. ASSUME NEW i \in DOMAIN logs[j]
      PROVE  Closed(j, w, "failed")[i].outcome # "open"
  <2>1. logs[j][i] \in LogRow
    BY DEF TypeOK
  <2>2. CASE i = l
    <3>1. Closed(j, w, "failed")[i] = [logs[j][i] EXCEPT !.outcome = "failed"]
      BY <1>2, <1>3, <2>2 DEF Closed
    <3> QED
      BY <2>1, <3>1 DEF LogRow
  <2>3. CASE i # l
    <3>1. logs[j][i].outcome # "open"
      BY <1>4, <2>3 DEF JobInv
    <3> QED
      BY <3>1, ClosedRows
  <2> QED
    BY <2>2, <2>3
<1> QED
  BY <1>5

\* Whatever the step does to a job, classified by JobStep, its row and history stay in order.
LEMMA JobInvStep ==
    ASSUME TypeOK, AttemptBound, ReclaimInv, CommandInv, [Next]_vars, NEW j \in Jobs, JobInv(j)
    PROVE  JobInv(j)'
<1>1. /\ jobs[j] \in JobRow
      /\ logs[j] \in Seq(LogRow)
      /\ DOMAIN logs[j] = 1 .. Len(logs[j])
      /\ Len(logs[j]) \in Nat
      /\ \A i \in DOMAIN logs[j] : logs[j][i] \in LogRow
  BY DEF TypeOK
<1>2. CASE Kept(j)
  BY <1>2 DEF Kept, JobInv
<1>0. jobs'[j] \in JobRow
  BY TypeStep DEF TypeOK
<1>3. CASE Enqueued(j)
  <2>1. logs'[j] = <<>> /\ DOMAIN logs'[j] = {}
    BY <1>3 DEF Enqueued, JobInv
  <2>2. jobs'[j].status = "pending" /\ jobs'[j].retries <= jobs'[j].maxRetries
    BY <1>0, <1>3 DEF Enqueued, JobRow
  <2> QED
    BY <2>1, <2>2 DEF JobInv
<1>4. CASE CameDue(j)
  BY <1>1, <1>4 DEF CameDue, JobInv, JobRow
<1>5. CASE Deleted(j)
  BY <1>1, <1>5 DEF Deleted, JobInv, JobRow
<1>6. CASE Acquired(j)
  <2>1. PICK p \in Pools : logs'[j] = Append(logs[j], NewExecutionLog(p, j))
    BY <1>6 DEF Acquired
  <2>2. /\ jobs[j].status = "pending"
        /\ jobs'[j].status = "running"
        /\ jobs'[j].retries = jobs[j].retries
        /\ jobs'[j].maxRetries = jobs[j].maxRetries
    BY <1>1, <1>6 DEF Acquired, Updated, JobRow
  <2> DEFINE n == Len(logs[j]) + 1
  <2>3. /\ NewExecutionLog(p, j).outcome = "open"
        /\ NewExecutionLog(p, j).attempt = jobs[j].retries + 1
        /\ NewExecutionLog(p, j) \in LogRow
    BY <1>1 DEF NewExecutionLog, JobRow, LogRow
  <2>4. /\ Len(logs'[j]) = n
        /\ n > 0
        /\ DOMAIN logs'[j] = 1 .. n
        /\ logs'[j][n] = NewExecutionLog(p, j)
        /\ \A i \in 1 .. n : i # n => i \in DOMAIN logs[j] /\ logs'[j][i] = logs[j][i]
    BY <1>1, <2>1, <2>3
  <2>5. \A i \in DOMAIN logs[j] : logs[j][i].outcome # "open"
    BY <2>2 DEF JobInv
  <2>6. \A i \in DOMAIN logs'[j] : logs'[j][i].attempt <= jobs'[j].maxRetries + 1
    <3>1. jobs[j].retries <= jobs[j].maxRetries /\ jobs[j].retries \in Nat
      BY <1>1, <2>2 DEF JobInv, JobRow
    <3>2. jobs[j].retries + 1 <= jobs'[j].maxRetries + 1
      BY <1>1, <2>2, <3>1 DEF JobRow
    <3> QED
      BY <2>2, <2>3, <2>4, <3>2 DEF JobInv
  <2>7. jobs'[j].retries <= jobs'[j].maxRetries
    BY <2>2 DEF JobInv
  <2> QED
    BY <2>2, <2>3, <2>4, <2>5, <2>6, <2>7 DEF JobInv
<1>7. CASE Failed(j)
  <2>1. PICK w \in Pools : /\ MayFail(j, w)
                           /\ jobs'[j] = FailedRow(j)
                           /\ logs'[j] = Closed(j, w, "failed")
    BY <1>7 DEF Failed
  <2>2. DOMAIN logs'[j] = DOMAIN logs[j] /\ logs[j] # <<>>
    BY <1>1, <2>1 DEF Closed, MayFail, JobInv
  <2>3. \A i \in DOMAIN logs'[j] : logs'[j][i].outcome # "open"
    BY <2>1, <2>2, FailureCloses
  <2>4. /\ jobs'[j].status \in {"pending", "dead_letter"}
        /\ jobs'[j].maxRetries = jobs[j].maxRetries
        /\ jobs'[j].status = "pending" => jobs'[j].retries <= jobs'[j].maxRetries
    BY <1>1, <2>1 DEF FailedRow, Updated, JobRow
  <2>5. \A i \in DOMAIN logs'[j] : logs'[j][i].attempt <= jobs'[j].maxRetries + 1
    BY <2>1, <2>2, <2>4, ClosedRows DEF JobInv
  <2> QED
    BY <2>3, <2>4, <2>5 DEF JobInv
<1>8. CASE Completed(j)
  <2>1. PICK w \in Pools : logs'[j] = Closed(j, w, "success")
    BY <1>8 DEF Completed
  <2>2. DOMAIN logs'[j] = DOMAIN logs[j] /\ Len(logs'[j]) = Len(logs[j])
    BY <1>1, <2>1, ClosedType DEF Closed
  <2>3. jobs'[j].status = "completed" /\ jobs'[j].maxRetries = jobs[j].maxRetries
    BY <1>1, <1>8 DEF Completed, Updated, JobRow
  <2>4. \A i \in DOMAIN logs'[j] : logs'[j][i].outcome = "open" => i = Len(logs'[j])
    BY <2>1, <2>2, ClosedRows DEF JobInv
  <2>5. \A i \in DOMAIN logs'[j] : logs'[j][i].attempt <= jobs'[j].maxRetries + 1
    BY <2>1, <2>2, <2>3, ClosedRows DEF JobInv
  <2> QED
    BY <2>3, <2>4, <2>5 DEF JobInv
<1>9. ASSUME NEW a \in Admins, ReplayedBy(a, j)
      PROVE  JobInv(j)'
  <2>1. jobs[j].status = "dead_letter"
    BY <1>9 DEF ReplayedBy, CommandInv, StillAsRead
  <2>2. /\ jobs'[j].status = "pending"
        /\ jobs'[j].retries = 0
        /\ jobs'[j].maxRetries = jobs[j].maxRetries
    BY <1>1, <1>9 DEF ReplayedBy, Replayed, Updated, JobRow
  <2>3. logs'[j] = logs[j] /\ \A i \in DOMAIN logs[j] : logs[j][i].outcome # "open"
    BY <1>9, <2>1 DEF ReplayedBy, JobInv
  <2>4. 0 <= jobs[j].maxRetries
    BY <1>1 DEF JobRow
  <2> QED
    BY <2>2, <2>3, <2>4 DEF JobInv
<1> QED
  BY <1>2, <1>3, <1>4, <1>5, <1>6, <1>7, <1>8, <1>9, JobStep

\* A write to a row that exists draws a later updated_at, and only writes, deletes and
\* purges change the status; a history only grows.
LEMMA StampStep ==
    ASSUME TypeOK, ReclaimInv, CommandInv, [Next]_vars, NEW j \in Jobs,
           jobs[j].status # "none"
    PROVE  /\ jobs'[j].status # "none"
           /\ jobs[j].updatedAt <= jobs'[j].updatedAt
           /\ jobs'[j].updatedAt = jobs[j].updatedAt =>
                 jobs'[j].status \in {jobs[j].status, "deleted"}
<1>1. jobs[j] \in JobRow /\ jobs[j].updatedAt \in Nat
  BY DEF TypeOK, JobRow
<1>2. CASE Kept(j) \/ CameDue(j) \/ Deleted(j)
  BY <1>1, <1>2 DEF Kept, CameDue, Deleted, JobRow
<1>3. CASE Enqueued(j)
  BY <1>3 DEF Enqueued
<1>4. ASSUME NEW status \in JobStatus \ {"none"}, NEW retries, NEW due,
             jobs'[j] = Updated(j, status, retries, due)
      PROVE  jobs'[j].status # "none" /\ jobs'[j].updatedAt = jobs[j].updatedAt + 1
  BY <1>1, <1>4 DEF Updated, JobRow
<1>5. CASE Acquired(j) \/ Failed(j) \/ Completed(j) \/ \E a \in Admins : ReplayedBy(a, j)
  <2>1. \/ jobs'[j] = Updated(j, "running", jobs[j].retries, jobs[j].due)
        \/ jobs'[j] = Updated(j, "completed", jobs[j].retries, jobs[j].due)
        \/ jobs'[j] = Updated(j, "pending", 0, TRUE)
        \/ jobs'[j] = Updated(j, "dead_letter", jobs[j].retries + 1, jobs[j].due)
        \/ jobs'[j] = Updated(j, "pending", jobs[j].retries + 1, FALSE)
    BY <1>5 DEF Acquired, Failed, Completed, ReplayedBy, Replayed, FailedRow
  <2>2. jobs'[j].status # "none" /\ jobs'[j].updatedAt = jobs[j].updatedAt + 1
    BY <1>4, <2>1 DEF JobStatus
  <2> QED
    BY <1>1, <2>2
<1> QED
  BY <1>2, <1>3, <1>5, JobStep

\* A job that was claimed once stays so: no step removes rows of execution_logs.
LEMMA HistoryGrows ==
    ASSUME TypeOK, ReclaimInv, CommandInv, [Next]_vars, NEW j \in Jobs, logs[j] # <<>>
    PROVE  logs'[j] # <<>>
<1>1. logs[j] \in Seq(LogRow) /\ Len(logs[j]) # 0
  BY DEF TypeOK
<1>2. CASE logs'[j] = logs[j]
  BY <1>2
<1>3. ASSUME NEW r, logs'[j] = Append(logs[j], r)
      PROVE  logs'[j] # <<>>
  BY <1>1, <1>3
<1>4. ASSUME NEW w, NEW outcome \in {"success", "failed"}, logs'[j] = Closed(j, w, outcome)
      PROVE  logs'[j] # <<>>
  <2>1. Len(Closed(j, w, outcome)) = Len(logs[j])
    BY ClosedType
  <2> QED
    BY <1>1, <1>4, <2>1
<1> QED
  BY <1>2, <1>3, <1>4, JobStep
     DEF Kept, Enqueued, CameDue, Deleted, Acquired, Failed, Completed, ReplayedBy

-----------------------------------------------------------------------------
(* What main loops and dlq commands hold *)

\* ReclaimInv of one main loop, on the histories as they are.
Holds(l) ==
    /\ l.pc \in {"check", "fail", "dispatch"} => l.job \in Jobs
    /\ l.pc \in {"check", "fail"} => l.owner \in Pools
    /\ \A j \in l.todo : logs[j] # <<>>

\* A reclaimer always holds a job with an owner.
LEMMA ReclaimInvStep ==
    ASSUME TypeOK, RunningHasOpenAttempt, ReclaimInv, CommandInv, [Next]_vars
    PROVE  ReclaimInv'
<1> USE DEF tables, process
<1>0. /\ \A p \in Pools : Holds(loop[p]) /\ loop[p] \in LoopState
      /\ DOMAIN loop = Pools
  BY DEF ReclaimInv, TypeOK, Holds
<1> DEFINE AllHold == \A p \in Pools : Holds(loop'[p])
<1>1. ASSUME NEW p \in Pools, NEW l, loop' = [loop EXCEPT ![p] = l], Holds(l)
      PROVE  AllHold
  BY <1>0, <1>1
<1>2. ASSUME loop' = loop
      PROVE  AllHold
  BY <1>0, <1>2
<1>3. ASSUME NEW p \in Pools, NEW pc \in {"starting", "list", "exited", "dead"}, Goto(p, pc)
      PROVE  AllHold
  <2>1. Holds([loop[p] EXCEPT !.pc = pc])
    BY <1>0 DEF Holds, LoopState
  <2> QED
    BY <1>1, <1>3, <2>1 DEF Goto
<1>4. ASSUME NEW p \in Pools, NEW pc \in {"select", "dead"},
             loop' = [loop EXCEPT ![p] = LoopAt(pc)]
      PROVE  AllHold
  <2>1. Holds(LoopAt(pc))
    BY DEF Holds, LoopAt
  <2> QED
    BY <1>1, <1>4, <2>1
<1>5. ASSUME NEW p \in Pools, NEW j \in Jobs, FetchNextJob(p, j)
      PROVE  AllHold
  <2>1. Holds([loop[p] EXCEPT !.pc = "dispatch", !.job = j, !.log = Len(logs[j]) + 1])
    BY <1>0 DEF Holds, LoopState
  <2> QED
    BY <1>1, <1>5, <2>1 DEF FetchNextJob
<1>6. ASSUME NEW p \in Pools, ListRunning(p)
      PROVE  AllHold
  <2>1. \A j \in Jobs : jobs[j].status = "running" => logs[j] # <<>>
    BY DEF RunningHasOpenAttempt, TypeOK
  <2>2. Holds([loop[p] EXCEPT !.pc = "scan",
                              !.todo = {j \in Jobs : jobs[j].status = "running"}])
    BY <1>0, <2>1 DEF Holds, LoopState
  <2> QED
    BY <1>1, <1>6, <2>2 DEF ListRunning
<1>7. ASSUME NEW p \in Pools, NEW j \in Jobs, ReadLatestLog(p, j)
      PROVE  AllHold
  <2> DEFINE l(w) == [loop[p] EXCEPT !.pc = "check", !.todo = @ \ {j}, !.job = j, !.owner = w]
  <2>1. logs[j] # <<>>
    BY <1>0, <1>7 DEF ReadLatestLog, Holds
  <2>2. PICK i \in DOMAIN logs[j] : loop' = [loop EXCEPT ![p] = l(logs[j][i].worker)]
    BY <1>7, <2>1 DEF ReadLatestLog
  <2>3. logs[j][i].worker \in Pools
    <3>1. logs[j] \in Seq(LogRow)
      BY DEF TypeOK
    <3>2. logs[j][i] \in LogRow
      BY <2>2, <3>1
    <3> QED
      BY <3>2 DEF LogRow
  <2>4. Holds(l(logs[j][i].worker))
    BY <1>0, <2>3 DEF Holds, LoopState
  <2> QED
    BY <1>1, <2>2, <2>4
<1>8. ASSUME NEW p \in Pools, CheckOwner(p) \/ ReclaimJob(p)
      PROVE  AllHold
  <2>1. Holds([loop[p] EXCEPT !.pc = "scan", !.job = NoJob, !.owner = NoWorker])
    BY <1>0 DEF Holds, LoopState
  <2>2. loop[p].pc = "check" => Holds([loop[p] EXCEPT !.pc = "fail"])
    BY <1>0 DEF Holds, LoopState
  <2> QED
    BY <1>1, <1>8, <2>1, <2>2 DEF CheckOwner, ReclaimJob
<1>9. ASSUME NEW p \in Pools, LoopStep(p)
      PROVE  AllHold
  <2>1. CASE StartPool(p) \/ PruneStale(p) \/ ShutDown(p)
    BY <1>3, <2>1 DEF StartPool, PruneStale, ShutDown
  <2>2. CASE Dispatch(p) \/ FinishReclaim(p) \/ AbandonReclaim(p)
    BY <1>4, <2>2 DEF Dispatch, FinishReclaim, AbandonReclaim
  <2> QED
    BY <1>5, <1>6, <1>7, <1>8, <1>9, <2>1, <2>2 DEF LoopStep
<1>10. ASSUME NEW p \in Pools, ExecutorStep(p) \/ Environment(p)
       PROVE  AllHold
  <2>1. CASE Crash(p)
    BY <1>4, <2>1 DEF Crash
  <2>2. CASE ExecutorStep(p)
    BY <1>2, <2>2 DEF ExecutorStep, ExecutionSucceeds, ExecutionFails, OutcomeIsLost
  <2>3. CASE Heartbeat(p) \/ Lapse(p) \/ Interrupt(p)
    BY <1>2, <2>3 DEF Heartbeat, Lapse, Interrupt
  <2>4. CASE LateUpsert(p)
    BY <1>3, <2>4 DEF LateUpsert
  <2> QED
    BY <1>10, <2>1, <2>2, <2>3, <2>4 DEF Environment
<1>11. ASSUME NEW a \in Admins, AdminStep(a)
       PROVE  AllHold
  BY <1>2, <1>11 DEF AdminStep, ReadDeadLetter, WriteReplay, WriteDelete
<1>12. ASSUME \/ \E j \in Jobs : Enqueue(j) \/ BecomeDue(j)
              \/ PurgeCompleted \/ GetMetrics \/ UNCHANGED vars
       PROVE  AllHold
  BY <1>2, <1>12 DEF Enqueue, BecomeDue, PurgeCompleted, GetMetrics, vars
<1>13. AllHold
  BY <1>9, <1>10, <1>11, <1>12 DEF Next
<1>14. \A p \in Pools : loop'[p].todo \subseteq Jobs
  BY TypeStep DEF TypeOK, LoopState
<1> QED
  BY <1>13, <1>14, HistoryGrows DEF ReclaimInv, Holds

\* A dlq command's stamp goes stale as soon as its row is written.
LEMMA CommandInvStep ==
    ASSUME TypeOK, ReclaimInv, CommandInv, [Next]_vars
    PROVE  CommandInv'
<1> USE DEF tables, process
<1> DEFINE Inv(a) ==
             /\ admins[a].job \in Jobs
             /\ jobs[admins[a].job].status # "none"
             /\ admins[a].seen <= jobs[admins[a].job].updatedAt
             /\ /\ Exists(admins[a].job)
                /\ admins[a].seen = jobs[admins[a].job].updatedAt
                => jobs[admins[a].job].status = "dead_letter"
<1>1. ASSUME NEW a \in Admins, admins[a].op # "none", admins'[a] = admins[a]
      PROVE  Inv(a)'
  <2> DEFINE j == admins[a].job
  <2>1. Inv(a)
    BY <1>1 DEF CommandInv
  <2>2. /\ jobs'[j].status # "none"
        /\ jobs[j].updatedAt <= jobs'[j].updatedAt
        /\ jobs'[j].updatedAt = jobs[j].updatedAt =>
              jobs'[j].status \in {jobs[j].status, "deleted"}
    BY <2>1, StampStep
  <2>3. jobs[j].updatedAt \in Nat /\ jobs'[j].updatedAt \in Nat /\ admins[a].seen \in Nat
    BY <2>1, TypeStep DEF TypeOK, JobRow, AdminState
  <2>4. admins'[a].job = j /\ admins'[a].seen = admins[a].seen
    BY <1>1
  <2>5. admins[a].seen <= jobs'[j].updatedAt
    BY <2>1, <2>2, <2>3
  <2>6. ASSUME jobs'[j].status \notin {"none", "deleted"}, admins[a].seen = jobs'[j].updatedAt
        PROVE  jobs'[j].status = "dead_letter"
    <3>1. jobs'[j].updatedAt = jobs[j].updatedAt
      BY <2>1, <2>2, <2>3, <2>6
    <3>2. jobs'[j].status = jobs[j].status
      BY <2>2, <2>6, <3>1
    <3> QED
      BY <2>1, <2>6, <3>1, <3>2 DEF Exists
  <2> QED
    BY <2>1, <2>2, <2>4, <2>5, <2>6 DEF Exists
<1>2. ASSUME NEW a \in Admins, NEW j \in Jobs, NEW op, NEW q, ReadDeadLetter(a, j, op, q)
      PROVE  Inv(a)'
  <2>1. /\ admins'[a].job = j
        /\ admins'[a].seen = jobs[j].updatedAt
        /\ jobs' = jobs
        /\ jobs[j].status = "dead_letter"
        /\ jobs[j].updatedAt \in Nat
    BY <1>2 DEF ReadDeadLetter, TypeOK, JobRow
  <2> QED
    BY <2>1 DEF Exists
<1>3. ASSUME NEW a \in Admins, NEW b \in Admins, AdminStep(b), admins'[a].op # "none"
      PROVE  Inv(a)'
  <2>1. CASE \E j \in Jobs, op \in {"retry", "restore", "delete"} :
                \E q : ReadDeadLetter(b, j, op, q)
    <3>1. CASE a = b
      BY <1>2, <2>1, <3>1
    <3>2. CASE a # b
      BY <1>1, <1>3, <2>1, <3>2 DEF ReadDeadLetter, TypeOK
    <3> QED
      BY <3>1, <3>2
  <2>2. CASE WriteReplay(b) \/ WriteDelete(b)
    <3>1. a # b /\ admins'[a] = admins[a]
      BY <1>3, <2>2 DEF WriteReplay, WriteDelete, CommandDone, NoCommand, TypeOK
    <3> QED
      BY <1>1, <1>3, <3>1
  <2> QED
    BY <1>3, <2>1, <2>2 DEF AdminStep
<1>4. CASE admins' = admins
  BY <1>1, <1>4 DEF CommandInv
<1>5. ASSUME NEW p \in Pools, LoopStep(p) \/ ExecutorStep(p) \/ Environment(p)
      PROVE  admins' = admins
  <2>1. CASE LoopStep(p)
    BY <2>1 DEF LoopStep, StartPool, FetchNextJob, Dispatch, PruneStale, ListRunning,
                ReadLatestLog, CheckOwner, ReclaimJob, FinishReclaim, AbandonReclaim, ShutDown
  <2>2. CASE ExecutorStep(p)
    BY <2>2 DEF ExecutorStep, ExecutionSucceeds, ExecutionFails, OutcomeIsLost
  <2>3. CASE Environment(p)
    BY <2>3 DEF Environment, Heartbeat, LateUpsert, Lapse, Interrupt, Crash
  <2> QED
    BY <1>5, <2>1, <2>2, <2>3
<1>6. CASE \/ \E j \in Jobs : Enqueue(j) \/ BecomeDue(j)
           \/ PurgeCompleted \/ GetMetrics \/ UNCHANGED vars
  BY <1>4, <1>6 DEF Enqueue, BecomeDue, PurgeCompleted, GetMetrics, vars
<1>7. (\A a \in Admins : admins'[a].op # "none" => Inv(a)') => CommandInv'
  BY DEF CommandInv, Exists
<1> QED
  BY <1>3, <1>4, <1>5, <1>6, <1>7 DEF Next, CommandInv

-----------------------------------------------------------------------------
(* Theorems *)

\* The empty database.
LEMMA InductiveInit == Init => Inductive
<1> SUFFICES ASSUME Init
             PROVE  Inductive
  OBVIOUS
<1>1. /\ \A j \in Jobs : jobs[j].status = "none" /\ logs[j] = <<>> /\ DOMAIN logs[j] = {}
      /\ \A p \in Pools : loop[p].pc = "off" /\ loop[p].todo = {}
      /\ \A a \in Admins : admins[a].op = "none"
  BY DEF Init, LoopAt, NoCommand
<1>2. TypeOK
  <2>1. jobs \in [Jobs -> JobRow]
    BY ConstantsType DEF Init, JobRow, JobStatus
  <2>2. logs \in [Jobs -> Seq(LogRow)]
    BY DEF Init
  <2>3. workers \in [Pools -> WorkerRow]
    BY DEF Init, WorkerRow
  <2>4. loop \in [Pools -> LoopState]
    BY ConstantsType DEF Init
  <2>5. admins \in [Admins -> AdminState]
    BY ConstantsType DEF Init
  <2>6. budget \in [replays: Nat, lapses: Nat, losses: Nat]
    BY LimitsAssumption DEF Init
  <2> QED
    BY <2>1, <2>2, <2>3, <2>4, <2>5, <2>6 DEF Init, TypeOK
<1>3. OpenAttemptIsCurrent /\ RunningHasOpenAttempt /\ RowsInv /\ AttemptBound
  BY <1>1 DEF OpenAttemptIsCurrent, RunningHasOpenAttempt, RowsInv, AttemptBound
<1>4. ReclaimInv /\ CommandInv
  BY <1>1 DEF ReclaimInv, CommandInv
<1> QED
  BY <1>2, <1>3, <1>4 DEF Inductive

\* The parts together.
LEMMA InductiveStep == Inductive /\ [Next]_vars => Inductive'
<1> SUFFICES ASSUME Inductive, [Next]_vars
             PROVE  Inductive'
  OBVIOUS
<1>1. /\ TypeOK /\ RunningHasOpenAttempt /\ AttemptBound /\ ReclaimInv /\ CommandInv
      /\ \A j \in Jobs : JobInv(j)
  BY JobInvParts DEF Inductive
<1>2. TypeOK'
  BY <1>1, TypeStep
<1>3. \A j \in Jobs : JobInv(j)'
  BY <1>1, JobInvStep
<1>4. (OpenAttemptIsCurrent /\ RunningHasOpenAttempt /\ RowsInv /\ AttemptBound)'
  BY <1>3 DEF JobInv, OpenAttemptIsCurrent, RunningHasOpenAttempt, RowsInv, AttemptBound
<1>5. ReclaimInv' /\ CommandInv'
  BY <1>1, ReclaimInvStep, CommandInvStep
<1> QED
  BY <1>2, <1>4, <1>5 DEF Inductive

\* Every reachable state satisfies the inductive invariant.
THEOREM InductiveHolds == Spec => []Inductive
BY InductiveInit, InductiveStep, PTL DEF Spec

\* The tables, loops and commands keep their types: no reachable statement, whoever
\* races with it, writes a status, an attempt or a counter outside of its column.
THEOREM TypeCorrect == Spec => []TypeOK
<1>1. Inductive => TypeOK
  BY DEF Inductive
<1> QED
  BY <1>1, InductiveHolds, PTL

\* However many pools crash, lapse, reclaim and answer late, and whatever the dlq
\* commands do meanwhile, a job's only open attempt is its last.
THEOREM OpenAttemptsAreCurrent == Spec => []OpenAttemptIsCurrent
<1>1. Inductive => OpenAttemptIsCurrent
  BY DEF Inductive
<1> QED
  BY <1>1, InductiveHolds, PTL

\* A running job always has the open attempt that its retry count announces.
THEOREM RunningJobsHaveOpenAttempt == Spec => []RunningHasOpenAttempt
<1>1. Inductive => RunningHasOpenAttempt
  BY DEF Inductive
<1> QED
  BY <1>1, InductiveHolds, PTL

\* Completed and deleted jobs stay so, and a dead-lettered job is revived only by a
\* command that read this row, for any number of pools, operators and replays.
THEOREM LateAnswersAreRejected == Spec => LateAnswersRejected
<1>1. Inductive /\ [Next]_vars => [KeepsSettled]_vars
  <2> SUFFICES ASSUME Inductive, [Next]_vars, NEW j \in Jobs
               PROVE  /\ jobs[j].status = "completed" =>
                            jobs'[j].status \in {"completed", "deleted"}
                      /\ jobs[j].status = "deleted" => jobs'[j] = jobs[j]
                      /\ jobs[j].status = "dead_letter" /\ jobs'[j] # jobs[j] =>
                            \E a \in Admins : /\ admins[a].job = j
                                              /\ admins'[a] = NoCommand
                                              /\ admins[a].op # "delete" =>
                                                    admins[a].seen = jobs[j].updatedAt
    BY DEF KeepsSettled
  <2>1. jobs[j] \in JobRow
    BY DEF Inductive, TypeOK
  <2>2. CASE Kept(j) \/ Enqueued(j) \/ CameDue(j) \/ Acquired(j) \/ Failed(j) \/ Completed(j)
    BY <2>2 DEF Kept, Enqueued, CameDue, Acquired, Failed, MayFail, Completed
  <2>3. CASE Deleted(j)
    BY <2>1, <2>3 DEF Deleted, DeletedBy, Exists, JobRow
  <2>4. ASSUME NEW a \in Admins, ReplayedBy(a, j)
        PROVE  /\ jobs[j].status = "dead_letter"
               /\ admins[a].job = j /\ admins'[a] = NoCommand
               /\ admins[a].seen = jobs[j].updatedAt
    BY <2>4 DEF ReplayedBy, StillAsRead, Inductive, CommandInv
  <2> QED
    BY <2>2, <2>3, <2>4, JobStep DEF Inductive
<1> QED
  BY <1>1, InductiveHolds, PTL DEF Spec, LateAnswersRejected
=============================================================================

----------------------- MODULE JobQueueProcess_proofs -----------------------
(***************************************************************************)
(* Proofs that the pools of JobQueue are processes of WorkerProcess.       *)
(***************************************************************************)
EXTENDS JobQueueProcess, JobQueue_proofs, FiniteSetTheorems

-----------------------------------------------------------------------------
(* What a step may do to one process *)

\* The step is somebody else's.
LeftAlone(p) ==
    /\ loop'[p] = loop[p]
    /\ execs'[p] = execs[p]
    /\ p \in beating' <=> p \in beating
    /\ p \in cancelled' <=> p \in cancelled
    /\ HasRow(p)' <=> HasRow(p)

\* Other processes, reclaimers and commands neither touch a process nor remove its row.
LEMMA PoolStep ==
    ASSUME TypeOK, [Next]_vars, NEW p \in Pools
    PROVE  LeftAlone(p) \/ LoopStep(p) \/ ExecutorStep(p) \/ Environment(p)
<1> USE DEF tables, process
<1>0. /\ DOMAIN loop = Pools /\ DOMAIN execs = Pools /\ DOMAIN workers = Pools
      /\ \A w \in Pools : DOMAIN workers[w] = {"status", "fresh"}
  BY DEF TypeOK, WorkerRow
<1>1. ASSUME UNCHANGED <<loop, execs, beating, cancelled>>,
             \/ UNCHANGED workers
             \/ workers' = Pruned
             \/ \E q \in Pools \ {p} : Lapse(q)
      PROVE  LeftAlone(p)
  <2>1. HasRow(p)' <=> HasRow(p)
    BY <1>0, <1>1 DEF HasRow, Pruned, Prunable, Lapse
  <2> QED
    BY <1>1, <2>1 DEF LeftAlone
<1>2. CASE \/ \E j \in Jobs : Enqueue(j) \/ BecomeDue(j)
           \/ PurgeCompleted \/ GetMetrics
           \/ \E a \in Admins : AdminStep(a)
           \/ UNCHANGED vars
  BY <1>1, <1>2
     DEF Enqueue, BecomeDue, PurgeCompleted, GetMetrics, AdminStep, ReadDeadLetter,
         WriteReplay, WriteDelete, vars
<1>3. ASSUME NEW q \in Pools \ {p}, LoopStep(q)
      PROVE  LeftAlone(p)
  <2>1. CASE StartPool(q) \/ PruneStale(q) \/ ShutDown(q)
    BY <1>0, <2>1
       DEF StartPool, PruneStale, ShutDown, Goto, Registered, Unregistered, Pruned, Prunable,
           HasRow, LeftAlone
  <2>2. CASE Dispatch(q)
    BY <1>0, <2>2 DEF Dispatch, MaybeRegistered, Registered, HasRow, LeftAlone
  <2>3. ASSUME NEW j \in Jobs, FetchNextJob(q, j) \/ ReadLatestLog(q, j)
        PROVE  LeftAlone(p)
    BY <1>0, <2>3 DEF FetchNextJob, ReadLatestLog, HasRow, LeftAlone
  <2>4. CASE ListRunning(q) \/ CheckOwner(q) \/ ReclaimJob(q)
    BY <1>0, <2>4 DEF ListRunning, CheckOwner, ReclaimJob, HasRow, LeftAlone
  <2>5. CASE FinishReclaim(q) \/ AbandonReclaim(q)
    BY <1>0, <2>5 DEF FinishReclaim, AbandonReclaim, HasRow, LeftAlone
  <2> QED
    BY <1>3, <2>1, <2>2, <2>3, <2>4, <2>5 DEF LoopStep
<1>4. ASSUME NEW q \in Pools \ {p}, NEW e \in execs[q],
             ExecutionSucceeds(q, e) \/ ExecutionFails(q, e) \/ OutcomeIsLost(q, e)
      PROVE  LeftAlone(p)
  BY <1>0, <1>4
     DEF ExecutionSucceeds, ExecutionFails, OutcomeIsLost, Finish, MaybeRegistered,
         Registered, HasRow, LeftAlone
<1>5. ASSUME NEW q \in Pools \ {p}, Environment(q)
      PROVE  LeftAlone(p)
  <2>1. CASE Heartbeat(q) \/ LateUpsert(q)
    BY <1>0, <2>1 DEF Heartbeat, LateUpsert, Goto, Registered, HasRow, LeftAlone
  <2>2. CASE Lapse(q)
    BY <1>1, <2>2 DEF Lapse
  <2>3. CASE Interrupt(q) \/ Crash(q)
    BY <1>0, <2>3 DEF Interrupt, Crash, HasRow, LeftAlone
  <2> QED
    BY <1>5, <2>1, <2>2, <2>3 DEF Environment
<1> QED
  BY <1>2, <1>3, <1>4, <1>5 DEF Next, ExecutorStep

-----------------------------------------------------------------------------
(* The invariant *)

\* Histories never get shorter.
LEMMA HistoryKept ==
    ASSUME TypeOK, ReclaimInv, CommandInv, [Next]_vars, NEW j \in Jobs
    PROVE  Len(logs[j]) \in Nat /\ Len(logs'[j]) \in Nat /\ Len(logs[j]) <= Len(logs'[j])
<1>1. logs[j] \in Seq(LogRow) /\ Len(logs[j]) \in Nat
  BY DEF TypeOK
<1>2. CASE logs'[j] = logs[j]
  BY <1>1, <1>2
<1>3. ASSUME NEW r, logs'[j] = Append(logs[j], r)
      PROVE  Len(logs'[j]) = Len(logs[j]) + 1
  BY <1>1, <1>3
<1>4. ASSUME NEW w, NEW outcome \in {"success", "failed"}, logs'[j] = Closed(j, w, outcome)
      PROVE  Len(logs'[j]) = Len(logs[j])
  BY <1>4, ClosedType
<1>5. \/ logs'[j] = logs[j]
      \/ \E r : logs'[j] = Append(logs[j], r)
      \/ \E w : logs'[j] = Closed(j, w, "failed") \/ logs'[j] = Closed(j, w, "success")
  <2>1. CASE Kept(j) \/ Enqueued(j) \/ CameDue(j) \/ Deleted(j)
    BY <2>1 DEF Kept, Enqueued, CameDue, Deleted
  <2>2. CASE Acquired(j)
    BY <2>2 DEF Acquired
  <2>3. CASE Failed(j) \/ Completed(j)
    BY <2>3 DEF Failed, Completed
  <2>4. CASE \E a \in Admins : ReplayedBy(a, j)
    BY <2>4 DEF ReplayedBy
  <2> QED
    BY <2>1, <2>2, <2>3, <2>4, JobStep
<1> QED
  BY <1>1, <1>2, <1>3, <1>4, <1>5

\* ProcessInv of one process, on given histories.
SlotsInv(l, E, history) ==
    /\ IsFiniteSet(E)
    /\ \A e \in E : e.log <= Len(history[e.job])
    /\ l.pc = "dispatch" =>
          [job |-> l.job, log |-> l.log] \notin E /\ l.log <= Len(history[l.job])

\* Every step preserves it: a claim inserts an attempt that nobody has yet.
LEMMA ProcessInvStep ==
    ASSUME Inductive, ProcessInv, [Next]_vars
    PROVE  ProcessInv'
<1> USE DEF tables, process
<1>0. /\ TypeOK /\ ReclaimInv /\ CommandInv
      /\ DOMAIN loop = Pools /\ DOMAIN execs = Pools /\ DOMAIN logs = Jobs
      /\ \A p \in Pools : loop[p] \in LoopState /\ SlotsInv(loop[p], execs[p], logs)
      /\ \A p \in Pools : \A e \in execs[p] : e.job \in Jobs /\ e.log \in Nat
      /\ \A p \in Pools : loop[p].pc = "dispatch" => loop[p].job \in Jobs
  BY DEF Inductive, TypeOK, Execution, ProcessInv, SlotsInv, Claimed, ReclaimInv
<1>1. \A j \in Jobs : /\ Len(logs[j]) \in Nat /\ Len(logs'[j]) \in Nat
                      /\ Len(logs[j]) <= Len(logs'[j])
  BY <1>0, HistoryKept
<1>2. ASSUME NEW p \in Pools
      PROVE  SlotsInv(loop'[p], execs'[p], logs')
  <2>0. SlotsInv(loop[p], execs[p], logs')
    <3>1. \A j \in Jobs, n \in Nat : n <= Len(logs[j]) => n <= Len(logs'[j])
      BY <1>1
    <3>2. loop[p].log \in Nat
      BY <1>0 DEF LoopState
    <3> QED
      BY <1>0, <3>1, <3>2 DEF SlotsInv
  <2>1. ASSUME execs'[p] = execs[p], loop'[p] = loop[p] \/ loop'[p].pc # "dispatch"
        PROVE  SlotsInv(loop'[p], execs'[p], logs')
    BY <2>0, <2>1 DEF SlotsInv
  <2>2. ASSUME NEW j \in Jobs, FetchNextJob(p, j)
        PROVE  SlotsInv(loop'[p], execs'[p], logs')
    <3>1. /\ loop'[p].job = j /\ loop'[p].log = Len(logs[j]) + 1
          /\ execs' = execs
      BY <1>0, <2>2 DEF FetchNextJob, LoopState
    <3>2. [job |-> j, log |-> Len(logs[j]) + 1] \notin execs[p]
      <4>1. \A n \in Nat : n <= Len(logs[j]) => n # Len(logs[j]) + 1
        BY <1>1
      <4>2. \A e \in execs[p] : e.log \in Nat /\ e.log <= Len(logs[e.job])
        BY <1>0 DEF SlotsInv
      <4> QED
        BY <4>1, <4>2
    <3>3. logs'[j] = Append(logs[j], NewExecutionLog(p, j)) /\ logs[j] \in Seq(LogRow)
      BY <1>0, <2>2 DEF FetchNextJob, TypeOK
    <3>4. Len(logs'[j]) = Len(logs[j]) + 1
      BY <3>3
    <3> QED
      BY <2>0, <1>1, <3>1, <3>2, <3>4 DEF SlotsInv
  <2>3. ASSUME Dispatch(p)
        PROVE  SlotsInv(loop'[p], execs'[p], logs')
    <3>1. /\ execs'[p] = execs[p] \cup {Claimed(p)}
          /\ loop'[p].pc = "select" /\ loop[p].pc = "dispatch"
      BY <1>0, <2>3 DEF Dispatch, Started, LoopAt
    <3>2. IsFiniteSet(execs'[p])
      BY <2>0, <3>1, FS_AddElement DEF SlotsInv
    <3> QED
      BY <2>0, <3>1, <3>2 DEF SlotsInv, Claimed
  <2>4. ASSUME NEW e \in execs[p],
               ExecutionSucceeds(p, e) \/ ExecutionFails(p, e) \/ OutcomeIsLost(p, e)
        PROVE  SlotsInv(loop'[p], execs'[p], logs')
    <3>1. execs'[p] = execs[p] \ {e} /\ loop' = loop
      BY <1>0, <2>4 DEF ExecutionSucceeds, ExecutionFails, OutcomeIsLost, Finish
    <3>2. IsFiniteSet(execs'[p])
      BY <2>0, <3>1, FS_RemoveElement DEF SlotsInv
    <3> QED
      BY <2>0, <3>1, <3>2 DEF SlotsInv
  <2>5. CASE Crash(p)
    <3>1. execs'[p] = {} /\ loop'[p].pc = "dead"
      BY <1>0, <2>5 DEF Crash, LoopAt
    <3> QED
      BY <3>1, FS_EmptySet DEF SlotsInv
  <2>6. CASE LeftAlone(p) \/ Heartbeat(p) \/ Lapse(p) \/ Interrupt(p)
    BY <2>1, <2>6 DEF LeftAlone, Heartbeat, Lapse, Interrupt
  <2>7. CASE LateUpsert(p) \/ StartPool(p) \/ PruneStale(p) \/ ShutDown(p)
    <3>1. execs'[p] = execs[p] /\ loop'[p].pc # "dispatch"
      BY <1>0, <2>7 DEF LateUpsert, StartPool, PruneStale, ShutDown, Goto, LoopState
    <3> QED
      BY <2>1, <3>1
  <2>8. CASE ListRunning(p) \/ CheckOwner(p) \/ ReclaimJob(p)
    <3>1. execs'[p] = execs[p] /\ loop'[p].pc # "dispatch"
      BY <1>0, <2>8 DEF ListRunning, CheckOwner, ReclaimJob, LoopState
    <3> QED
      BY <2>1, <3>1
  <2>9. CASE FinishReclaim(p) \/ AbandonReclaim(p)
    <3>1. execs'[p] = execs[p] /\ loop'[p].pc # "dispatch"
      BY <1>0, <2>9 DEF FinishReclaim, AbandonReclaim, LoopAt
    <3> QED
      BY <2>1, <3>1
  <2>10. ASSUME NEW j \in Jobs, ReadLatestLog(p, j)
         PROVE  SlotsInv(loop'[p], execs'[p], logs')
    <3>1. execs'[p] = execs[p] /\ loop'[p].pc # "dispatch"
      BY <1>0, <2>10 DEF ReadLatestLog, LoopState
    <3> QED
      BY <2>1, <3>1
  <2> QED
    BY <1>0, <2>2, <2>3, <2>4, <2>5, <2>6, <2>7, <2>8, <2>9, <2>10, PoolStep
       DEF LoopStep, ExecutorStep, Environment
<1>3. ASSUME NEW p \in Pools, p \in beating'
      PROVE  Alive(p)'
  <2>1. p \in beating => Alive(p)
    BY DEF ProcessInv
  <2>2. CASE LeftAlone(p)
    BY <1>3, <2>1, <2>2 DEF LeftAlone, Alive
  <2>3. CASE ExecutorStep(p) \/ Environment(p)
    BY <1>0, <1>3, <2>1, <2>3
       DEF ExecutorStep, ExecutionSucceeds, ExecutionFails, OutcomeIsLost, Environment,
           Heartbeat, LateUpsert, Lapse, Interrupt, Crash, Goto, Alive, LoopState
  <2>4. CASE StartPool(p) \/ PruneStale(p) \/ ShutDown(p)
    BY <1>0, <1>3, <2>1, <2>4 DEF StartPool, PruneStale, ShutDown, Goto, Alive, LoopState
  <2>5. ASSUME NEW j \in Jobs, FetchNextJob(p, j) \/ ReadLatestLog(p, j)
        PROVE  Alive(p)'
    <3>1. FetchNextJob(p, j) => loop'[p].pc = "dispatch"
      BY <1>0 DEF FetchNextJob, LoopState
    <3>2. ReadLatestLog(p, j) => loop'[p].pc = "check"
      BY <1>0 DEF ReadLatestLog, LoopState
    <3> QED
      BY <2>5, <3>1, <3>2 DEF Alive
  <2>6. CASE ListRunning(p) \/ CheckOwner(p) \/ ReclaimJob(p)
    <3>1. loop'[p].pc \in {"scan", "fail"}
      BY <1>0, <2>6 DEF ListRunning, CheckOwner, ReclaimJob, LoopState
    <3> QED
      BY <3>1 DEF Alive
  <2>7. CASE Dispatch(p) \/ FinishReclaim(p) \/ AbandonReclaim(p)
    BY <1>0, <1>3, <2>7 DEF Dispatch, FinishReclaim, AbandonReclaim, LoopAt, Alive
  <2> QED
    BY <1>0, <2>2, <2>3, <2>4, <2>5, <2>6, <2>7, PoolStep DEF LoopStep
<1>4. beating' \subseteq Pools
  BY <1>0, TypeStep DEF TypeOK
<1> QED
  BY <1>2, <1>3, <1>4 DEF ProcessInv, SlotsInv, Claimed

\* No process has started, so none has an executor.
LEMMA ProcessInvInit == Init => ProcessInv
BY FS_EmptySet DEF Init, ProcessInv, LoopAt, Alive

\* Every reachable state satisfies it.
THEOREM ProcessInvHolds == Spec => []ProcessInv
<1>1. Inductive /\ ProcessInv /\ [Next]_vars => ProcessInv'
  BY ProcessInvStep
<1> QED
  BY <1>1, ProcessInvInit, InductiveHolds, PTL DEF Spec

-----------------------------------------------------------------------------
(* The refinement *)

\* A pool that has not started is a process that has not.
LEMMA ProcessInit ==
    ASSUME Init, NEW p \in Pools
    PROVE  Process(p)!Init
BY FS_EmptySet DEF Init, Process!Init, LoopAt, HasRow, ProcessPc

\* Every step of a pool is one of its process.
LEMMA ProcessStep ==
    ASSUME Inductive, ProcessInv, [Next]_vars, NEW p \in Pools
    PROVE  UNCHANGED processVars(p) \/ Process(p)!Next
<1> USE DEF tables, process
<1> DEFINE Goal == UNCHANGED processVars(p) \/ Process(p)!Next
<1>0. /\ DOMAIN loop = Pools /\ DOMAIN execs = Pools /\ DOMAIN workers = Pools
      /\ loop[p] \in LoopState
      /\ IsFiniteSet(execs[p]) /\ Cardinality(execs[p]) \in Nat
  BY FS_CardinalityType DEF Inductive, TypeOK, ProcessInv
<1>1. CASE LeftAlone(p)
  <2>1. /\ ProcessPc(p)' = ProcessPc(p)
        /\ Cardinality(execs'[p]) = Cardinality(execs[p])
    BY <1>1 DEF LeftAlone, ProcessPc
  <2>2. (p \in cancelled)' = (p \in cancelled)
    BY <1>1, SMT DEF LeftAlone
  <2>3. HasRow(p)' = HasRow(p)
    BY <1>1, Zenon DEF LeftAlone, HasRow
  <2> QED
    BY <2>1, <2>2, <2>3, Zenon DEF processVars
<1>2. CASE StartPool(p)
  BY <1>0, <1>2
     DEF StartPool, Goto, Registered, Process!Next, Process!Register, ProcessPc, HasRow,
         LoopState
<1>3. ASSUME NEW j \in Jobs, FetchNextJob(p, j)
      PROVE  Goal
  BY <1>0, <1>3
     DEF FetchNextJob, Process!Next, Process!Claim, ProcessPc, HasRow, LoopState
<1>4. CASE Dispatch(p)
  <2>1. Cardinality(execs'[p]) = Cardinality(execs[p]) + 1
    BY <1>0, <1>4, FS_AddElement DEF Dispatch, Started, ProcessInv
  <2>2. UNCHANGED workers \/ HasRow(p)'
    BY <1>0, <1>4 DEF Dispatch, MaybeRegistered, Registered, HasRow
  <2>3. HasRow(p)' \in {HasRow(p), TRUE}
    BY <2>2, Zenon DEF HasRow
  <2>4. ProcessPc(p) = "dispatch" /\ ProcessPc(p)' = "select"
    BY <1>0, <1>4 DEF Dispatch, ProcessPc, LoopAt
  <2> QED
    BY <1>4, <2>1, <2>3, <2>4, Zenon DEF Dispatch, Process!Next, Process!Dispatch
<1>5. CASE PruneStale(p)
  <2>1. ProcessPc(p)' = "reclaim" /\ ProcessPc(p) \in {"reclaim", "select"}
    BY <1>0, <1>5 DEF PruneStale, Goto, ProcessPc, LoopState
  <2>2. HasRow(p)' = HasRow(p)
    BY <1>0, <1>5, Zenon DEF PruneStale, Pruned, Prunable, HasRow
  <2>3. UNCHANGED <<execs, cancelled>>
    BY <1>5 DEF PruneStale
  <2>4. CASE ProcessPc(p) = "reclaim"
    BY <2>1, <2>2, <2>3, <2>4, Zenon DEF processVars
  <2>5. CASE ProcessPc(p) = "select"
    BY <2>1, <2>2, <2>3, <2>5, Zenon DEF Process!Next, Process!Reclaim
  <2> QED
    BY <2>1, <2>4, <2>5
<1>6. ASSUME NEW j \in Jobs, ReadLatestLog(p, j)
      PROVE  Goal
  <2>1. ProcessPc(p) = "reclaim" /\ ProcessPc(p)' = "reclaim"
    BY <1>0, <1>6 DEF ReadLatestLog, ProcessPc, LoopState
  <2> QED
    BY <1>6, <2>1 DEF ReadLatestLog, processVars, HasRow
<1>7. CASE ListRunning(p) \/ CheckOwner(p) \/ ReclaimJob(p)
  <2>1. ProcessPc(p) = "reclaim" /\ ProcessPc(p)' = "reclaim"
    BY <1>0, <1>7 DEF ListRunning, CheckOwner, ReclaimJob, ProcessPc, LoopState
  <2> QED
    BY <1>7, <2>1 DEF ListRunning, CheckOwner, ReclaimJob, processVars, HasRow
<1>8. CASE FinishReclaim(p) \/ AbandonReclaim(p)
  <2>1. ProcessPc(p) = "reclaim" /\ ProcessPc(p)' = "select"
    BY <1>0, <1>8 DEF FinishReclaim, AbandonReclaim, ProcessPc, LoopAt
  <2> QED
    BY <1>8, <2>1
       DEF FinishReclaim, AbandonReclaim, Process!Next, Process!EndReclaim, HasRow
<1>9. CASE ShutDown(p)
  <2>1. ProcessPc(p) = "select" /\ ProcessPc(p)' = "exited"
    BY <1>0, <1>9 DEF ShutDown, Goto, ProcessPc, LoopState
  <2>2. HasRow(p)' = FALSE
    BY <1>0, <1>9 DEF ShutDown, Unregistered, HasRow
  <2> QED
    BY <1>9, <2>1, <2>2, FS_EmptySet DEF ShutDown, Process!Next, Process!Exit
<1>10. ASSUME NEW e \in execs[p],
              ExecutionSucceeds(p, e) \/ ExecutionFails(p, e) \/ OutcomeIsLost(p, e)
       PROVE  Goal
  <2>1. Finish(p, e) /\ UNCHANGED <<loop, cancelled>>
    BY <1>10 DEF ExecutionSucceeds, ExecutionFails, OutcomeIsLost
  <2>2. Cardinality(execs'[p]) = Cardinality(execs[p]) - 1
    BY <1>0, <2>1, FS_RemoveElement DEF Finish
  <2>3. Cardinality(execs[p]) > 0
    BY <1>0, FS_EmptySet
  <2>4. UNCHANGED workers \/ HasRow(p)'
    BY <1>0, <2>1 DEF Finish, MaybeRegistered, Registered, HasRow
  <2>5. HasRow(p)' \in {HasRow(p), TRUE}
    BY <2>4, Zenon DEF HasRow
  <2>6. ProcessPc(p)' = ProcessPc(p)
    BY <2>1 DEF ProcessPc
  <2> QED
    BY <2>1, <2>2, <2>3, <2>5, <2>6, Zenon DEF Process!Next, Process!Finish
<1>11. CASE Heartbeat(p)
  <2>1. Process(p)!Up
    BY <1>0, <1>11 DEF Heartbeat, ProcessInv, Alive, Process!Up, ProcessPc, LoopState
  <2>2. HasRow(p)' = TRUE
    BY <1>0, <1>11 DEF Heartbeat, Registered, HasRow
  <2> QED
    BY <1>11, <2>1, <2>2 DEF Heartbeat, Process!Next, Process!Upsert, ProcessPc
<1>12. CASE LateUpsert(p)
  <2>1. ProcessPc(p) = "exited" /\ ProcessPc(p)' = "dead"
    BY <1>0, <1>12 DEF LateUpsert, Goto, ProcessPc, LoopState
  <2>2. HasRow(p)' = TRUE
    BY <1>0, <1>12 DEF LateUpsert, Registered, HasRow
  <2> QED
    BY <1>12, <2>1, <2>2 DEF LateUpsert, Process!Next, Process!LateUpsert
<1>13. CASE Lapse(p)
  <2>1. workers'[p].status = workers[p].status
    BY <1>0, <1>13 DEF Lapse
  <2> QED
    BY <1>13, <2>1, Zenon DEF Lapse, processVars, ProcessPc, HasRow
<1>14. CASE Interrupt(p)
  <2>1. Process(p)!Up
    BY <1>0, <1>14 DEF Interrupt, Alive, Process!Up, ProcessPc, LoopState
  <2>2. (p \in cancelled)' = TRUE /\ ~(p \in cancelled)
    BY <1>14 DEF Interrupt
  <2> QED
    BY <1>14, <2>1, <2>2 DEF Interrupt, Process!Next, Process!Signal, ProcessPc, HasRow
<1>15. CASE Crash(p)
  <2>1. Process(p)!Up
    BY <1>0, <1>15 DEF Crash, Alive, Process!Up, ProcessPc, LoopState
  <2>2. ProcessPc(p)' = "dead" /\ execs'[p] = {}
    BY <1>0, <1>15 DEF Crash, ProcessPc, LoopAt
  <2> QED
    BY <1>15, <2>1, <2>2, FS_EmptySet DEF Crash, Process!Next, Process!Crash, HasRow
<1> QED
  BY <1>1, <1>2, <1>3, <1>4, <1>5, <1>6, <1>7, <1>8, <1>9, <1>10, <1>11, <1>12, <1>13,
     <1>14, <1>15, PoolStep
     DEF Inductive, LoopStep, ExecutorStep, Environment

\* Whatever other pools, reclaimers and operators do to the tables, each pool claims jobs
\* within its slots and before its signal, starts each job it has claimed, and unregisters
\* with nothing left to run, for any number of pools, jobs and slots.
THEOREM PoolsAreProcesses == Spec => ImplementsProcess
<1>1. Init => \A p \in Pools : Process(p)!Init
  BY ProcessInit
<1>2. Inductive /\ ProcessInv /\ [Next]_vars =>
         [\A p \in Pools : UNCHANGED processVars(p) \/ Process(p)!Next]_vars
  BY ProcessStep
<1> QED
  BY <1>1, <1>2, InductiveHolds, ProcessInvHolds, PTL DEF Spec, ImplementsProcess
=============================================================================

------------------------ MODULE JobQueueOnTime_proofs ------------------------
(***************************************************************************)
(* While heartbeats are on time: no duplicate runs, and every attempt is   *)
(* answered for by its own executor or on behalf of a dead process.        *)
(***************************************************************************)
EXTENDS JobQueue_proofs

-----------------------------------------------------------------------------
(* What a step may do to the processes *)

\* Late heartbeats of live processes are only used up.
LEMMA LapsesStep ==
    ASSUME TypeOK, [Next]_vars, budget.lapses <= MaxLapses
    PROVE  /\ budget'.lapses <= MaxLapses
           /\ OnTime' => OnTime
<1> USE DEF tables, process
<1>1. /\ budget \in [replays: Nat, lapses: Nat, losses: Nat]
      /\ MaxLapses \in Nat
  BY LimitsAssumption DEF TypeOK
<1>2. CASE budget' = budget
  BY <1>2 DEF OnTime
<1>3. ASSUME NEW p \in Pools, Lapse(p)
      PROVE  budget'.lapses <= MaxLapses /\ (OnTime' => OnTime)
  BY <1>1, <1>3 DEF Lapse, OnTime
<1>4. ASSUME NEW p \in Pools, NEW e \in execs[p], OutcomeIsLost(p, e)
      PROVE  budget'.lapses <= MaxLapses /\ (OnTime' => OnTime)
  BY <1>1, <1>4 DEF OutcomeIsLost, OnTime
<1>5. ASSUME NEW a \in Admins, AdminStep(a)
      PROVE  budget'.lapses <= MaxLapses /\ (OnTime' => OnTime)
  BY <1>1, <1>5 DEF AdminStep, ReadDeadLetter, WriteReplay, WriteDelete, OnTime
<1>6. CASE \/ \E j \in Jobs : Enqueue(j) \/ BecomeDue(j)
           \/ PurgeCompleted \/ GetMetrics \/ UNCHANGED vars
  BY <1>2, <1>6 DEF Enqueue, BecomeDue, PurgeCompleted, GetMetrics, vars
<1>7. ASSUME NEW p \in Pools, LoopStep(p)
      PROVE  budget' = budget
  BY <1>7 DEF LoopStep, StartPool, FetchNextJob, Dispatch, PruneStale, ListRunning,
              ReadLatestLog, CheckOwner, ReclaimJob, FinishReclaim, AbandonReclaim, ShutDown
<1>8. ASSUME NEW p \in Pools, ExecutorStep(p)
      PROVE  budget'.lapses <= MaxLapses /\ (OnTime' => OnTime)
  BY <1>2, <1>4, <1>8 DEF ExecutorStep, ExecutionSucceeds, ExecutionFails
<1>9. ASSUME NEW p \in Pools, Environment(p)
      PROVE  budget'.lapses <= MaxLapses /\ (OnTime' => OnTime)
  BY <1>2, <1>3, <1>9 DEF Environment, Heartbeat, LateUpsert, Interrupt, Crash
<1> QED
  BY <1>2, <1>5, <1>6, <1>7, <1>8, <1>9 DEF Next

\* The main loops a step may leave: none goes back to the start.
LEMMA LoopMoves ==
    ASSUME TypeOK, [Next]_vars, NEW p \in Pools
    PROVE  /\ loop[p].pc # "off" => loop'[p].pc # "off"
           /\ \/ loop'[p] = loop[p]
              \/ StartPool(p) \/ PruneStale(p) \/ ShutDown(p) \/ LateUpsert(p)
              \/ \E j \in Jobs : FetchNextJob(p, j)
              \/ ListRunning(p)
              \/ \E j \in Jobs : ReadLatestLog(p, j)
              \/ CheckOwner(p) \/ ReclaimJob(p)
              \/ loop'[p] = LoopAt("select") /\ Alive(p)
              \/ Crash(p)
<1> USE DEF tables, process
<1> DEFINE Moves == \/ loop'[p] = loop[p]
                    \/ StartPool(p) \/ PruneStale(p) \/ ShutDown(p) \/ LateUpsert(p)
                    \/ \E j \in Jobs : FetchNextJob(p, j)
                    \/ ListRunning(p)
                    \/ \E j \in Jobs : ReadLatestLog(p, j)
                    \/ CheckOwner(p) \/ ReclaimJob(p)
                    \/ loop'[p] = LoopAt("select") /\ Alive(p)
                    \/ Crash(p)
<1>0. DOMAIN loop = Pools /\ loop[p] \in LoopState
  BY DEF TypeOK
<1>1. ASSUME NEW q \in Pools, LoopStep(q)
      PROVE  Moves
  <2>1. CASE p = q
    BY <1>0, <1>1, <2>1
       DEF LoopStep, Dispatch, FinishReclaim, AbandonReclaim, Alive
  <2>2. CASE p # q
    <3>1. loop'[p] = loop[p]
      BY <1>0, <1>1, <2>2
         DEF LoopStep, StartPool, FetchNextJob, Dispatch, PruneStale, ListRunning,
             ReadLatestLog, CheckOwner, ReclaimJob, FinishReclaim, AbandonReclaim,
             ShutDown, Goto
    <3> QED
      BY <3>1
  <2> QED
    BY <2>1, <2>2
<1>2. ASSUME NEW q \in Pools, ExecutorStep(q) \/ Environment(q)
      PROVE  Moves
  <2>1. CASE ExecutorStep(q)
    BY <2>1 DEF ExecutorStep, ExecutionSucceeds, ExecutionFails, OutcomeIsLost
  <2>2. CASE Heartbeat(q) \/ Lapse(q) \/ Interrupt(q)
    BY <2>2 DEF Heartbeat, Lapse, Interrupt
  <2>3. CASE Crash(q) \/ LateUpsert(q)
    <3>1. p # q => loop'[p] = loop[p]
      BY <1>0, <2>3 DEF Crash, LateUpsert, Goto
    <3> QED
      BY <2>3, <3>1
  <2> QED
    BY <1>2, <2>1, <2>2, <2>3 DEF Environment
<1>3. ASSUME NEW a \in Admins, AdminStep(a)
      PROVE  Moves
  BY <1>3 DEF AdminStep, ReadDeadLetter, WriteReplay, WriteDelete
<1>4. CASE \/ \E j \in Jobs : Enqueue(j) \/ BecomeDue(j)
           \/ PurgeCompleted \/ GetMetrics \/ UNCHANGED vars
  BY <1>4 DEF Enqueue, BecomeDue, PurgeCompleted, GetMetrics, vars
<1>5. Moves
  BY <1>1, <1>2, <1>3, <1>4 DEF Next
<1>6. ASSUME loop[p].pc # "off", loop'[p] # loop[p]
      PROVE  loop'[p].pc # "off"
  <2>1. CASE StartPool(p) \/ PruneStale(p) \/ ShutDown(p) \/ LateUpsert(p)
    BY <1>0, <2>1 DEF StartPool, PruneStale, ShutDown, LateUpsert, Goto, LoopState
  <2>2. ASSUME NEW j \in Jobs, FetchNextJob(p, j)
        PROVE  loop'[p].pc # "off"
    BY <1>0, <2>2 DEF FetchNextJob, LoopState
  <2>5. ASSUME NEW j \in Jobs, ReadLatestLog(p, j)
        PROVE  loop'[p].pc # "off"
    <3>1. PICK w : loop' = [loop EXCEPT ![p] = [loop[p] EXCEPT !.pc = "check",
                                        !.todo = @ \ {j}, !.job = j, !.owner = w]]
      BY <2>5 DEF ReadLatestLog
    <3> QED
      BY <1>0, <3>1 DEF LoopState
  <2>3. CASE ListRunning(p) \/ CheckOwner(p) \/ ReclaimJob(p)
    BY <1>0, <2>3 DEF ListRunning, CheckOwner, ReclaimJob, LoopState
  <2>4. CASE loop'[p] = LoopAt("select") \/ Crash(p)
    BY <1>0, <2>4 DEF Crash, LoopAt
  <2> QED
    BY <1>5, <1>6, <2>1, <2>2, <2>3, <2>4, <2>5
<1> QED
  BY <1>5, <1>6

-----------------------------------------------------------------------------
(* Who is blamed *)

\* The worker a reclaimer reads is one of those in the job's history.
LEMMA OwnerRead ==
    ASSUME TypeOK, ReclaimInv, NEW p \in Pools, NEW j \in Jobs, ReadLatestLog(p, j)
    PROVE  /\ loop'[p].pc = "check"
           /\ \E i \in DOMAIN logs[j] : loop'[p].owner = logs[j][i].worker
<1>1. DOMAIN loop = Pools /\ loop[p] \in LoopState
  BY DEF TypeOK
<1>2. logs[j] # <<>>
  BY DEF ReclaimInv, ReadLatestLog
<1>3. PICK i \in DOMAIN logs[j] :
         loop' = [loop EXCEPT ![p] = [loop[p] EXCEPT !.pc = "check", !.todo = @ \ {j},
                                                     !.job = j, !.owner = logs[j][i].worker]]
  BY <1>2 DEF ReadLatestLog
<1> QED
  BY <1>1, <1>3 DEF LoopState

\* Rows of execution_logs are only added by a main loop that runs, and keep their worker.
LEMMA LogWorkers ==
    ASSUME TypeOK, ReclaimInv, CommandInv, [Next]_vars, NEW j \in Jobs,
           NEW i \in DOMAIN logs'[j]
    PROVE  \/ i \in DOMAIN logs[j] /\ logs'[j][i].worker = logs[j][i].worker
           \/ \E p \in Pools : FetchNextJob(p, j) /\ logs'[j][i].worker = p
<1> USE DEF tables, process
<1>1. logs[j] \in Seq(LogRow) /\ DOMAIN logs = Jobs
  BY DEF TypeOK
<1>2. CASE logs'[j] = logs[j]
  BY <1>2
<1>3. ASSUME NEW w, NEW outcome \in {"success", "failed"}, logs'[j] = Closed(j, w, outcome)
      PROVE  i \in DOMAIN logs[j] /\ logs'[j][i].worker = logs[j][i].worker
  <2>1. i \in DOMAIN logs[j]
    BY <1>3 DEF Closed
  <2> QED
    BY <1>3, <2>1, ClosedRows
<1>4. ASSUME NEW p \in Pools, FetchNextJob(p, j)
      PROVE  \/ i \in DOMAIN logs[j] /\ logs'[j][i].worker = logs[j][i].worker
             \/ logs'[j][i].worker = p
  <2>1. NewExecutionLog(p, j) \in LogRow /\ NewExecutionLog(p, j).worker = p
    <3>1. jobs[j].retries \in Nat
      BY DEF TypeOK, JobRow
    <3> QED
      BY <3>1 DEF NewExecutionLog, LogRow
  <2>2. logs'[j] = Append(logs[j], NewExecutionLog(p, j))
    BY <1>1, <1>4 DEF FetchNextJob
  <2> QED
    BY <1>1, <2>1, <2>2
<1>5. CASE Acquired(j)
  <2>1. \E p \in Pools : FetchNextJob(p, j)
    BY <1>5 DEF Acquired
  <2> QED
    BY <1>4, <2>1
<1> QED
  BY <1>2, <1>3, <1>5, JobStep
     DEF Kept, Enqueued, CameDue, Deleted, Failed, Completed, ReplayedBy

\* A process that has ended does not come back under the same id.
LEMMA NoRevival ==
    ASSUME TypeOK, [Next]_vars, NEW p \in Pools, loop[p].pc # "off", ~Alive(p)
    PROVE  ~Alive(p)'
<1>1. loop[p].pc \in {"exited", "dead"}
  BY DEF TypeOK, LoopState, Alive
<1>2. loop'[p] = loop[p] \/ LateUpsert(p)
  BY <1>1, LoopMoves
     DEF StartPool, PruneStale, ShutDown, FetchNextJob, ListRunning, ReadLatestLog,
         CheckOwner, ReclaimJob, Crash, Alive
<1>3. LateUpsert(p) => loop'[p].pc = "dead"
  BY DEF LateUpsert, Goto, TypeOK, LoopState
<1> QED
  BY <1>1, <1>2, <1>3 DEF Alive

\* Started processes stay started, and only they enter a history.
LEMMA OwnersStartedStep ==
    ASSUME TypeOK, ReclaimInv, CommandInv, OwnersStarted, [Next]_vars
    PROVE  OwnersStarted'
<1>1. DOMAIN loop = Pools /\ \A p \in Pools : loop[p] \in LoopState
  BY DEF TypeOK
<1>2. \A j \in Jobs : \A i \in DOMAIN logs[j] : logs[j][i].worker \in Pools
  <2>1. \A j \in Jobs : \A i \in DOMAIN logs[j] : logs[j][i] \in LogRow
    BY DEF TypeOK
  <2> QED
    BY <2>1 DEF LogRow
<1>3. ASSUME NEW j \in Jobs, NEW i \in DOMAIN logs'[j]
      PROVE  loop'[logs'[j][i].worker].pc # "off"
  <2>1. CASE i \in DOMAIN logs[j] /\ logs'[j][i].worker = logs[j][i].worker
    BY <1>2, <2>1, LoopMoves DEF OwnersStarted
  <2>2. ASSUME NEW p \in Pools, FetchNextJob(p, j), logs'[j][i].worker = p
        PROVE  loop'[logs'[j][i].worker].pc # "off"
    BY <1>1, <2>2 DEF FetchNextJob, LoopState
  <2> QED
    BY <2>1, <2>2, LogWorkers
<1>4. ASSUME NEW p \in Pools, loop'[p].pc \in {"check", "fail"}
      PROVE  loop'[loop'[p].owner].pc # "off"
  <2>1. \/ loop'[p] = loop[p]
        \/ CheckOwner(p)
        \/ \E j \in Jobs : ReadLatestLog(p, j)
    <3>1. ~(StartPool(p) \/ PruneStale(p) \/ ShutDown(p) \/ LateUpsert(p))
      BY <1>1, <1>4 DEF StartPool, PruneStale, ShutDown, LateUpsert, Goto, LoopState
    <3>2. \A j \in Jobs : ~FetchNextJob(p, j)
      BY <1>1, <1>4 DEF FetchNextJob, LoopState
    <3>3. ~(ListRunning(p) \/ ReclaimJob(p))
      BY <1>1, <1>4 DEF ListRunning, ReclaimJob, LoopState
    <3>4. loop'[p] # LoopAt("select") /\ ~Crash(p)
      BY <1>1, <1>4 DEF Crash, LoopAt
    <3> QED
      BY <3>1, <3>2, <3>3, <3>4, LoopMoves
  <2>2. CASE loop'[p] = loop[p]
    <3>1. loop[p].owner \in Pools /\ loop[loop[p].owner].pc # "off"
      BY <1>4, <2>2 DEF ReclaimInv, OwnersStarted
    <3> QED
      BY <2>2, <3>1, LoopMoves
  <2>3. CASE CheckOwner(p)
    <3>1. loop[p].owner \in Pools /\ loop[loop[p].owner].pc # "off"
      BY <2>3 DEF ReclaimInv, OwnersStarted, CheckOwner
    <3>2. loop'[p].owner = loop[p].owner
      BY <1>1, <1>4, <2>3 DEF CheckOwner, LoopState
    <3> QED
      BY <3>1, <3>2, LoopMoves
  <2>4. ASSUME NEW j \in Jobs, ReadLatestLog(p, j)
        PROVE  loop'[loop'[p].owner].pc # "off"
    <3>1. PICK i \in DOMAIN logs[j] : loop'[p].owner = logs[j][i].worker
      BY <2>4, OwnerRead
    <3>2. loop[loop'[p].owner].pc # "off" /\ loop'[p].owner \in Pools
      BY <1>2, <3>1 DEF OwnersStarted
    <3> QED
      BY <3>2, LoopMoves
  <2> QED
    BY <2>1, <2>2, <2>3, <2>4
<1> QED
  BY <1>3, <1>4 DEF OwnersStarted

\* The row of a process that is alive and beats in time is never the worse for a step.
LEMMA RowsStep ==
    ASSUME TypeOK, LiveIsSeen, OnTime, OnTime', [Next]_vars, NEW p \in Pools, Alive(p)'
    PROVE  workers'[p] = [status |-> "live", fresh |-> TRUE]
<1> USE DEF tables, process
<1> DEFINE Seen == [status |-> "live", fresh |-> TRUE]
<1>0. /\ DOMAIN workers = Pools
      /\ DOMAIN loop = Pools
      /\ loop[p] \in LoopState
      /\ Alive(p) => workers[p] = Seen
      /\ MaxLapses \in Nat
      /\ budget \in [replays: Nat, lapses: Nat, losses: Nat]
  BY LimitsAssumption DEF TypeOK, LiveIsSeen
<1>1. CASE StartPool(p)
  BY <1>0, <1>1 DEF StartPool, Registered
<1>2. CASE ~StartPool(p)
  <2>1. Alive(p)
    <3>1. ~(PruneStale(p) \/ ShutDown(p)) \/ Alive(p)
      BY DEF PruneStale, ShutDown, Alive
    <3>2. \A j \in Jobs : FetchNextJob(p, j) \/ ReadLatestLog(p, j) => Alive(p)
      BY DEF FetchNextJob, ReadLatestLog, Alive
    <3>3. ListRunning(p) \/ CheckOwner(p) \/ ReclaimJob(p) => Alive(p)
      BY DEF ListRunning, CheckOwner, ReclaimJob, Alive
    <3>4. Crash(p) \/ loop'[p] = loop[p] => Alive(p)
      BY DEF Crash, Alive
    <3>5. ~LateUpsert(p)
      BY <1>0 DEF LateUpsert, Goto, LoopState, Alive
    <3> QED
      BY <1>2, <3>1, <3>2, <3>3, <3>4, <3>5, LoopMoves
  <2>2. workers[p] = Seen
    BY <1>0, <2>1
  <2>3. \A q \in Pools : Registered(q)[p] = Seen
    BY <1>0, <2>2 DEF Registered
  <2>4. Pruned[p] = Seen
    BY <2>2 DEF Pruned, Prunable
  <2>5. ASSUME NEW q \in Pools, LoopStep(q)
        PROVE  workers'[p] = Seen
    <3>1. CASE ShutDown(q)
      <4>1. p # q
        BY <1>0, <3>1 DEF ShutDown, Goto, Alive
      <4> QED
        BY <1>0, <2>2, <3>1, <4>1 DEF ShutDown, Unregistered
    <3>2. CASE StartPool(q) \/ Dispatch(q)
      BY <2>2, <2>3, <3>2 DEF StartPool, Dispatch, MaybeRegistered
    <3>3. CASE PruneStale(q)
      BY <2>4, <3>3 DEF PruneStale
    <3>4. CASE \/ \E j \in Jobs : FetchNextJob(q, j) \/ ReadLatestLog(q, j)
               \/ ListRunning(q) \/ CheckOwner(q) \/ ReclaimJob(q)
               \/ FinishReclaim(q) \/ AbandonReclaim(q)
      BY <2>2, <3>4
         DEF FetchNextJob, ReadLatestLog, ListRunning, CheckOwner, ReclaimJob,
             FinishReclaim, AbandonReclaim
    <3> QED
      BY <2>5, <3>1, <3>2, <3>3, <3>4 DEF LoopStep
  <2>6. ASSUME NEW q \in Pools, ExecutorStep(q)
        PROVE  workers'[p] = Seen
    BY <2>2, <2>3, <2>6
       DEF ExecutorStep, ExecutionSucceeds, ExecutionFails, OutcomeIsLost, Finish,
           MaybeRegistered
  <2>7. ASSUME NEW q \in Pools, Environment(q)
        PROVE  workers'[p] = Seen
    <3>1. CASE Lapse(q)
      <4>1. ~Alive(q)
        BY <1>0, <3>1 DEF Lapse, OnTime
      <4> QED
        BY <1>0, <2>1, <2>2, <3>1, <4>1 DEF Lapse
    <3>2. CASE Heartbeat(q) \/ LateUpsert(q) \/ Interrupt(q) \/ Crash(q)
      BY <2>2, <2>3, <3>2 DEF Heartbeat, LateUpsert, Interrupt, Crash
    <3> QED
      BY <2>7, <3>1, <3>2 DEF Environment
  <2>8. ASSUME NEW a \in Admins, AdminStep(a)
        PROVE  workers' = workers
    BY <2>8 DEF AdminStep, ReadDeadLetter, WriteReplay, WriteDelete
  <2>9. CASE GetMetrics
    BY <2>4, <2>9 DEF GetMetrics
  <2>10. CASE (\E j \in Jobs : Enqueue(j) \/ BecomeDue(j)) \/ PurgeCompleted \/ UNCHANGED vars
    BY <2>2, <2>10 DEF Enqueue, BecomeDue, PurgeCompleted, vars
  <2> QED
    BY <2>2, <2>5, <2>6, <2>7, <2>8, <2>9, <2>10 DEF Next
<1> QED
  BY <1>1, <1>2

\* Only the dead are blamed.
LEMMA LiveIsSeenStep ==
    ASSUME TypeOK, ReclaimInv, OwnersStarted, LiveIsSeen, OnTime, OnTime', [Next]_vars
    PROVE  LiveIsSeen'
<1>1. DOMAIN loop = Pools /\ \A p \in Pools : loop[p] \in LoopState
  BY DEF TypeOK
<1>3. \A q \in Pools : loop[q].pc # "off" /\ ~Alive(q) => loop'[q].pc \in {"off", "exited", "dead"}
  <2>1. \A q \in Pools : loop[q].pc # "off" /\ ~Alive(q) => ~Alive(q)'
    BY NoRevival
  <2> QED
    BY <2>1 DEF Alive
<1>2. ASSUME NEW p \in Pools, loop'[p].pc = "fail"
      PROVE  ~Alive(loop[p].owner)'
  <2>1. \/ loop'[p] = loop[p]
        \/ CheckOwner(p)
    <3>1. ~(StartPool(p) \/ PruneStale(p) \/ ShutDown(p) \/ LateUpsert(p))
      BY <1>1, <1>2 DEF StartPool, PruneStale, ShutDown, LateUpsert, Goto, LoopState
    <3>2. \A j \in Jobs : ~FetchNextJob(p, j)
      BY <1>1, <1>2 DEF FetchNextJob, LoopState
    <3>3. ~(ListRunning(p) \/ ReclaimJob(p))
      BY <1>1, <1>2 DEF ListRunning, ReclaimJob, LoopState
    <3>4. loop'[p] # LoopAt("select") /\ ~Crash(p)
      BY <1>1, <1>2 DEF Crash, LoopAt
    <3>5. \A j \in Jobs : ~ReadLatestLog(p, j)
      BY <1>2, OwnerRead
    <3> QED
      BY <3>1, <3>2, <3>3, <3>4, <3>5, LoopMoves
  <2>2. CASE loop'[p] = loop[p]
    <3>1. /\ loop[p].owner \in Pools
          /\ loop[loop[p].owner].pc # "off"
          /\ ~Alive(loop[p].owner)
      BY <1>2, <2>2 DEF ReclaimInv, OwnersStarted, LiveIsSeen
    <3>2. loop'[loop[p].owner].pc \in {"off", "exited", "dead"}
      BY <1>3, <3>1
    <3> QED
      BY <2>2, <3>2 DEF Alive
  <2>3. CASE CheckOwner(p)
    <3>1. /\ loop[p].owner \in Pools
          /\ loop[loop[p].owner].pc # "off"
      BY <2>3 DEF ReclaimInv, OwnersStarted, CheckOwner
    <3>2. Stale(loop[p].owner) /\ loop'[p].owner = loop[p].owner
      BY <1>1, <1>2, <2>3 DEF CheckOwner, LoopState
    <3>3. ~Alive(loop[p].owner)
      BY <3>1, <3>2, PoolsAssumption DEF LiveIsSeen, Stale
    <3>4. loop'[loop[p].owner].pc \in {"off", "exited", "dead"}
      BY <1>3, <3>1, <3>3
    <3> QED
      BY <3>2, <3>4 DEF Alive
  <2> QED
    BY <2>1, <2>2, <2>3
<1> QED
  BY <1>2, RowsStep DEF LiveIsSeen

-----------------------------------------------------------------------------
(* Who runs what *)

\* A process runs something new only by claiming it, and does not end while it runs.
LEMMA RunsStep ==
    ASSUME TypeOK, [Next]_vars, NEW w \in Pools, \A j \in Jobs : ~FetchNextJob(w, j)
    PROVE  /\ Runs(w)' \subseteq Runs(w)
           /\ Alive(w) /\ Runs(w)' # {} => Alive(w)'
           /\ loop'[w].pc = "dispatch" =>
                 /\ loop[w].pc = "dispatch"
                 /\ Claimed(w)' = Claimed(w)
                 /\ execs'[w] \subseteq execs[w]
<1> USE DEF tables, process
<1> DEFINE Goal == /\ Runs(w)' \subseteq Runs(w)
                   /\ Alive(w) /\ Runs(w)' # {} => Alive(w)'
                   /\ loop'[w].pc = "dispatch" => /\ loop[w].pc = "dispatch"
                                                  /\ Claimed(w)' = Claimed(w)
                                                  /\ execs'[w] \subseteq execs[w]
<1>0. DOMAIN loop = Pools /\ DOMAIN execs = Pools /\ loop[w] \in LoopState
  BY DEF TypeOK
<1>1. ASSUME loop'[w] = loop[w], execs'[w] \subseteq execs[w]
      PROVE  Goal
  BY <1>1 DEF Runs, Claimed, Alive
<1>2. ASSUME loop'[w].pc # "dispatch", execs'[w] \subseteq execs[w], Alive(w)'
      PROVE  Goal
  BY <1>2 DEF Runs
<1>3. ASSUME loop'[w].pc # "dispatch", execs'[w] = {}
      PROVE  Goal
  BY <1>3 DEF Runs
<1>4. ASSUME NEW p \in Pools, LoopStep(p)
      PROVE  Goal
  <2>1. CASE p # w
    <3>1. loop'[w] = loop[w] /\ execs'[w] = execs[w]
      BY <1>0, <1>4, <2>1
         DEF LoopStep, StartPool, FetchNextJob, Dispatch, PruneStale, ListRunning,
             ReadLatestLog, CheckOwner, ReclaimJob, FinishReclaim, AbandonReclaim,
             ShutDown, Goto
    <3> QED
      BY <1>1, <3>1
  <2>2. CASE p = w
    <3>1. CASE Dispatch(w)
      <4>1. loop'[w].pc = "select" /\ execs'[w] = execs[w] \cup {Claimed(w)}
        BY <1>0, <3>1 DEF Dispatch, Started, LoopAt
      <4> QED
        BY <3>1, <4>1 DEF Runs, Dispatch, Alive
    <3>2. CASE StartPool(w) \/ PruneStale(w)
      BY <1>0, <1>2, <3>2 DEF StartPool, PruneStale, Goto, LoopState, Alive
    <3>3. CASE ShutDown(w)
      BY <1>0, <1>3, <3>3 DEF ShutDown, Goto, LoopState
    <3>4. CASE ListRunning(w)
      BY <1>0, <1>2, <3>4 DEF ListRunning, LoopState, Alive
    <3>5. CASE CheckOwner(w) \/ ReclaimJob(w)
      BY <1>0, <1>2, <3>5 DEF CheckOwner, ReclaimJob, LoopState, Alive
    <3>6. ASSUME NEW j \in Jobs, ReadLatestLog(w, j)
          PROVE  Goal
      <4>1. PICK v : loop' = [loop EXCEPT ![w] = [loop[w] EXCEPT !.pc = "check",
                                          !.todo = @ \ {j}, !.job = j, !.owner = v]]
        BY <3>6 DEF ReadLatestLog
      <4>2. loop'[w].pc = "check" /\ execs' = execs
        BY <1>0, <3>6, <4>1 DEF ReadLatestLog, LoopState
      <4> QED
        BY <1>2, <4>2 DEF Alive
    <3>7. CASE FinishReclaim(w) \/ AbandonReclaim(w)
      BY <1>0, <1>2, <3>7 DEF FinishReclaim, AbandonReclaim, LoopAt, Alive
    <3> QED
      BY <1>4, <2>2, <3>1, <3>2, <3>3, <3>4, <3>5, <3>6, <3>7 DEF LoopStep
  <2> QED
    BY <2>1, <2>2
<1>5. ASSUME NEW p \in Pools, ExecutorStep(p)
      PROVE  Goal
  <2>1. loop' = loop /\ execs'[w] \subseteq execs[w]
    BY <1>0, <1>5 DEF ExecutorStep, ExecutionSucceeds, ExecutionFails, OutcomeIsLost, Finish
  <2> QED
    BY <1>1, <2>1
<1>6. ASSUME NEW p \in Pools, Environment(p)
      PROVE  Goal
  <2>1. CASE Crash(w)
    BY <1>0, <1>3, <2>1 DEF Crash, LoopAt
  <2>2. CASE LateUpsert(w)
    BY <1>0, <2>2 DEF LateUpsert, Goto, LoopState, Alive, Runs
  <2>3. CASE ~Crash(w) /\ ~LateUpsert(w)
    <3>1. loop'[w] = loop[w] /\ execs'[w] = execs[w]
      BY <1>0, <1>6, <2>3
         DEF Environment, Heartbeat, LateUpsert, Goto, Lapse, Interrupt, Crash
    <3> QED
      BY <1>1, <3>1
  <2> QED
    BY <2>1, <2>2, <2>3
<1>7. ASSUME NEW a \in Admins, AdminStep(a)
      PROVE  Goal
  <2>1. loop' = loop /\ execs' = execs
    BY <1>7 DEF AdminStep, ReadDeadLetter, WriteReplay, WriteDelete
  <2> QED
    BY <1>1, <2>1
<1>8. CASE \/ \E j \in Jobs : Enqueue(j) \/ BecomeDue(j)
           \/ PurgeCompleted \/ GetMetrics \/ UNCHANGED vars
  <2>1. loop' = loop /\ execs' = execs
    BY <1>8 DEF Enqueue, BecomeDue, PurgeCompleted, GetMetrics, vars
  <2> QED
    BY <1>1, <2>1
<1> QED
  BY <1>4, <1>5, <1>6, <1>7, <1>8 DEF Next

\* What a process runs is an execution of a job.
LEMMA RunsType ==
    ASSUME TypeOK, ReclaimInv, NEW w \in Pools, NEW e \in Runs(w)
    PROVE  e \in Execution
<1>1. execs[w] \subseteq Execution /\ loop[w] \in LoopState
  BY DEF TypeOK
<1>2. loop[w].pc = "dispatch" => loop[w].job \in Jobs
  BY DEF ReclaimInv
<1> QED
  BY <1>1, <1>2 DEF Runs, Claimed, Execution, LoopState

\* No job is run, or about to be, in two places.
LEMMA SoleRunner ==
    ASSUME TypeOK, ReclaimInv, RunnersInv, NEW w \in Pools, NEW v \in Pools,
           NEW e \in Runs(w), NEW f \in Runs(v), e.job = f.job
    PROVE  w = v /\ e = f
<1>1. Backs(w, e) /\ Backs(v, f)
  BY DEF RunnersInv
<1>2. e \in Execution /\ f \in Execution
  BY RunsType
<1>3. e.log = f.log
  BY <1>1 DEF Backs
<1> QED
  BY <1>1, <1>2, <1>3 DEF Backs, Execution

\* An accepted answer is for the last attempt, by its worker.
LEMMA AcceptedIsLast ==
    ASSUME TypeOK, AttemptBound, OpenAttemptIsCurrent, RunningHasOpenAttempt,
           NEW j \in Jobs, NEW v \in Pools, MayFail(j, v)
    PROVE  logs[j][Len(logs[j])].worker = v
<1>1. v # NoWorker /\ logs[j] # <<>>
  BY PoolsAssumption DEF MayFail, RunningHasOpenAttempt, TypeOK
<1>2. PICK l \in DOMAIN logs[j] : IsLatest(j, l)
  BY <1>1, LatestExists
<1>3. logs[j][l].worker = v /\ logs[j][l].outcome = "open"
  BY <1>1, <1>2 DEF MayFail
<1> QED
  BY <1>2, <1>3 DEF OpenAttemptIsCurrent

\* What is run before and after a step goes on: only its own answer would end it.
LEMMA BacksStep ==
    ASSUME Inductive, LiveIsSeen, RunnersInv, [Next]_vars,
           NEW w \in Pools, NEW e, e \in Runs(w), e \in Runs(w)'
    PROVE  /\ e.log = Len(logs'[e.job])
           /\ logs'[e.job][e.log].worker = w
           /\ jobs'[e.job].status \in {"running", "deleted"}
<1> DEFINE j == e.job
<1>1. Backs(w, e) /\ e \in Execution
  BY RunsType DEF Inductive, RunnersInv
<1>2. /\ j \in Jobs /\ e.log \in Nat
      /\ jobs[j] \in JobRow
      /\ logs[j] \in Seq(LogRow)
  BY <1>1 DEF Execution, Inductive, TypeOK
<1>3. CASE Kept(j)
  BY <1>1, <1>3 DEF Kept, Backs
<1>4. CASE Deleted(j)
  BY <1>1, <1>2, <1>4 DEF Deleted, Backs, JobRow
<1>5. ASSUME Answers(w, j)
      PROVE  FALSE
  <2>1. PICK f \in execs[w] : /\ f.job = j
                              /\ execs' = [execs EXCEPT ![w] = @ \ {f}]
                              /\ loop' = loop
    BY <1>5 DEF Answers
  <2>2. f = e
    <3>1. f \in Runs(w)
      BY DEF Runs
    <3> QED
      BY <2>1, <3>1, SoleRunner DEF Inductive
  <2>3. e \notin execs'[w]
    BY <2>1, <2>2 DEF Inductive, TypeOK
  <2>4. loop[w].pc = "dispatch" /\ e = Claimed(w)
    BY <2>1, <2>3 DEF Runs, Claimed
  <2> QED
    BY <2>2, <2>4 DEF RunnersInv
<1>6. ~Failed(j)
  <2> SUFFICES ASSUME NEW v \in Pools, Answers(v, j) \/ Blamed(v), MayFail(j, v)
               PROVE  FALSE
    BY DEF Failed
  <2>1. v = w
    BY <1>1, <1>2, AcceptedIsLast DEF Inductive, Backs
  <2>2. ~Blamed(v)
    BY <1>1, <2>1 DEF Blamed, LiveIsSeen, Backs
  <2> QED
    BY <1>5, <2>1, <2>2
<1>7. ~Completed(j)
  <2> SUFFICES ASSUME NEW v \in Pools, Answers(v, j)
               PROVE  FALSE
    BY DEF Completed
  <2>1. PICK f \in execs[v] : f.job = j
    BY DEF Answers
  <2>2. f \in Runs(v)
    BY DEF Runs
  <2>3. v = w
    BY <2>1, <2>2, SoleRunner DEF Inductive
  <2> QED
    BY <1>5, <2>3
<1>8. ~Enqueued(j) /\ ~CameDue(j) /\ ~Acquired(j)
  BY <1>1 DEF Enqueued, CameDue, Acquired, Backs
<1>9. \A a \in Admins : ~ReplayedBy(a, j)
  BY <1>1 DEF ReplayedBy, StillAsRead, Inductive, CommandInv, Backs
<1> QED
  BY <1>2, <1>3, <1>4, <1>6, <1>7, <1>8, <1>9, JobStep DEF Inductive

\* A claim is the only way to a new execution, and nobody else runs that job.
LEMMA RunnersStep ==
    ASSUME Inductive, LiveIsSeen, RunnersInv, [Next]_vars
    PROVE  RunnersInv'
<1> SUFFICES ASSUME NEW w \in Pools
             PROVE  /\ \A e \in Runs(w)' : Backs(w, e)'
                    /\ loop'[w].pc = "dispatch" => Claimed(w)' \notin execs'[w]
  BY DEF RunnersInv
<1>1. CASE \A j \in Jobs : ~FetchNextJob(w, j)
  <2>1. /\ Runs(w)' \subseteq Runs(w)
        /\ Alive(w) /\ Runs(w)' # {} => Alive(w)'
        /\ loop'[w].pc = "dispatch" => /\ loop[w].pc = "dispatch"
                                       /\ Claimed(w)' = Claimed(w)
                                       /\ execs'[w] \subseteq execs[w]
    BY <1>1, RunsStep DEF Inductive
  <2>2. ASSUME NEW e \in Runs(w)'
        PROVE  Backs(w, e)'
    <3>1. Backs(w, e)
      BY <2>1 DEF RunnersInv
    <3>2. /\ e.log = Len(logs'[e.job])
          /\ logs'[e.job][e.log].worker = w
          /\ jobs'[e.job].status \in {"running", "deleted"}
      BY <2>1, BacksStep
    <3> QED
      BY <2>1, <3>1, <3>2 DEF Backs
  <2> QED
    BY <2>1, <2>2 DEF RunnersInv
<1>2. ASSUME NEW j \in Jobs, FetchNextJob(w, j)
      PROVE  /\ \A e \in Runs(w)' : Backs(w, e)'
             /\ loop'[w].pc = "dispatch" => Claimed(w)' \notin execs'[w]
  <2>a. PICK n, c : n = Len(logs[j]) + 1 /\ c = [job |-> j, log |-> n]
    OBVIOUS
  <2>0. /\ DOMAIN loop = Pools /\ loop[w] \in LoopState
        /\ jobs \in [Jobs -> JobRow] /\ jobs[j] \in JobRow
        /\ DOMAIN logs = Jobs /\ logs[j] \in Seq(LogRow)
        /\ Len(logs[j]) \in Nat
        /\ execs[w] \subseteq Execution
    BY DEF Inductive, TypeOK
  <2>1. /\ loop'[w].pc = "dispatch" /\ loop'[w].job = j /\ loop'[w].log = n
        /\ execs' = execs
        /\ loop[w].pc = "select"
        /\ jobs[j].status = "pending"
    BY <1>2, <2>0, <2>a DEF FetchNextJob, IsNextPending, LoopState
  <2>2. Claimed(w)' = c /\ Runs(w)' = execs[w] \cup {c} /\ Runs(w) = execs[w]
    BY <2>1, <2>a DEF Claimed, Runs
  <2>3. \A e \in execs[w] : e.job # j
    BY <2>1, <2>2 DEF RunnersInv, Backs
  <2>4. Alive(w)'
    BY <2>1 DEF Alive
  <2>5. Backs(w, c)'
    <3>1. NewExecutionLog(w, j) \in LogRow /\ NewExecutionLog(w, j).worker = w
      <4>1. jobs[j].retries \in Nat
        BY <2>0 DEF JobRow
      <4> QED
        BY <4>1 DEF NewExecutionLog, LogRow
    <3>2. logs'[j] = Append(logs[j], NewExecutionLog(w, j))
      BY <1>2, <2>0 DEF FetchNextJob
    <3>3. n > 0 /\ n = Len(logs'[j]) /\ logs'[j][n].worker = w
      BY <2>0, <2>a, <3>1, <3>2
    <3>4. jobs'[j].status = "running"
      BY <1>2, <2>0 DEF FetchNextJob, Updated, JobRow
    <3> QED
      BY <2>4, <2>a, <3>3, <3>4 DEF Backs
  <2>6. ASSUME NEW e \in execs[w]
        PROVE  Backs(w, e)'
    <3>1. Backs(w, e) /\ e \in Runs(w) /\ e \in Runs(w)'
      BY <2>2 DEF RunnersInv
    <3>2. /\ e.log = Len(logs'[e.job])
          /\ logs'[e.job][e.log].worker = w
          /\ jobs'[e.job].status \in {"running", "deleted"}
      BY <3>1, BacksStep
    <3> QED
      BY <2>4, <3>1, <3>2 DEF Backs
  <2> QED
    BY <2>1, <2>2, <2>3, <2>5, <2>6, <2>a
<1> QED
  BY <1>1, <1>2

-----------------------------------------------------------------------------
(* Theorems *)

\* Nobody runs anything yet.
LEMMA OnTimeInit == Init => InductiveOnTime
<1> SUFFICES ASSUME Init
             PROVE  InductiveOnTime
  OBVIOUS
<1>1. /\ \A j \in Jobs : DOMAIN logs[j] = {}
      /\ \A p \in Pools : loop[p].pc = "off" /\ execs[p] = {}
      /\ budget.lapses = MaxLapses
      /\ MaxLapses \in Nat
  BY LimitsAssumption DEF Init, LoopAt
<1>2. OwnersStarted /\ LiveIsSeen
  BY <1>1 DEF OwnersStarted, LiveIsSeen, Alive
<1>3. RunnersInv
  BY <1>1 DEF RunnersInv, Runs
<1> QED
  BY <1>1, <1>2, <1>3 DEF InductiveOnTime

\* The parts together.
LEMMA OnTimeStep == Inductive /\ InductiveOnTime /\ [Next]_vars => InductiveOnTime'
<1> SUFFICES ASSUME Inductive, InductiveOnTime, [Next]_vars
             PROVE  InductiveOnTime'
  OBVIOUS
<1>1. budget'.lapses <= MaxLapses /\ (OnTime' => OnTime)
  BY LapsesStep DEF Inductive, InductiveOnTime
<1>2. OwnersStarted'
  BY OwnersStartedStep DEF Inductive, InductiveOnTime
<1>3. OnTime' => LiveIsSeen'
  BY <1>1, LiveIsSeenStep DEF Inductive, InductiveOnTime
<1>4. OnTime' => RunnersInv'
  BY <1>1, RunnersStep DEF Inductive, InductiveOnTime
<1> QED
  BY <1>1, <1>2, <1>3, <1>4 DEF InductiveOnTime

\* As long as heartbeats are on time, whoever is blamed is dead and every executor runs the
\* last attempt of its job.
THEOREM OnTimeHolds == Spec => []InductiveOnTime
<1>1. Init => Inductive /\ InductiveOnTime
  BY InductiveInit, OnTimeInit
<1>2. Inductive /\ InductiveOnTime /\ [Next]_vars => (Inductive /\ InductiveOnTime)'
  BY InductiveStep, OnTimeStep
<1> QED
  BY <1>1, <1>2, PTL DEF Spec

\* For any number of pools, jobs, queues, operators and slots, whatever crashes, is lost or
\* is replayed: no job has two executors while no live process is taken for dead.
THEOREM NoDuplicateRunsWhenOnTime == Spec => []NoDuplicateRunsOnTime
<1>1. Inductive /\ InductiveOnTime => NoDuplicateRunsOnTime
  <2> SUFFICES ASSUME Inductive, InductiveOnTime, OnTime,
                      NEW p \in Pools, NEW q \in Pools,
                      NEW e \in execs[p], NEW f \in execs[q], e.job = f.job
               PROVE  p = q /\ e = f
    BY DEF NoDuplicateRunsOnTime, NoDuplicateRuns, OnTime
  <2>1. e \in Runs(p) /\ f \in Runs(q) /\ RunnersInv
    BY DEF Runs, InductiveOnTime
  <2> QED
    BY <2>1, SoleRunner DEF Inductive
<1> QED
  BY <1>1, InductiveHolds, OnTimeHolds, PTL

\* And an attempt is closed by the executor that runs it, or for a process that is gone.
THEOREM AnswersAreTheRunners == Spec => AnsweredByItsRunner
<1> DEFINE Own == budget.lapses = MaxLapses /\ budget'.lapses = MaxLapses =>
             \A j \in Jobs : \A i \in DOMAIN logs[j] :
                 logs[j][i].outcome = "open" /\ logs'[j][i].outcome # "open" =>
                     LET w == logs[j][i].worker
                     IN  \/ [job |-> j, log |-> i] \in execs[w] \ execs'[w]
                         \/ ~Alive(w)
<1>1. Inductive /\ InductiveOnTime /\ [Next]_vars => Own
  <2> SUFFICES ASSUME Inductive, InductiveOnTime, [Next]_vars, OnTime,
                      NEW j \in Jobs, NEW i \in DOMAIN logs[j],
                      logs[j][i].outcome = "open", logs'[j][i].outcome # "open"
               PROVE  \/ [job |-> j, log |-> i] \in
                             execs[logs[j][i].worker] \ execs'[logs[j][i].worker]
                      \/ ~Alive(logs[j][i].worker)
    BY DEF OnTime
  <2>1. LiveIsSeen /\ RunnersInv /\ logs[j] \in Seq(LogRow) /\ logs[j][i] \in LogRow
    BY DEF InductiveOnTime, Inductive, TypeOK
  <2>2. i = Len(logs[j])
    BY DEF Inductive, OpenAttemptIsCurrent
  <2>3. ASSUME NEW v, NEW outcome \in {"success", "failed"}, logs'[j] = Closed(j, v, outcome),
               v \in Pools
        PROVE  logs[j][i].worker = v
    BY <2>3, PoolsAssumption DEF Closed
  <2>4. ASSUME NEW v \in Pools, logs[j][i].worker = v, Answers(v, j)
        PROVE  [job |-> j, log |-> i] \in execs[v] \ execs'[v]
    <3>1. PICK e \in execs[v] : e.job = j /\ execs' = [execs EXCEPT ![v] = @ \ {e}]
      BY <2>4 DEF Answers
    <3>2. e \in Execution /\ e.log = i
      <4>1. e \in Runs(v)
        BY DEF Runs
      <4> QED
        BY <2>1, <2>2, <3>1, <4>1, RunsType DEF Inductive, RunnersInv, Backs
    <3>3. e = [job |-> j, log |-> i]
      BY <3>1, <3>2 DEF Execution
    <3> QED
      BY <3>1, <3>3 DEF Inductive, TypeOK
  <2>5. CASE Failed(j)
    <3>1. PICK v \in Pools : /\ Answers(v, j) \/ Blamed(v)
                             /\ logs'[j] = Closed(j, v, "failed")
      BY <2>5 DEF Failed
    <3>2. logs[j][i].worker = v
      BY <2>3, <3>1
    <3>3. Blamed(v) => ~Alive(v)
      BY <2>1 DEF Blamed, LiveIsSeen
    <3> QED
      BY <2>4, <3>1, <3>2, <3>3
  <2>6. CASE Completed(j)
    BY <2>3, <2>4, <2>6 DEF Completed
  <2>7. CASE \/ Kept(j) \/ Enqueued(j) \/ CameDue(j) \/ Deleted(j)
             \/ \E a \in Admins : ReplayedBy(a, j)
    BY <2>7 DEF Kept, Enqueued, CameDue, Deleted, ReplayedBy
  <2>8. CASE Acquired(j)
    BY <2>8 DEF Acquired, Inductive, OpenAttemptIsCurrent
  <2> QED
    BY <2>5, <2>6, <2>7, <2>8, JobStep DEF Inductive
<1>2. Inductive /\ InductiveOnTime /\ [Next]_vars => [Own]_vars
  BY <1>1
<1> QED
  BY <1>2, InductiveHolds, OnTimeHolds, PTL DEF Spec, AnsweredByItsRunner
=============================================================================

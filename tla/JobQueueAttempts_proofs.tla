----------------------- MODULE JobQueueAttempts_proofs -----------------------
(***************************************************************************)
(* How often a job is attempted, and that a running one is run or will be  *)
(* seen not to be, late heartbeats and crashes included.                   *)
(***************************************************************************)
EXTENDS JobQueueOnTime_proofs, FiniteSetTheorems

-----------------------------------------------------------------------------
(* Replays *)

\* A replay is counted when its command reads the job, and is over when it writes.
LEMMA CommandsStep ==
    ASSUME TypeOK, [Next]_vars
    PROVE  /\ budget'.losses <= budget.losses
           /\ \/ Replaying' = Replaying /\ budget'.replays = budget.replays
              \/ \E a \in Admins \ Replaying :
                    /\ Replaying' = Replaying \cup {a}
                    /\ budget.replays > 0 /\ budget'.replays = budget.replays - 1
              \/ \E a \in Replaying :
                    /\ Replaying' = Replaying \ {a}
                    /\ budget'.replays = budget.replays
<1> USE DEF tables, process
<1> DEFINE Goal == /\ budget'.losses <= budget.losses
                   /\ \/ Replaying' = Replaying /\ budget'.replays = budget.replays
                      \/ \E a \in Admins \ Replaying :
                            /\ Replaying' = Replaying \cup {a}
                            /\ budget.replays > 0 /\ budget'.replays = budget.replays - 1
                      \/ \E a \in Replaying :
                            /\ Replaying' = Replaying \ {a}
                            /\ budget'.replays = budget.replays
<1>1. /\ budget \in [replays: Nat, lapses: Nat, losses: Nat]
      /\ admins \in [Admins -> AdminState]
  BY DEF TypeOK
<1>2. ASSUME admins' = admins, budget'.replays = budget.replays,
             budget'.losses <= budget.losses
      PROVE  Goal
  BY <1>2 DEF Replaying
<1>3. ASSUME admins' = admins, budget' = budget
      PROVE  Goal
  BY <1>1, <1>2, <1>3
<1>4. ASSUME NEW p \in Pools, Lapse(p)
      PROVE  Goal
  BY <1>1, <1>2, <1>4 DEF Lapse
<1>5. ASSUME NEW p \in Pools, NEW e \in execs[p], OutcomeIsLost(p, e)
      PROVE  Goal
  BY <1>1, <1>2, <1>5 DEF OutcomeIsLost
<1>6. ASSUME NEW a \in Admins, NEW j, NEW op \in {"retry", "restore"}, NEW q,
             ReadDeadLetter(a, j, op, q)
      PROVE  Goal
  <2>1. Replaying' = Replaying \cup {a} /\ a \notin Replaying
    BY <1>1, <1>6 DEF ReadDeadLetter, Replaying, AdminState
  <2>2. budget.replays > 0 /\ budget' = [budget EXCEPT !.replays = @ - 1]
    BY <1>6 DEF ReadDeadLetter
  <2> QED
    BY <1>1, <2>1, <2>2
<1>7. ASSUME NEW a \in Admins, NEW j, NEW q, ReadDeadLetter(a, j, "delete", q)
      PROVE  Goal
  <2>1. Replaying' = Replaying
    BY <1>1, <1>7 DEF ReadDeadLetter, Replaying, AdminState
  <2> QED
    BY <1>1, <1>7, <2>1 DEF ReadDeadLetter
<1>8. ASSUME NEW a \in Admins, WriteReplay(a)
      PROVE  Goal
  <2>1. Replaying' = Replaying \ {a} /\ a \in Replaying
    BY <1>1, <1>8 DEF WriteReplay, CommandDone, NoCommand, Replaying, AdminState
  <2> QED
    BY <1>1, <1>8, <2>1 DEF WriteReplay
<1>9. ASSUME NEW a \in Admins, WriteDelete(a)
      PROVE  Goal
  <2>1. Replaying' = Replaying
    BY <1>1, <1>9 DEF WriteDelete, CommandDone, NoCommand, Replaying, AdminState
  <2> QED
    BY <1>1, <1>9, <2>1 DEF WriteDelete
<1>10. ASSUME NEW a \in Admins, AdminStep(a)
       PROVE  Goal
  BY <1>6, <1>7, <1>8, <1>9, <1>10 DEF AdminStep
<1>11. ASSUME NEW p \in Pools, LoopStep(p)
       PROVE  Goal
  BY <1>3, <1>11
     DEF LoopStep, StartPool, FetchNextJob, Dispatch, PruneStale, ListRunning,
         ReadLatestLog, CheckOwner, ReclaimJob, FinishReclaim, AbandonReclaim, ShutDown
<1>12. ASSUME NEW p \in Pools, ExecutorStep(p)
       PROVE  Goal
  BY <1>3, <1>5, <1>12 DEF ExecutorStep, ExecutionSucceeds, ExecutionFails
<1>13. ASSUME NEW p \in Pools, Environment(p)
       PROVE  Goal
  BY <1>3, <1>4, <1>13 DEF Environment, Heartbeat, LateUpsert, Interrupt, Crash
<1>14. CASE \/ \E j \in Jobs : Enqueue(j) \/ BecomeDue(j)
            \/ PurgeCompleted \/ GetMetrics \/ UNCHANGED vars
  BY <1>3, <1>14 DEF Enqueue, BecomeDue, PurgeCompleted, GetMetrics, vars
<1> QED
  BY <1>10, <1>11, <1>12, <1>13, <1>14 DEF Next

\* The bounds keep, and a replay that changes a job is one that is over.
LEMMA BudgetStep ==
    ASSUME TypeOK, ReclaimInv, CommandInv, BudgetInv, [Next]_vars
    PROVE  /\ BudgetInv'
           /\ ReplaysDone \in Nat
           /\ ReplaysDone' \in Nat
           /\ ReplaysDone <= ReplaysDone'
           /\ \A a \in Admins, j \in Jobs : ReplayedBy(a, j) => ReplaysDone' = ReplaysDone + 1
<1> DEFINE b == budget.replays
           c == Cardinality(Replaying)
           Over == \E a \in Admins, j \in Jobs : ReplayedBy(a, j)
<1>1. /\ b \in Nat /\ MaxReplays \in Nat /\ b <= MaxReplays
      /\ c \in Nat /\ c <= MaxReplays - b
      /\ IsFiniteSet(Replaying)
  BY LimitsAssumption, FS_CardinalityType DEF TypeOK, BudgetInv
<1>2. budget'.losses <= MaxLosses
  <2>1. budget'.losses \in Nat /\ budget.losses \in Nat /\ MaxLosses \in Nat
    <3>1. TypeOK'
      BY TypeStep
    <3> QED
      BY <3>1, LimitsAssumption DEF TypeOK
  <2> QED
    BY <2>1, CommandsStep DEF BudgetInv
<1>3. Over => \E a \in Replaying : a \notin Replaying'
  BY DEF ReplayedBy, Replaying, NoCommand
<1>4. CASE Replaying' = Replaying /\ budget'.replays = b
  BY <1>1, <1>2, <1>3, <1>4 DEF BudgetInv, ReplaysDone
<1>5. ASSUME NEW a \in Admins \ Replaying, Replaying' = Replaying \cup {a}, b > 0,
             budget'.replays = b - 1
      PROVE  /\ BudgetInv'
             /\ ReplaysDone' = ReplaysDone
             /\ ~Over
  <2>1. IsFiniteSet(Replaying') /\ Cardinality(Replaying') = c + 1
    BY <1>1, <1>5, FS_AddElement
  <2>2. ~Over
    BY <1>3, <1>5
  <2> QED
    BY <1>1, <1>2, <1>5, <2>1, <2>2 DEF BudgetInv, ReplaysDone
<1>6. ASSUME NEW a \in Replaying, Replaying' = Replaying \ {a}, budget'.replays = b
      PROVE  /\ BudgetInv'
             /\ ReplaysDone' = ReplaysDone + 1
  <2>1. IsFiniteSet(Replaying') /\ Cardinality(Replaying') = c - 1
    BY <1>1, <1>6, FS_RemoveElement
  <2>2. c - 1 \in Nat
    BY <2>1, FS_CardinalityType
  <2> QED
    BY <1>1, <1>2, <1>6, <2>1, <2>2 DEF BudgetInv, ReplaysDone
<1>7. ReplaysDone \in Nat
  BY <1>1 DEF ReplaysDone
<1> QED
  BY <1>4, <1>5, <1>6, <1>7, CommandsStep

-----------------------------------------------------------------------------
(* Attempts *)

\* The rows with one attempt number are finitely many.
LEMMA RowsFinite ==
    ASSUME NEW log \in Seq(LogRow), NEW n
    PROVE  LET S == {i \in DOMAIN log : log[i].attempt = n}
           IN  IsFiniteSet(S) /\ Cardinality(S) \in Nat
<1> DEFINE S == {i \in DOMAIN log : log[i].attempt = n}
<1>1. /\ DOMAIN log = 1 .. Len(log)
      /\ Len(log) \in Nat
  OBVIOUS
<1>2. IsFiniteSet(1 .. Len(log))
  BY <1>1, FS_Interval
<1>3. S \in SUBSET (1 .. Len(log))
  BY <1>1
<1> HIDE DEF S
<1>4. IsFiniteSet(S) /\ Cardinality(S) \in Nat
  BY <1>2, <1>3, FS_Subset, FS_CardinalityType
<1> QED
  BY <1>4 DEF S

\* A claim adds a row with the next attempt number.
LEMMA ClaimAddsRow ==
    ASSUME TypeOK, NEW j \in Jobs, Acquired(j)
    PROVE  /\ Len(logs'[j]) = Len(logs[j]) + 1
           /\ logs'[j][Len(logs[j]) + 1].attempt = jobs[j].retries + 1
           /\ \A i \in DOMAIN logs[j] : logs'[j][i] = logs[j][i]
           /\ \A n : Rows(j, n)' = IF n = jobs[j].retries + 1
                                   THEN Rows(j, n) \cup {Len(logs[j]) + 1}
                                   ELSE Rows(j, n)
<1>1. PICK p \in Pools : logs'[j] = Append(logs[j], NewExecutionLog(p, j))
  BY DEF Acquired
<1>2. /\ logs[j] \in Seq(LogRow)
      /\ Len(logs[j]) \in Nat
      /\ DOMAIN logs[j] = 1 .. Len(logs[j])
  BY DEF TypeOK
<1>3. NewExecutionLog(p, j) \in LogRow /\ NewExecutionLog(p, j).attempt = jobs[j].retries + 1
  <2>1. jobs[j].retries \in Nat
    BY DEF TypeOK, JobRow
  <2> QED
    BY <2>1 DEF NewExecutionLog, LogRow
<1>4. /\ Len(logs'[j]) = Len(logs[j]) + 1
      /\ DOMAIN logs'[j] = 1 .. Len(logs[j]) + 1
      /\ logs'[j][Len(logs[j]) + 1] = NewExecutionLog(p, j)
      /\ \A i \in DOMAIN logs[j] : logs'[j][i] = logs[j][i]
  BY <1>1, <1>2, <1>3
<1>5. ASSUME NEW n
      PROVE  Rows(j, n)' = IF n = jobs[j].retries + 1
                           THEN Rows(j, n) \cup {Len(logs[j]) + 1}
                           ELSE Rows(j, n)
  BY <1>2, <1>3, <1>4, <1>5 DEF Rows
<1> QED
  BY <1>3, <1>4, <1>5

\* No other step adds a row or changes an attempt number.
LEMMA AttemptsKept ==
    ASSUME TypeOK, ReclaimInv, CommandInv, [Next]_vars, NEW j \in Jobs, ~Acquired(j)
    PROVE  /\ DOMAIN logs'[j] = DOMAIN logs[j]
           /\ Len(logs'[j]) = Len(logs[j])
           /\ \A i \in DOMAIN logs[j] : logs'[j][i].attempt = logs[j][i].attempt
           /\ \A n : Rows(j, n)' = Rows(j, n)
<1>1. ASSUME NEW w, NEW outcome \in {"success", "failed"}, logs'[j] = Closed(j, w, outcome)
      PROVE  /\ DOMAIN logs'[j] = DOMAIN logs[j]
             /\ Len(logs'[j]) = Len(logs[j])
             /\ \A i \in DOMAIN logs[j] : logs'[j][i].attempt = logs[j][i].attempt
  <2>1. DOMAIN Closed(j, w, outcome) = DOMAIN logs[j]
    BY DEF Closed
  <2> QED
    BY <1>1, <2>1, ClosedType, ClosedRows
<1>2. /\ DOMAIN logs'[j] = DOMAIN logs[j]
      /\ Len(logs'[j]) = Len(logs[j])
      /\ \A i \in DOMAIN logs[j] : logs'[j][i].attempt = logs[j][i].attempt
  <2>1. \/ logs'[j] = logs[j]
        \/ \E w \in Pools, outcome \in {"success", "failed"} : logs'[j] = Closed(j, w, outcome)
    BY JobStep DEF Kept, Enqueued, CameDue, Deleted, Failed, Completed, ReplayedBy
  <2> QED
    BY <1>1, <2>1
<1> QED
  BY <1>2 DEF Rows

\* What a step does to the limit, the status and the count of a job, round by round.
LEMMA RoundStep ==
    ASSUME TypeOK, ReclaimInv, CommandInv, [Next]_vars, NEW j \in Jobs
    PROVE  \/ jobs[j].status = "none"
           \/ /\ jobs'[j].maxRetries = jobs[j].maxRetries
              /\ \/ Tried(j) \subseteq Tried(j)' /\ ~Acquired(j)
                 \/ /\ Acquired(j)
                    /\ Tried(j)' = Tried(j) \cup {jobs[j].retries + 1}
                    /\ jobs[j].retries + 1 \notin Tried(j)
                 \/ \E a \in Admins : ReplayedBy(a, j)
<1>1. jobs[j] \in JobRow /\ jobs[j].retries \in Nat
  BY DEF TypeOK, JobRow
<1>2. CASE Kept(j)
  BY <1>1, <1>2 DEF Kept, Tried, Acquired, Updated, JobRow
<1>3. CASE CameDue(j)
  BY <1>1, <1>3 DEF CameDue, Tried, Acquired, Updated, JobRow
<1>4. CASE Deleted(j)
  <2>1. /\ jobs'[j].status = "deleted"
        /\ jobs'[j].retries = jobs[j].retries
        /\ jobs'[j].maxRetries = jobs[j].maxRetries
    BY <1>1, <1>4 DEF Deleted, JobRow
  <2> QED
    BY <1>1, <2>1 DEF Tried, Acquired, Updated, JobRow
<1>5. CASE Acquired(j)
  <2>1. /\ jobs[j].status = "pending"
        /\ jobs'[j].status = "running"
        /\ jobs'[j].retries = jobs[j].retries
        /\ jobs'[j].maxRetries = jobs[j].maxRetries
    BY <1>1, <1>5 DEF Acquired, Updated, JobRow
  <2>2. Tried(j) = 1 .. jobs[j].retries /\ Tried(j)' = 1 .. jobs[j].retries + 1
    BY <2>1 DEF Tried
  <2> QED
    BY <1>1, <1>5, <2>1, <2>2
<1>6. CASE Failed(j)
  <2>1. /\ jobs[j].status = "running"
        /\ jobs'[j].status \in {"pending", "dead_letter"}
        /\ jobs'[j].retries = jobs[j].retries + 1
        /\ jobs'[j].maxRetries = jobs[j].maxRetries
    BY <1>1, <1>6 DEF Failed, MayFail, FailedRow, Updated, JobRow
  <2> QED
    BY <1>1, <2>1 DEF Tried, Acquired
<1>7. CASE Completed(j)
  <2>1. /\ jobs[j].status = "running"
        /\ jobs'[j].status = "completed"
        /\ jobs'[j].retries = jobs[j].retries
        /\ jobs'[j].maxRetries = jobs[j].maxRetries
    BY <1>1, <1>7 DEF Completed, Updated, JobRow
  <2> QED
    BY <1>1, <2>1 DEF Tried, Acquired
<1>8. ASSUME NEW a \in Admins, ReplayedBy(a, j)
      PROVE  jobs'[j].maxRetries = jobs[j].maxRetries
  BY <1>1, <1>8 DEF ReplayedBy, Replayed, Updated, JobRow
<1> QED
  BY <1>2, <1>3, <1>4, <1>5, <1>6, <1>7, <1>8, JobStep DEF Enqueued

\* No attempt number is used again before a replay.
LEMMA AttemptsStep ==
    ASSUME Inductive, BudgetInv, AttemptsInv, [Next]_vars
    PROVE  AttemptsInv'
<1> DEFINE Uses(j, n) == Cardinality(Rows(j, n))
           Once(j, n) == IF n \in Tried(j) THEN 1 ELSE 0
<1> SUFFICES ASSUME NEW j \in Jobs, NEW n \in 1 .. jobs'[j].maxRetries + 1
             PROVE  (Uses(j, n) <= ReplaysDone + Once(j, n))'
  BY DEF AttemptsInv
<1>0. TypeOK /\ TypeOK' /\ ReclaimInv /\ CommandInv
  BY TypeStep DEF Inductive
<1>1. /\ IsFiniteSet(Rows(j, n))
      /\ Uses(j, n) \in Nat /\ Uses(j, n)' \in Nat
      /\ Once(j, n) \in {0, 1} /\ Once(j, n)' \in {0, 1}
  <2>1. logs[j] \in Seq(LogRow) /\ logs'[j] \in Seq(LogRow)
    BY <1>0 DEF TypeOK
  <2> QED
    BY <2>1, RowsFinite DEF Rows
<1> HIDE DEF Uses, Once
<1>2. /\ ReplaysDone \in Nat /\ ReplaysDone' \in Nat
      /\ ReplaysDone <= ReplaysDone'
      /\ \A a \in Admins : ReplayedBy(a, j) => ReplaysDone' = ReplaysDone + 1
  BY <1>0, BudgetStep
<1>3. CASE jobs[j].status = "none"
  <2>1. ~Acquired(j) /\ logs[j] = <<>>
    BY <1>3 DEF Acquired, Inductive, RowsInv
  <2>2. Rows(j, n) = {}
    BY <2>1 DEF Rows
  <2>3. Uses(j, n)' = 0
    BY <1>0, <2>1, <2>2, AttemptsKept, FS_EmptySet DEF Uses
  <2> QED
    BY <1>1, <1>2, <2>3
<1>4. CASE jobs'[j].maxRetries = jobs[j].maxRetries /\ jobs[j].status # "none"
  <2>1. Uses(j, n) <= ReplaysDone + Once(j, n)
    BY <1>4 DEF AttemptsInv, Uses, Once
  <2>2. CASE Tried(j) \subseteq Tried(j)' /\ ~Acquired(j)
    <3>1. Uses(j, n)' = Uses(j, n)
      BY <1>0, <2>2, AttemptsKept DEF Uses
    <3>2. Once(j, n) <= Once(j, n)'
      BY <2>2 DEF Once
    <3> QED
      BY <1>1, <1>2, <2>1, <3>1, <3>2
  <2>3. CASE /\ Acquired(j)
             /\ Tried(j)' = Tried(j) \cup {jobs[j].retries + 1}
             /\ jobs[j].retries + 1 \notin Tried(j)
    <3>1. CASE n = jobs[j].retries + 1
      <4>1. Rows(j, n)' = Rows(j, n) \cup {Len(logs[j]) + 1}
        BY <1>0, <2>3, <3>1, ClaimAddsRow
      <4>2. Uses(j, n)' <= Uses(j, n) + 1
        <5>1. Cardinality(Rows(j, n) \cup {Len(logs[j]) + 1}) \in
                 {Uses(j, n), Uses(j, n) + 1}
          BY <1>1, FS_AddElement DEF Uses
        <5> QED
          BY <1>1, <4>1, <5>1 DEF Uses
      <4>3. Once(j, n) = 0 /\ Once(j, n)' = 1
        BY <2>3, <3>1 DEF Once
      <4> QED
        BY <1>1, <1>2, <2>1, <4>2, <4>3
    <3>2. CASE n # jobs[j].retries + 1
      <4>1. Uses(j, n)' = Uses(j, n)
        BY <1>0, <2>3, <3>2, ClaimAddsRow DEF Uses
      <4>2. Once(j, n) = Once(j, n)'
        BY <2>3, <3>2 DEF Once
      <4> QED
        BY <1>1, <1>2, <2>1, <4>1, <4>2
    <3> QED
      BY <3>1, <3>2
  <2>4. ASSUME NEW a \in Admins, ReplayedBy(a, j)
        PROVE  (Uses(j, n) <= ReplaysDone + Once(j, n))'
    <3>1. ~Acquired(j)
      BY <2>4 DEF ReplayedBy, StillAsRead, Inductive, CommandInv, Acquired
    <3>2. Uses(j, n)' = Uses(j, n)
      BY <1>0, <3>1, AttemptsKept DEF Uses
    <3>3. ReplaysDone' = ReplaysDone + 1
      BY <1>2, <2>4
    <3> QED
      BY <1>1, <1>2, <2>1, <3>2, <3>3
  <2> QED
    BY <1>0, <1>4, <2>2, <2>3, <2>4, RoundStep
<1> QED
  BY <1>0, <1>3, <1>4, RoundStep

\* Where nothing has been replayed after a step, nothing was before it, and no command is in
\* the middle of a replay.
LEMMA NoReplayStep ==
    ASSUME TypeOK, BudgetInv, [Next]_vars, NoReplay'
    PROVE  NoReplay /\ Replaying = {}
<1>1. budget.replays \in Nat /\ MaxReplays \in Nat /\ budget.replays <= MaxReplays
  BY LimitsAssumption DEF TypeOK, BudgetInv
<1>2. NoReplay
  BY <1>1, CommandsStep DEF NoReplay
<1>3. Cardinality(Replaying) = 0
  BY <1>1, <1>2, FS_CardinalityType DEF BudgetInv, NoReplay
<1> QED
  BY <1>2, <1>3, FS_EmptySet DEF BudgetInv

\* Without a replay a job's history is numbered in order and as long as its retry count says.
LEMMA OrderStep ==
    ASSUME Inductive, BudgetInv, OrderInv, [Next]_vars
    PROVE  OrderInv'
<1>1. TypeOK /\ ReclaimInv /\ CommandInv /\ BudgetInv'
  BY BudgetStep DEF Inductive
<1>2. NoReplay' => NoReplay /\ \A a \in Admins : a \notin Replaying
  BY <1>1, NoReplayStep
<1> SUFFICES ASSUME NoReplay', NEW j \in Jobs
             PROVE  /\ \A i \in DOMAIN logs'[j] : logs'[j][i].attempt = i
                    /\ jobs'[j].status = "pending" => Len(logs'[j]) = jobs'[j].retries
  BY DEF OrderInv, NoReplay
<1>3. /\ \A i \in DOMAIN logs[j] : logs[j][i].attempt = i
      /\ jobs[j].status = "pending" => Len(logs[j]) = jobs[j].retries
      /\ jobs[j].status = "running" => Len(logs[j]) = jobs[j].retries + 1
  <2>1. DOMAIN logs[j] = 1 .. Len(logs[j]) /\ Len(logs[j]) \in Nat
    BY <1>1 DEF TypeOK
  <2> QED
    BY <1>2, <2>1 DEF OrderInv, Inductive, RunningHasOpenAttempt
<1>4. /\ jobs[j] \in JobRow /\ jobs[j].retries \in Nat
      /\ logs[j] \in Seq(LogRow) /\ Len(logs[j]) \in Nat
      /\ DOMAIN logs[j] = 1 .. Len(logs[j])
  BY <1>1 DEF TypeOK, JobRow
<1>5. CASE Acquired(j)
  <2>1. jobs[j].status = "pending" /\ jobs'[j].status = "running"
    BY <1>4, <1>5 DEF Acquired, Updated, JobRow
  <2>2. /\ logs'[j][Len(logs[j]) + 1].attempt = Len(logs[j]) + 1
        /\ \A i \in DOMAIN logs[j] : logs'[j][i] = logs[j][i]
    BY <1>1, <1>3, <1>5, <2>1, ClaimAddsRow
  <2>3. DOMAIN logs'[j] = 1 .. Len(logs[j]) + 1
    BY <1>4, <1>5 DEF Acquired
  <2> QED
    BY <1>3, <1>4, <2>1, <2>2, <2>3
<1>6. CASE ~Acquired(j)
  <2>1. /\ \A i \in DOMAIN logs'[j] : logs'[j][i].attempt = i
        /\ Len(logs'[j]) = Len(logs[j])
    BY <1>1, <1>3, <1>6, AttemptsKept
  <2>2. \A a \in Admins : ~ReplayedBy(a, j)
    BY <1>2 DEF ReplayedBy, Replaying
  <2>3. CASE Kept(j) \/ CameDue(j)
    BY <1>3, <1>4, <2>1, <2>3 DEF Kept, CameDue, JobRow
  <2>4. CASE Enqueued(j)
    <3>1. Len(logs[j]) = 0
      BY <2>4 DEF Enqueued, Inductive, RowsInv
    <3> QED
      BY <2>1, <2>4, <3>1 DEF Enqueued
  <2>5. CASE Deleted(j) \/ Completed(j)
    <3>1. jobs'[j].status # "pending"
      BY <1>4, <2>5 DEF Deleted, Completed, Updated, JobRow
    <3> QED
      BY <2>1, <3>1
  <2>6. CASE Failed(j)
    <3>1. jobs[j].status = "running" /\ jobs'[j].retries = jobs[j].retries + 1
      BY <1>4, <2>6 DEF Failed, MayFail, FailedRow, Updated, JobRow
    <3> QED
      BY <1>3, <2>1, <3>1
  <2> QED
    BY <1>1, <1>6, <2>2, <2>3, <2>4, <2>5, <2>6, JobStep
<1> QED
  BY <1>5, <1>6

-----------------------------------------------------------------------------
(* Who runs a running job *)

\* What a process runs goes on, unless it ends by its own answer or with the process.
LEMMA RunsLeft ==
    ASSUME TypeOK, [Next]_vars, NEW w \in Pools, NEW e \in Runs(w)
    PROVE  \/ e \in Runs(w)'
           \/ ~Alive(w)'
           \/ e \in execs[w] /\ \/ ExecutionSucceeds(w, e)
                                \/ ExecutionFails(w, e)
                                \/ OutcomeIsLost(w, e)
<1> USE DEF tables, process
<1> DEFINE Goal == \/ e \in Runs(w)'
                   \/ ~Alive(w)'
                   \/ e \in execs[w] /\ \/ ExecutionSucceeds(w, e)
                                        \/ ExecutionFails(w, e)
                                        \/ OutcomeIsLost(w, e)
<1>0. DOMAIN loop = Pools /\ DOMAIN execs = Pools /\ loop[w] \in LoopState
  BY DEF TypeOK
<1>1. ASSUME loop'[w] = loop[w], execs'[w] = execs[w]
      PROVE  Goal
  BY <1>1 DEF Runs, Claimed
<1>2. ASSUME loop[w].pc # "dispatch", execs'[w] = execs[w]
      PROVE  Goal
  BY <1>2 DEF Runs
<1>3. ASSUME NEW p \in Pools, LoopStep(p)
      PROVE  Goal
  <2>1. CASE p # w
    <3>1. loop'[w] = loop[w] /\ execs'[w] = execs[w]
      BY <1>0, <1>3, <2>1
         DEF LoopStep, StartPool, FetchNextJob, Dispatch, PruneStale, ListRunning,
             ReadLatestLog, CheckOwner, ReclaimJob, FinishReclaim, AbandonReclaim,
             ShutDown, Goto
    <3> QED
      BY <1>1, <3>1
  <2>2. CASE p = w
    <3>1. CASE Dispatch(w)
      <4>1. execs'[w] = execs[w] \cup {Claimed(w)}
        BY <1>0, <3>1 DEF Dispatch, Started
      <4> QED
        BY <4>1 DEF Runs
    <3>2. CASE ~Dispatch(w)
      <4>1. loop[w].pc # "dispatch" /\ execs' = execs
        BY <1>3, <2>2, <3>2
           DEF LoopStep, StartPool, FetchNextJob, PruneStale, ListRunning, ReadLatestLog,
               CheckOwner, ReclaimJob, FinishReclaim, AbandonReclaim, ShutDown
      <4> QED
        BY <1>2, <4>1
    <3> QED
      BY <3>1, <3>2
  <2> QED
    BY <2>1, <2>2
<1>4. ASSUME NEW p \in Pools, NEW f \in execs[p],
             ExecutionSucceeds(p, f) \/ ExecutionFails(p, f) \/ OutcomeIsLost(p, f)
      PROVE  Goal
  <2>1. loop' = loop /\ execs' = [execs EXCEPT ![p] = @ \ {f}]
    BY <1>4 DEF ExecutionSucceeds, ExecutionFails, OutcomeIsLost, Finish
  <2>2. CASE p = w /\ f = e
    BY <1>4, <2>2
  <2>3. CASE p # w
    BY <1>0, <1>1, <2>1, <2>3
  <2>4. CASE p = w /\ f # e
    BY <1>0, <2>1, <2>4 DEF Runs, Claimed
  <2> QED
    BY <2>2, <2>3, <2>4
<1>5. ASSUME NEW p \in Pools, Environment(p)
      PROVE  Goal
  <2>1. CASE Crash(w)
    BY <1>0, <2>1 DEF Crash, LoopAt, Alive
  <2>2. CASE LateUpsert(w)
    BY <1>0, <2>2 DEF LateUpsert, Goto, LoopState, Alive
  <2>3. CASE ~Crash(w) /\ ~LateUpsert(w)
    <3>1. loop'[w] = loop[w] /\ execs'[w] = execs[w]
      BY <1>0, <1>5, <2>3
         DEF Environment, Heartbeat, LateUpsert, Goto, Lapse, Interrupt, Crash
    <3> QED
      BY <1>1, <3>1
  <2> QED
    BY <2>1, <2>2, <2>3
<1>6. ASSUME NEW a \in Admins, AdminStep(a)
      PROVE  loop' = loop /\ execs' = execs
  BY <1>6 DEF AdminStep, ReadDeadLetter, WriteReplay, WriteDelete
<1>7. CASE \/ \E j \in Jobs : Enqueue(j) \/ BecomeDue(j)
           \/ PurgeCompleted \/ GetMetrics \/ UNCHANGED vars
  <2>1. loop' = loop /\ execs' = execs
    BY <1>7 DEF Enqueue, BecomeDue, PurgeCompleted, GetMetrics, vars
  <2> QED
    BY <1>1, <2>1
<1> QED
  BY <1>1, <1>3, <1>4, <1>5, <1>6, <1>7 DEF Next, ExecutorStep

\* A worker's own answer for the last attempt is accepted: numbered in order, it is the
\* latest, and it is open.
LEMMA OwnAnswerAccepted ==
    ASSUME Inductive, OrderInv, NoReplay, NEW j \in Jobs, jobs[j].status = "running"
    PROVE  MayFail(j, logs[j][Len(logs[j])].worker)
<1> DEFINE n == Len(logs[j])
<1>1. n \in Nat /\ DOMAIN logs[j] = 1 .. n
  BY DEF Inductive, TypeOK
<1>2. n > 0 /\ logs[j][n].outcome = "open"
  BY DEF Inductive, RunningHasOpenAttempt
<1>3. ASSUME NEW i \in DOMAIN logs[j], IsLatest(j, i)
      PROVE  i = n
  <2>1. logs[j][i].attempt = i /\ logs[j][n].attempt = n /\ n \in DOMAIN logs[j]
    BY <1>1, <1>2 DEF OrderInv
  <2>2. n < i \/ n <= i
    BY <1>3, <2>1 DEF IsLatest
  <2> QED
    BY <1>1, <2>2
<1> QED
  BY <1>2, <1>3 DEF MayFail

\* The last attempt of a job, its worker, and RunningIsBacked for this job.
LastAttempt(j) == [job |-> j, log |-> Len(logs[j])]
LastWorker(j) == logs[j][Len(logs[j])].worker
Backed(j) == LastAttempt(j) \in Runs(LastWorker(j)) \/ ~Alive(LastWorker(j))

NoLoss == budget.losses = MaxLosses

\* A job comes to run with an executor about to start, and stops running with its answer.
LEMMA BackedStep ==
    ASSUME Inductive, BudgetInv, OrderInv, OwnersStarted, RunningIsBacked, [Next]_vars
    PROVE  RunningIsBacked'
<1>1. /\ TypeOK /\ ReclaimInv /\ CommandInv
      /\ NoLoss' => NoLoss
      /\ NoReplay' => NoReplay
  <2>1. TypeOK /\ ReclaimInv /\ CommandInv
    BY DEF Inductive
  <2>2. /\ budget.losses \in Nat /\ budget.losses <= MaxLosses
        /\ budget.replays \in Nat /\ budget.replays <= MaxReplays
        /\ MaxLosses \in Nat /\ MaxReplays \in Nat
        /\ budget'.losses \in Nat
    <3>1. TypeOK'
      BY <2>1, TypeStep
    <3> QED
      BY <2>1, <3>1, LimitsAssumption DEF TypeOK, BudgetInv
  <2> QED
    BY <2>1, <2>2, CommandsStep DEF NoLoss, NoReplay
<1> SUFFICES ASSUME NoLoss', NoReplay', NEW j \in Jobs, jobs'[j].status = "running"
             PROVE  Backed(j)'
  BY DEF RunningIsBacked, NoLoss, NoReplay, Backed, LastAttempt, LastWorker, Runs, Claimed
<1>2. /\ jobs[j] \in JobRow
      /\ logs[j] \in Seq(LogRow) /\ Len(logs[j]) \in Nat
      /\ DOMAIN logs[j] = 1 .. Len(logs[j])
  BY <1>1 DEF TypeOK
<1>3. CASE Kept(j)
  <2> DEFINE w == LastWorker(j)
             e == LastAttempt(j)
  <2>1. LastAttempt(j)' = e /\ LastWorker(j)' = w /\ jobs[j].status = "running"
    BY <1>3 DEF Kept, LastAttempt, LastWorker
  <2>2. w \in Pools /\ loop[w].pc # "off"
    <3>1. Len(logs[j]) \in DOMAIN logs[j]
      BY <1>2, <2>1 DEF Inductive, RunningHasOpenAttempt
    <3>2. logs[j][Len(logs[j])].worker \in Pools
      <4>1. logs[j][Len(logs[j])] \in LogRow
        BY <1>2, <3>1
      <4> QED
        BY <4>1 DEF LogRow
    <3> QED
      BY <3>1, <3>2 DEF OwnersStarted, LastWorker
  <2>3. CASE ~Alive(w)
    BY <1>1, <2>1, <2>2, <2>3, NoRevival DEF Backed
  <2>4. CASE e \in Runs(w)
    <3>1. ~ExecutionSucceeds(w, e)
      <4>1. Updated(j, "completed", jobs[j].retries, jobs[j].due).status # "running"
        BY <1>2 DEF Updated, JobRow
      <4> QED
        BY <1>1, <2>1, <4>1 DEF ExecutionSucceeds, HandleJobSuccess, LastAttempt, TypeOK
    <3>2. ~ExecutionFails(w, e)
      <4>1. MayFail(j, w)
        BY <1>1, <2>1, OwnAnswerAccepted DEF LastWorker
      <4>2. FailedRow(j).status # "running"
        BY <1>2 DEF FailedRow, Updated, JobRow
      <4> QED
        BY <1>1, <4>1, <4>2 DEF ExecutionFails, HandleJobFailure, LastAttempt, TypeOK
    <3>3. ~OutcomeIsLost(w, e)
      <4>1. budget \in [replays: Nat, lapses: Nat, losses: Nat] /\ budget.losses \in Nat
        BY <1>1 DEF TypeOK
      <4> QED
        BY <1>1, <4>1 DEF OutcomeIsLost, NoLoss
    <3> QED
      BY <1>1, <2>1, <2>2, <2>4, <3>1, <3>2, <3>3, RunsLeft DEF Backed
  <2>5. e \in Runs(w) \/ ~Alive(w)
    BY <1>1, <2>1
       DEF RunningIsBacked, NoLoss, NoReplay, LastAttempt, LastWorker, Runs, Claimed
  <2> QED
    BY <2>3, <2>4, <2>5
<1>4. CASE Acquired(j)
  <2>1. PICK p \in Pools : FetchNextJob(p, j) /\ logs'[j] = Append(logs[j], NewExecutionLog(p, j))
    BY <1>4 DEF Acquired
  <2>2. /\ Len(logs'[j]) = Len(logs[j]) + 1
        /\ LastWorker(j)' = p
    <3>1. NewExecutionLog(p, j).worker = p
      BY DEF NewExecutionLog
    <3> QED
      BY <1>2, <2>1, <3>1 DEF LastWorker
  <2>3. loop'[p].pc = "dispatch" /\ loop'[p].job = j /\ loop'[p].log = Len(logs[j]) + 1
    BY <1>1, <2>1 DEF FetchNextJob, TypeOK, LoopState
  <2> QED
    BY <2>2, <2>3 DEF Backed, LastAttempt, Runs, Claimed
<1>5. CASE \/ Enqueued(j) \/ CameDue(j) \/ Deleted(j) \/ Failed(j) \/ Completed(j)
           \/ \E a \in Admins : ReplayedBy(a, j)
  BY <1>2, <1>5 DEF Enqueued, CameDue, Deleted, Failed, FailedRow, Completed, ReplayedBy,
                    Replayed, Updated, JobRow
<1> QED
  BY <1>1, <1>3, <1>4, <1>5, JobStep

-----------------------------------------------------------------------------
(* How attempts end *)

\* Without a replay the latest attempt by number is the last one inserted.
LEMMA LatestIsLast ==
    ASSUME TypeOK, OrderInv, NoReplay, NEW j \in Jobs, logs[j] # <<>>
    PROVE  IsLatest(j, Len(logs[j]))
<1>1. /\ Len(logs[j]) \in DOMAIN logs[j]
      /\ DOMAIN logs[j] = 1 .. Len(logs[j])
      /\ Len(logs[j]) \in Nat
  <2>1. logs[j] \in Seq(LogRow)
    BY DEF TypeOK
  <2> QED
    BY <2>1
<1>2. \A i \in DOMAIN logs[j] : logs[j][i].attempt = i
  BY DEF OrderInv
<1> QED
  BY <1>1, <1>2 DEF IsLatest

\* So an answer for the last attempt, while it is open, is written to that row alone.
LEMMA ClosesLast ==
    ASSUME Inductive, OrderInv, NoReplay, NEW j \in Jobs, jobs[j].status = "running",
           NEW outcome \in {"success", "failed"}
    PROVE  LET n == Len(logs[j])
               c == Closed(j, logs[j][n].worker, outcome)
           IN  /\ c[n].outcome = outcome
               /\ \A i \in DOMAIN logs[j] \ {n} : c[i] = logs[j][i] /\ c[i].outcome # "open"
<1> DEFINE n == Len(logs[j])
           c == Closed(j, logs[j][n].worker, outcome)
<1>1. /\ n \in Nat /\ n > 0 /\ DOMAIN logs[j] = 1 .. n
      /\ logs[j][n].outcome = "open"
  BY DEF Inductive, TypeOK, RunningHasOpenAttempt
<1>2. IsLatest(j, n)
  BY <1>1, LatestIsLast DEF Inductive
<1>3. c[n] = [logs[j][n] EXCEPT !.outcome = outcome]
  BY <1>1, <1>2 DEF Closed
<1>4. logs[j][n] \in LogRow
  BY <1>1 DEF Inductive, TypeOK
<1>5. ASSUME NEW i \in DOMAIN logs[j] \ {n}
      PROVE  c[i] = logs[j][i] /\ c[i].outcome # "open"
  <2>1. logs[j][i].outcome # "open"
    BY DEF Inductive, OpenAttemptIsCurrent
  <2> QED
    BY <2>1 DEF Closed
<1> QED
  BY <1>3, <1>4, <1>5 DEF LogRow

\* An attempt fails in the same transaction that counts a retry, and only the last one can.
LEMMA FailuresStep ==
    ASSUME Inductive, BudgetInv, OrderInv, RetriesAreFailures, [Next]_vars
    PROVE  RetriesAreFailures'
<1>1. TypeOK /\ ReclaimInv /\ CommandInv
  BY DEF Inductive
<1> SUFFICES ASSUME NoReplay', NEW j \in Jobs
             PROVE  /\ jobs'[j].retries <= Len(logs'[j])
                    /\ \A i \in DOMAIN logs'[j] :
                          logs'[j][i].outcome = "failed" <=> i <= jobs'[j].retries
  BY DEF RetriesAreFailures, NoReplay
<1>2. NoReplay /\ Replaying = {}
  BY <1>1, NoReplayStep
<1>3. /\ jobs[j].retries <= Len(logs[j])
      /\ \A i \in DOMAIN logs[j] : logs[j][i].outcome = "failed" <=> i <= jobs[j].retries
  BY <1>2 DEF RetriesAreFailures, NoReplay
<1>4. /\ jobs[j] \in JobRow /\ jobs[j].retries \in Nat
      /\ logs[j] \in Seq(LogRow) /\ Len(logs[j]) \in Nat
      /\ DOMAIN logs[j] = 1 .. Len(logs[j])
  BY <1>1 DEF TypeOK, JobRow
<1>5. jobs[j].status = "running" =>
         /\ Len(logs[j]) = jobs[j].retries + 1
         /\ Len(logs[j]) \in DOMAIN logs[j]
  BY <1>2, <1>4 DEF OrderInv, Inductive, RunningHasOpenAttempt
<1>6. ASSUME NEW w, NEW outcome \in {"success", "failed"}, logs'[j] = Closed(j, w, outcome)
      PROVE  DOMAIN logs'[j] = 1 .. Len(logs[j]) /\ Len(logs'[j]) = Len(logs[j])
  BY <1>1, <1>4, <1>6, ClosedType DEF Closed
<1>7. CASE Kept(j) \/ CameDue(j) \/ Deleted(j)
  BY <1>3, <1>4, <1>7 DEF Kept, CameDue, Deleted, JobRow
<1>8. CASE Enqueued(j)
  <2>1. logs'[j] = <<>>
    BY <1>8 DEF Enqueued, Inductive, RowsInv
  <2> QED
    BY <1>8, <2>1 DEF Enqueued
<1>9. CASE Acquired(j)
  <2>1. PICK p \in Pools : logs'[j] = Append(logs[j], NewExecutionLog(p, j))
    BY <1>9 DEF Acquired
  <2>2. jobs[j].status = "pending" /\ jobs'[j].retries = jobs[j].retries
    BY <1>4, <1>9 DEF Acquired, Updated, JobRow
  <2>3. Len(logs[j]) = jobs[j].retries
    BY <1>2, <2>2 DEF OrderInv
  <2>4. /\ Len(logs'[j]) = Len(logs[j]) + 1
        /\ DOMAIN logs'[j] = 1 .. Len(logs[j]) + 1
        /\ logs'[j][Len(logs[j]) + 1].outcome = "open"
        /\ \A i \in DOMAIN logs[j] : logs'[j][i] = logs[j][i]
    BY <1>4, <2>1 DEF NewExecutionLog
  <2>5. ASSUME NEW i \in DOMAIN logs'[j]
        PROVE  logs'[j][i].outcome = "failed" <=> i <= jobs[j].retries
    <3>1. CASE i \in DOMAIN logs[j]
      BY <1>3, <2>4, <3>1
    <3>2. CASE i = Len(logs[j]) + 1
      BY <1>4, <2>3, <2>4, <3>2
    <3> QED
      BY <1>4, <2>4, <3>1, <3>2
  <2> QED
    BY <1>3, <1>4, <2>2, <2>4, <2>5
<1>10. CASE Failed(j)
  <2>1. PICK w \in Pools : /\ MayFail(j, w)
                          /\ jobs'[j] = FailedRow(j)
                          /\ logs'[j] = Closed(j, w, "failed")
    BY <1>10 DEF Failed
  <2>2. jobs[j].status = "running" /\ jobs'[j].retries = jobs[j].retries + 1
    BY <1>4, <2>1 DEF MayFail, FailedRow, Updated, JobRow
  <2>3. w = logs[j][Len(logs[j])].worker
    BY <2>1, AcceptedIsLast DEF Inductive
  <2>4. /\ logs'[j][Len(logs[j])].outcome = "failed"
        /\ \A i \in DOMAIN logs[j] \ {Len(logs[j])} : logs'[j][i] = logs[j][i]
    BY <1>2, <2>1, <2>2, <2>3, ClosesLast
  <2>5. /\ DOMAIN logs'[j] = 1 .. Len(logs[j]) /\ Len(logs'[j]) = Len(logs[j])
        /\ Len(logs[j]) = jobs[j].retries + 1
    BY <1>5, <1>6, <2>1, <2>2
  <2>6. ASSUME NEW i \in DOMAIN logs'[j]
        PROVE  logs'[j][i].outcome = "failed" <=> i <= jobs[j].retries + 1
    <3>1. CASE i = Len(logs[j])
      BY <1>4, <2>4, <2>5, <3>1
    <3>2. CASE i # Len(logs[j])
      <4>1. i \in DOMAIN logs[j] /\ logs'[j][i] = logs[j][i]
        BY <1>4, <2>4, <2>5, <3>2
      <4> QED
        BY <1>3, <1>4, <2>5, <3>2, <4>1
    <3> QED
      BY <3>1, <3>2
  <2> QED
    BY <1>4, <2>2, <2>5, <2>6
<1>11. CASE Completed(j)
  <2>1. PICK w \in Pools : logs'[j] = Closed(j, w, "success")
    BY <1>11 DEF Completed
  <2>2. jobs'[j].retries = jobs[j].retries
    BY <1>4, <1>11 DEF Completed, Updated, JobRow
  <2>3. ASSUME NEW i \in DOMAIN logs[j]
        PROVE  logs'[j][i].outcome = "failed" <=> logs[j][i].outcome = "failed"
    <3>1. logs[j][i] \in LogRow
      BY <1>4
    <3>2. \/ logs'[j][i] = logs[j][i]
          \/ /\ logs[j][i].outcome = "open"
             /\ logs'[j][i] = [logs[j][i] EXCEPT !.outcome = "success"]
      BY <2>1 DEF Closed
    <3>3. CASE logs'[j][i] = logs[j][i]
      BY <3>3
    <3>4. CASE /\ logs[j][i].outcome = "open"
               /\ logs'[j][i] = [logs[j][i] EXCEPT !.outcome = "success"]
      BY <3>1, <3>4 DEF LogRow
    <3> QED
      BY <3>2, <3>3, <3>4
  <2> QED
    BY <1>3, <1>4, <1>6, <2>1, <2>2, <2>3
<1>12. \A a \in Admins : ~ReplayedBy(a, j)
  BY <1>2 DEF ReplayedBy, Replaying
<1> QED
  BY <1>1, <1>7, <1>8, <1>9, <1>10, <1>11, <1>12, JobStep

\* While heartbeats are on time the executor that completes a job runs its last attempt.
LEMMA CompletionStep ==
    ASSUME Inductive, InductiveOnTime, BudgetInv, OrderInv, CompletionClosesAttemptOnTime,
           [Next]_vars
    PROVE  CompletionClosesAttemptOnTime'
<1>1. TypeOK /\ ReclaimInv /\ CommandInv
  BY DEF Inductive
<1> SUFFICES ASSUME OnTime', NoReplay', NEW j \in Jobs, jobs'[j].status = "completed",
                    NEW i \in DOMAIN logs'[j]
             PROVE  logs'[j][i].outcome # "open"
  BY DEF CompletionClosesAttemptOnTime, CompletionClosesAttempt, OnTime, NoReplay
<1>2. OnTime /\ NoReplay
  BY <1>1, LapsesStep, NoReplayStep DEF InductiveOnTime
<1>3. jobs[j] \in JobRow
  BY <1>1 DEF TypeOK
<1>4. CASE Kept(j)
  BY <1>2, <1>4
     DEF Kept, CompletionClosesAttemptOnTime, CompletionClosesAttempt, OnTime, NoReplay
<1>5. CASE Completed(j)
  <2>1. PICK w \in Pools : Answers(w, j) /\ logs'[j] = Closed(j, w, "success")
    BY <1>5 DEF Completed
  <2>2. PICK e \in execs[w] : e.job = j
    BY <2>1 DEF Answers
  <2>3. Backs(w, e)
    BY <1>2, <2>2 DEF InductiveOnTime, RunnersInv, Runs
  <2>4. w = logs[j][Len(logs[j])].worker
    BY <2>2, <2>3 DEF Backs
  <2>5. DOMAIN logs'[j] = DOMAIN logs[j]
    BY <2>1 DEF Closed
  <2> QED
    BY <1>2, <1>5, <2>1, <2>4, <2>5, ClosesLast DEF Completed
<1>6. CASE \/ Enqueued(j) \/ CameDue(j) \/ Deleted(j) \/ Acquired(j) \/ Failed(j)
           \/ \E a \in Admins : ReplayedBy(a, j)
  BY <1>3, <1>6 DEF Enqueued, CameDue, Deleted, Acquired, Failed, FailedRow, ReplayedBy,
                    Replayed, Updated, JobRow
<1> QED
  BY <1>1, <1>4, <1>5, <1>6, JobStep

-----------------------------------------------------------------------------
(* The theorems *)

\* Nothing has been attempted, lost or replayed at the start.
LEMMA AttemptsInit == Init => InductiveAttempts
<1> SUFFICES ASSUME Init
             PROVE  InductiveAttempts
  OBVIOUS
<1>1. Replaying = {}
  BY DEF Init, Replaying, NoCommand
<1>2. /\ budget.losses = MaxLosses /\ budget.replays = MaxReplays
      /\ MaxLosses \in Nat /\ MaxReplays \in Nat
  BY LimitsAssumption DEF Init
<1>3. BudgetInv /\ ReplaysDone = 0
  BY <1>1, <1>2, FS_EmptySet DEF BudgetInv, ReplaysDone
<1>4. \A j \in Jobs : logs[j] = <<>> /\ jobs[j].status = "none"
  BY DEF Init
<1>5. AttemptsInv
  <2>1. \A j \in Jobs : \A n : Rows(j, n) = {}
    BY <1>4 DEF Rows
  <2> QED
    BY <1>3, <2>1, FS_EmptySet DEF AttemptsInv
<1>6. OrderInv /\ RunningIsBacked
  BY <1>4 DEF OrderInv, RunningIsBacked
<1>7. RetriesAreFailures /\ CompletionClosesAttemptOnTime
  <2>1. \A j \in Jobs : jobs[j].retries = 0
    BY DEF Init
  <2> QED
    BY <1>4, <2>1
       DEF RetriesAreFailures, CompletionClosesAttemptOnTime, CompletionClosesAttempt
<1> QED
  BY <1>3, <1>5, <1>6, <1>7 DEF InductiveAttempts

\* The parts together.
LEMMA InductiveAttemptsStep ==
    Inductive /\ InductiveOnTime /\ InductiveAttempts /\ [Next]_vars => InductiveAttempts'
BY BudgetStep, AttemptsStep, OrderStep, BackedStep, FailuresStep, CompletionStep
   DEF Inductive, InductiveOnTime, InductiveAttempts

\* However often a job is replayed, late heartbeats and crashes included: its attempts are
\* counted round by round, and whoever claimed it last runs it or is gone.
THEOREM AttemptsHold == Spec => []InductiveAttempts
<1>1. Init => Inductive /\ InductiveOnTime /\ InductiveAttempts
  BY InductiveInit, OnTimeInit, AttemptsInit
<1>2. Inductive /\ InductiveOnTime /\ InductiveAttempts /\ [Next]_vars
         => (Inductive /\ InductiveOnTime /\ InductiveAttempts)'
  BY InductiveStep, OnTimeStep, InductiveAttemptsStep
<1> QED
  BY <1>1, <1>2, PTL DEF Spec

\* No attempt number passes the retry limit by more than one, and none is used more often
\* than the job was replayed, plus one, for any number of pools, reclaimers and operators.
THEOREM AttemptsAreBudgeted == Spec => []AttemptBudget
<1>1. Inductive /\ InductiveAttempts => AttemptBudget
  <2> SUFFICES ASSUME Inductive, InductiveAttempts, NEW j \in Jobs,
                      NEW n \in 1 .. jobs[j].maxRetries + 1
               PROVE  Cardinality(Rows(j, n)) <= 1 + MaxReplays - budget.replays
    BY DEF AttemptBudget, Rows, Inductive, AttemptBound
  <2>1. Cardinality(Rows(j, n)) <= ReplaysDone + 1
    <3>1. logs[j] \in Seq(LogRow)
      BY DEF Inductive, TypeOK
    <3>2. Cardinality(Rows(j, n)) \in Nat
      BY <3>1, RowsFinite DEF Rows
    <3>3. ReplaysDone \in Int
      BY LimitsAssumption, FS_CardinalityType
         DEF ReplaysDone, InductiveAttempts, BudgetInv, Inductive, TypeOK
    <3> QED
      BY <3>2, <3>3 DEF InductiveAttempts, AttemptsInv
  <2>2. /\ budget.replays \in Nat /\ MaxReplays \in Nat
        /\ Cardinality(Replaying) \in Nat
    BY LimitsAssumption, FS_CardinalityType
       DEF InductiveAttempts, BudgetInv, Inductive, TypeOK
  <2>3. Cardinality(Rows(j, n)) \in Nat
    <3>1. logs[j] \in Seq(LogRow)
      BY DEF Inductive, TypeOK
    <3> QED
      BY <3>1, RowsFinite DEF Rows
  <2> QED
    BY <2>1, <2>2, <2>3 DEF ReplaysDone
<1> QED
  BY <1>1, InductiveHolds, AttemptsHold, PTL

\* While no outcome is lost and nothing replayed, a running job is run by the worker that
\* claimed it last, or that worker is gone, late heartbeats included.
THEOREM RunningJobsAreBacked == Spec => []RunningIsBacked
<1>1. InductiveAttempts => RunningIsBacked
  BY DEF InductiveAttempts
<1> QED
  BY <1>1, AttemptsHold, PTL

\* While nothing is replayed the failed attempts of a job are its first retries_count ones:
\* each failure is counted once, whoever reports it and however often.
THEOREM FailuresAreCounted == Spec => []RetriesAreFailures
<1>1. InductiveAttempts => RetriesAreFailures
  BY DEF InductiveAttempts
<1> QED
  BY <1>1, AttemptsHold, PTL

\* And a job completed while no live process has been taken for dead has no attempt open.
THEOREM CompletionsClose == Spec => []CompletionClosesAttemptOnTime
<1>1. InductiveAttempts => CompletionClosesAttemptOnTime
  BY DEF InductiveAttempts
<1> QED
  BY <1>1, AttemptsHold, PTL
=============================================================================

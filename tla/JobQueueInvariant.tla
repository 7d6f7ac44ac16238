-------------------------- MODULE JobQueueInvariant --------------------------
(***************************************************************************)
(* The inductive invariant behind the safety properties of JobQueue: what  *)
(* every step relies on, part by part.                                     *)
(***************************************************************************)
EXTENDS JobQueue

\* A job never enqueued has no history; a job that can run again has failures to spare.
RowsInv ==
    \A j \in Jobs :
        /\ jobs[j].status = "none" => logs[j] = <<>>
        /\ jobs[j].status \in {"pending", "running"} => jobs[j].retries <= jobs[j].maxRetries

\* No attempt number exceeds the retry limit plus one.
AttemptBound ==
    \A j \in Jobs : \A i \in DOMAIN logs[j] : logs[j][i].attempt <= jobs[j].maxRetries + 1

\* A main loop that is to check, fail or start a job has one in hand.  What a reclaimer
\* holds has been claimed once, so it finds an owner in its history.
ReclaimInv ==
    \A p \in Pools :
        /\ loop[p].pc \in {"check", "fail", "dispatch"} => loop[p].job \in Jobs
        /\ loop[p].pc \in {"check", "fail"} => loop[p].owner \in Pools
        /\ \A j \in loop[p].todo : logs[j] # <<>>

\* An unchanged updated_at means an unchanged status: the row a dlq command has read is
\* still dead-lettered unless it was written to, or deleted, since.
CommandInv ==
    \A a \in Admins : admins[a].op # "none" =>
        LET j == admins[a].job
        IN  /\ j \in Jobs
            /\ jobs[j].status # "none"
            /\ admins[a].seen <= jobs[j].updatedAt
            /\ Exists(j) /\ admins[a].seen = jobs[j].updatedAt =>
                  jobs[j].status = "dead_letter"

\* The strengthening of TypeOK, OpenAttemptIsCurrent and RunningHasOpenAttempt that
\* every step preserves.
Inductive ==
    /\ TypeOK
    /\ OpenAttemptIsCurrent
    /\ RunningHasOpenAttempt
    /\ RowsInv
    /\ AttemptBound
    /\ ReclaimInv
    /\ CommandInv

-----------------------------------------------------------------------------
(* While every heartbeat of a live process has been on time *)

OnTime == budget.lapses = MaxLapses

\* Who has run a job, or is blamed for one, is a process that was started.
OwnersStarted ==
    /\ \A j \in Jobs : \A i \in DOMAIN logs[j] : loop[logs[j][i].worker].pc # "off"
    /\ \A p \in Pools : loop[p].pc \in {"check", "fail"} => loop[loop[p].owner].pc # "off"

\* A live process has a live row, so whoever is blamed is dead.
LiveIsSeen ==
    \A p \in Pools :
        /\ Alive(p) => workers[p] = [status |-> "live", fresh |-> TRUE]
        /\ loop[p].pc = "fail" => ~Alive(loop[p].owner)

\* What w runs: its executors, and the one it is about to start.
Runs(w) == execs[w] \cup {e \in {Claimed(w)} : loop[w].pc = "dispatch"}

\* w is alive and runs the last attempt of a job, which is its own and goes on.
Backs(w, e) ==
    /\ Alive(w)
    /\ e.log = Len(logs[e.job]) /\ e.log > 0
    /\ logs[e.job][e.log].worker = w
    /\ jobs[e.job].status \in {"running", "deleted"}

\* Every executor runs its job's last attempt, and none is about to be started again.
RunnersInv ==
    \A w \in Pools :
        /\ \A e \in Runs(w) : Backs(w, e)
        /\ loop[w].pc = "dispatch" => Claimed(w) \notin execs[w]

\* The strengthening of NoDuplicateRunsOnTime that every step preserves.
InductiveOnTime ==
    /\ budget.lapses <= MaxLapses
    /\ OwnersStarted
    /\ OnTime => LiveIsSeen /\ RunnersInv
-----------------------------------------------------------------------------
(* How often a job has been attempted *)

\* Operators in the middle of a replay, and the replays that were written or given up.
Replaying == {a \in Admins : admins[a].op \in {"retry", "restore"}}
ReplaysDone == MaxReplays - budget.replays - Cardinality(Replaying)

\* A replay is counted when its command starts.
BudgetInv ==
    /\ budget.losses <= MaxLosses
    /\ budget.replays <= MaxReplays
    /\ IsFiniteSet(Replaying)
    /\ Cardinality(Replaying) <= MaxReplays - budget.replays

\* The rows of j with attempt number n, and the numbers used since the last replay of j.
Rows(j, n) == {i \in DOMAIN logs[j] : logs[j][i].attempt = n}
Tried(j) == 1 .. IF jobs[j].status = "pending" THEN jobs[j].retries ELSE jobs[j].retries + 1

\* An attempt number is used once per round of a job, and a round begins with a replay.
AttemptsInv ==
    \A j \in Jobs : \A n \in 1 .. jobs[j].maxRetries + 1 :
        Cardinality(Rows(j, n)) <= ReplaysDone + (IF n \in Tried(j) THEN 1 ELSE 0)

NoReplay == budget.replays = MaxReplays

\* Without a replay the attempts are numbered as they were inserted.
OrderInv ==
    NoReplay => \A j \in Jobs :
        /\ \A i \in DOMAIN logs[j] : logs[j][i].attempt = i
        /\ jobs[j].status = "pending" => Len(logs[j]) = jobs[j].retries

\* The strengthening of AttemptBudget, RunningIsBacked and the two properties of outcomes
\* that every step preserves.
InductiveAttempts ==
    /\ BudgetInv
    /\ AttemptsInv
    /\ OrderInv
    /\ RunningIsBacked
    /\ RetriesAreFailures
    /\ CompletionClosesAttemptOnTime
=============================================================================

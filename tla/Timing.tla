------------------------------- MODULE Timing -------------------------------
(***************************************************************************)
(* The clocks of QueueCTL: the heartbeat ticker and its upserts, the 30 s  *)
(* of PruneStale, the reclaim and poll tickers, the forced exit of a drain,*)
(* the backoff of a retry and the age a purge asks for.  JobQueue says     *)
(* what each of these does whenever it happens; here they happen when they *)
(* are due.                                                                *)
(*                                                                         *)
(* One worker process, "node", may be signalled or killed; another,        *)
(* "keeper", is healthy, and they share one job.  Time passes in whole     *)
(* units by Tick, and no further than the next thing that must happen.     *)
(***************************************************************************)
EXTENDS Integers

CONSTANTS
    HeartbeatEvery, \* heartbeat ticker: 5 s
    UpsertLimit,    \* time limit of a heartbeat's upsert: 3 s
    StaleAfter,     \* inactivity after which PruneStale marks a worker: 30 s
    ReclaimEvery,   \* reclaim ticker: 30 s
    ExitAfter,      \* forced exit after the signal: 30 s
    PollEvery,      \* poll interval of the configuration
    BaseDelay, MaxDelay, \* backoff delays of the configuration
    DurationMax,    \* greatest time.Duration
    MaxRetries,     \* the job's retry limit
    OlderThan,      \* purge --older-than
    Zones,          \* offsets from UTC of the machines where purge is called
    StartLimit,     \* assumed: time the reclaim at startup takes
    MaxMisses,      \* assumed: upserts that fail in a row
    MaxAge          \* bound: age of the last heartbeat

\* The code's own durations leave time for four failed upserts and a slow start.
ASSUME TimersAssumption ==
    /\ HeartbeatEvery \in Nat /\ StartLimit \in Nat /\ MaxMisses \in Nat
    /\ StaleAfter \in Nat /\ ReclaimEvery \in Nat \ {0}
    /\ ExitAfter \in Nat /\ PollEvery \in Nat \ {0}
    /\ UpsertLimit \in 0 .. HeartbeatEvery - 1
    /\ StartLimit + (MaxMisses + 1) * HeartbeatEvery + UpsertLimit <= StaleAfter

ASSUME DelaysAssumption ==
    /\ BaseDelay \in Nat \ {0} /\ MaxDelay \in Nat /\ BaseDelay <= MaxDelay
    /\ MaxDelay <= DurationMax /\ DurationMax \in Nat /\ MaxRetries \in Nat
    /\ OlderThan \in Nat /\ Zones \subseteq Int /\ MaxAge \in Nat
    /\ \A n \in 1 .. MaxRetries : BaseDelay * 2^(n - 1) \in Nat

VARIABLES
    node,       \* the node's process
    elapsed,    \* time it has been starting or draining
    nextBeat,   \* time to the next tick of its heartbeat ticker
    upsert,     \* age of the heartbeat an upsert is writing, or Idle
    misses,     \* upserts that failed since the last one that did not
    row,        \* status of the node's row
    age,        \* age of the last heartbeat written to the row
    reclaimIn,  \* time to the next tick of the keeper's reclaim ticker
    pollIn,     \* and of its poll ticker
    job,        \* status of the job
    owner,      \* worker of its latest attempt
    runs,       \* workers that run a handler of it
    tries,      \* retries_count
    wait,       \* time to run_at; none or less: due
    since       \* age of the row's updated_at

heart == <<node, elapsed, nextBeat, upsert, misses, row, age>>
tickers == <<reclaimIn, pollIn>>
task == <<job, owner, runs, tries, wait, since>>
vars == <<heart, tickers, task>>

Idle == -1
Workers == {"node", "keeper"}

TypeOK ==
    /\ node \in {"starting", "up", "draining", "gone"}
    /\ elapsed \in Nat
    /\ nextBeat \in 0 .. HeartbeatEvery
    /\ upsert \in {Idle} \cup 0 .. UpsertLimit
    /\ misses \in 0 .. MaxMisses
    /\ row \in {"live", "stopped", "absent"}
    /\ age \in Nat
    /\ reclaimIn \in 0 .. ReclaimEvery
    /\ pollIn \in 0 .. PollEvery
    /\ job \in {"pending", "running", "completed", "dead_letter", "deleted"}
    /\ owner \in Workers
    /\ runs \subseteq Workers
    /\ tries \in 0 .. MaxRetries + 1
    /\ wait \in Int
    /\ since \in Nat

\* The node has just registered, and its first job was enqueued for now.
Init ==
    /\ node = "starting" /\ elapsed = 0 /\ nextBeat = HeartbeatEvery
    /\ upsert = Idle /\ misses = 0 /\ row = "live" /\ age = 0
    /\ reclaimIn = ReclaimEvery /\ pollIn = PollEvery
    /\ job = "pending" /\ owner = "keeper" /\ runs = {} /\ tries = 0
    /\ wait = 0 /\ since = 0

-----------------------------------------------------------------------------
(* Heartbeats *)

\* The reclaim at startup ends: the ticker starts, and then the select loop.
StartTicker ==
    /\ node = "starting"
    /\ node' = "up"
    /\ elapsed' = 0
    /\ nextBeat' = HeartbeatEvery
    /\ UNCHANGED <<upsert, misses, row, age, tickers, task>>

\* The ticker: Heartbeat stamps the in-memory node and the upsert begins.
Beat ==
    /\ node = "up"
    /\ nextBeat = 0
    /\ upsert' = 0
    /\ nextBeat' = HeartbeatEvery
    /\ UNCHANGED <<node, elapsed, misses, row, age, tickers, task>>

\* Upsert writes the stamp taken before it began.  The goroutine ends at the signal, but not
\* in the middle of an upsert.
UpsertCommits ==
    /\ upsert # Idle
    /\ node # "gone"
    /\ row' = "live"
    /\ age' = upsert
    /\ misses' = 0
    /\ upsert' = Idle
    /\ UNCHANGED <<node, elapsed, nextBeat, tickers, task>>

\* An error is ignored: the next tick tries again.
UpsertFails ==
    /\ upsert # Idle
    /\ misses < MaxMisses
    /\ misses' = misses + 1
    /\ upsert' = Idle
    /\ UNCHANGED <<node, elapsed, nextBeat, row, age, tickers, task>>

\* SIGINT or SIGTERM.
Signal ==
    /\ node = "up"
    /\ node' = "draining"
    /\ nextBeat' = 0
    /\ UNCHANGED <<elapsed, upsert, misses, row, age, tickers, task>>

\* Every handler has ended and the heartbeat goroutine too: the node is unregistered.
Unregister ==
    /\ node = "draining"
    /\ "node" \notin runs
    /\ upsert = Idle
    /\ node' = "gone"
    /\ row' = "absent"
    /\ elapsed' = 0
    /\ UNCHANGED <<nextBeat, upsert, misses, age, tickers, task>>

\* The process ends with what it was running: a crash, or the forced exit of a drain.
Dies ==
    /\ node' = "gone"
    /\ elapsed' = 0
    /\ upsert' = Idle
    /\ runs' = runs \ {"node"}
    /\ UNCHANGED <<nextBeat, misses, row, age, tickers,
                   job, owner, tries, wait, since>>

Crash == node # "gone" /\ Dies

ForcedExit == node = "draining" /\ elapsed = ExitAfter /\ Dies

-----------------------------------------------------------------------------
(* Retries *)

\* Variants: the count before the failure; no cap.
CalculateFromZero(n) ==
    IF n <= 1 THEN {0}
    ELSE LET delay == BaseDelay * 2^(n - 2)
         IN  IF delay > MaxDelay THEN {MaxDelay} ELSE {delay}
CalculateUncapped(n) ==
    IF n = 0 THEN {0} ELSE {BaseDelay * 2^(n - 1)}

\* Backoff.Calculate.  The product is a float64; if it is no time.Duration the conversion
\* gives the least one on amd64, which passes the cap, and the greatest on arm64.
Calculate(n) ==
    IF n = 0 THEN {0}
    ELSE LET delay == BaseDelay * 2^(n - 1)
         IN  CASE delay > DurationMax -> {-DurationMax - 1, MaxDelay}
               [] delay \in MaxDelay + 1 .. DurationMax -> {MaxDelay}
               [] delay <= MaxDelay -> {delay}

\* Variant: the limit is compared with the count before the failure.
FailAfterLimit ==
    /\ tries' = tries + 1
    /\ since' = 0
    /\ IF tries > MaxRetries
       THEN job' = "dead_letter" /\ UNCHANGED wait
       ELSE job' = "pending" /\ wait' \in Calculate(tries + 1)

\* HandleJobFailure, accepted: the next retry is scheduled, or the job is given up.
Fail ==
    /\ tries' = tries + 1
    /\ since' = 0
    /\ IF tries + 1 > MaxRetries
       THEN job' = "dead_letter" /\ UNCHANGED wait
       ELSE job' = "pending" /\ wait' \in Calculate(tries + 1)

Due == job = "pending" /\ wait <= 0

\* A poll finds the job due.
Claims(w) ==
    /\ job' = "running"
    /\ owner' = w
    /\ runs' = runs \cup {w}
    /\ wait' = 0
    /\ since' = 0
    /\ UNCHANGED tries

\* A poll at any time: a wake-up, or the node's own ticker.
Poll(w) ==
    /\ w = "node" => node = "up"
    /\ w \notin runs
    /\ Due
    /\ Claims(w)
    /\ UNCHANGED <<heart, tickers>>

\* The keeper's poll ticker.
PollTick ==
    /\ pollIn = 0
    /\ pollIn' = PollEvery
    /\ IF Due /\ "keeper" \notin runs THEN Claims("keeper") ELSE UNCHANGED task
    /\ UNCHANGED <<heart, reclaimIn>>

\* HandleJobSuccess asks only for a running job.
Succeeds(w) ==
    /\ w \in runs
    /\ runs' = runs \ {w}
    /\ IF job = "running" THEN job' = "completed" /\ since' = 0
                          ELSE UNCHANGED <<job, since>>
    /\ UNCHANGED <<heart, tickers, owner, tries, wait>>

\* HandleJobFailure asks also for the owner of the latest attempt.
Fails(w) ==
    /\ w \in runs
    /\ runs' = runs \ {w}
    /\ IF job = "running" /\ owner = w THEN Fail ELSE UNCHANGED <<job, tries, wait, since>>
    /\ UNCHANGED <<heart, tickers, owner>>

-----------------------------------------------------------------------------
(* Stale workers, orphans and old jobs *)

\* Variant: the upsert's time limit is not allowed for.
StaleEarly == age > StaleAfter - UpsertLimit - 1

\* last_heartbeat is before the cutoff.
Stale == age > StaleAfter

Prune == row' = IF row = "live" /\ Stale THEN "stopped" ELSE row

\* The metrics command, at any time.
GetMetrics ==
    /\ Prune
    /\ UNCHANGED <<node, elapsed, nextBeat, upsert, misses, age, tickers, task>>

\* Variant: only workers pruned by this very reclaim count.
JustPruned == row = "live" /\ row' = "stopped"

\* The node's row after PruneStale, as the reclaimer reads it.
OwnerIsDead == row' # "live"

\* The keeper's reclaim ticker: PruneStale, then the running job of a dead worker fails.
ReclaimTick ==
    /\ reclaimIn = 0
    /\ reclaimIn' = ReclaimEvery
    /\ Prune
    /\ IF job = "running" /\ owner = "node" /\ OwnerIsDead
       THEN Fail
       ELSE UNCHANGED <<job, tries, wait, since>>
    /\ UNCHANGED <<node, elapsed, nextBeat, upsert, misses, age, pollIn, owner, runs>>

\* updated_at, in UTC, and the cutoff, in the local time of the machine, are compared as
\* text: the zone's offset is added to the cutoff.
OldEnough(zone) == since > OlderThan - zone

PurgeCompleted ==
    /\ job = "completed"
    /\ \E zone \in Zones : OldEnough(zone)
    /\ job' = "deleted"
    /\ UNCHANGED <<heart, tickers, owner, runs, tries, wait, since>>

-----------------------------------------------------------------------------
(* Time *)

\* What must happen now happens before time goes on: tickers fire, contexts expire.
NothingIsDue ==
    /\ node = "starting" => elapsed < StartLimit
    /\ node = "up" => nextBeat > 0
    /\ node = "draining" => elapsed < ExitAfter
    /\ upsert # Idle => upsert < UpsertLimit
    /\ reclaimIn > 0
    /\ pollIn > 0

\* Bounds: on the age of the last heartbeat, and on what happens after the job has settled.
WithinBound ==
    /\ age < MaxAge
    /\ job # "dead_letter" /\ job # "deleted"
    /\ job = "completed" => since <= OlderThan

Tick ==
    /\ NothingIsDue
    /\ WithinBound
    /\ elapsed' = IF node \in {"starting", "draining"} THEN elapsed + 1 ELSE elapsed
    /\ nextBeat' = IF node = "up" THEN nextBeat - 1 ELSE nextBeat
    /\ upsert' = IF upsert = Idle THEN Idle ELSE upsert + 1
    /\ age' = age + 1
    /\ reclaimIn' = reclaimIn - 1
    /\ pollIn' = pollIn - 1
    /\ wait' = IF job = "pending" /\ wait > 0 THEN wait - 1 ELSE wait
    /\ since' = IF job \in {"pending", "completed"} THEN since + 1 ELSE since
    /\ UNCHANGED <<node, misses, row, job, owner, runs, tries>>

-----------------------------------------------------------------------------
Heart ==
    \/ StartTicker \/ Beat \/ UpsertCommits \/ UpsertFails
    \/ Signal \/ Unregister \/ Crash \/ ForcedExit

Queue ==
    \/ \E w \in Workers : Poll(w) \/ Succeeds(w) \/ Fails(w)
    \/ PollTick \/ GetMetrics \/ ReclaimTick \/ PurgeCompleted

Next == Heart \/ Queue \/ Tick

Spec == Init /\ [][Next]_vars

-----------------------------------------------------------------------------
(* Safety *)

\* A heartbeat is written at most this late while the node is up.
Slack == StartLimit + (MaxMisses + 1) * HeartbeatEvery + UpsertLimit

\* docs/PROJECT_OVERVIEW.md: dead nodes are those "missing heartbeats for >30s".  A node
\* that beats is never taken for dead, however slow its upserts are and even if MaxMisses
\* of them fail in a row, and neither is one that drains before the slack is used up.
HealthyIsNotPruned ==
    row = "stopped" =>
        \/ node = "gone"
        \/ node = "draining" /\ elapsed + Slack > StaleAfter

\* TEST_PLAN.md: "A single job must never be picked up by multiple workers concurrently."
\* Two handlers of the job run at once only after a signalled node has drained for longer
\* than the slack its heartbeats leave: not because of slow or missed upserts, whichever
\* of the metrics command and the reclaimer prunes, and whoever is done first.
HealthyRunsAlone ==
    runs = Workers => node = "draining" /\ elapsed + Slack > StaleAfter

\* ARCHITECTURE.md, Auto-Reclamation Engine.  A job whose worker died, or was signalled and
\* hangs, leaves it after at most the time for a heartbeat to go stale and the time to the
\* next reclaim: whichever of the metrics command and the reclaimer prunes the row.
OrphansAreReclaimed ==
    job = "running" /\ owner = "node" => age <= StaleAfter + ReclaimEvery

\* Backoff.Calculate's own words: "baseDelay * 2^(retriesCount - 1), capped at maxDelay".
Documented(n) ==
    IF n = 0 THEN 0
    ELSE IF BaseDelay * 2^(n - 1) > MaxDelay THEN MaxDelay ELSE BaseDelay * 2^(n - 1)

\* The product is a time.Duration.
Converts(n) == n = 0 \/ BaseDelay * 2^(n - 1) <= DurationMax

\* Whoever failed the job, its worker or a reclaimer, no retry starts before its backoff
\* has passed, as long as the backoff can be converted.
RetriesAreSpaced ==
    [][job = "pending" /\ job' = "running" /\ Converts(tries) =>
          since >= Documented(tries)]_vars

\* And none waits longer than until the poll after that, whatever became of the worker.
RetriesAreStarted == job = "pending" => since <= Documented(tries) + PollEvery

\* cli/purge.go: "Delete successfully completed jobs from the database that are older than
\* the specified duration."
PurgeKeepsYoung == [][job' = "deleted" /\ job # "deleted" => since > OlderThan]_vars
=============================================================================

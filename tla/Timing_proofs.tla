---------------------------- MODULE Timing_proofs ----------------------------
(***************************************************************************)
(* The timers of Timing for every choice of durations that leaves room for *)
(* MaxMisses failed upserts and a slow start: who beats is not taken for   *)
(* dead, orphans are reclaimed in time, and retries keep to their backoff. *)
(***************************************************************************)
EXTENDS Timing, TLAPS

-----------------------------------------------------------------------------
(* The inductive invariant *)

\* Slow upserts and misses used up so far.
Used == StartLimit + (misses + 1) * HeartbeatEvery

\* The age of the row's heartbeat, in each phase of the node.
HeartInv ==
    /\ node = "starting" => /\ upsert = Idle /\ misses = 0 /\ row = "live"
                            /\ age <= elapsed /\ elapsed <= StartLimit
    /\ node = "up" => /\ row = "live"
                      /\ upsert = Idle => age + nextBeat <= Used
                      /\ upsert # Idle => /\ age <= Used + upsert
                                          /\ nextBeat + upsert = HeartbeatEvery
    /\ node = "draining" => /\ age <= Slack + elapsed
                            /\ row # "absent"
                            /\ row = "stopped" => elapsed + Slack > StaleAfter
    /\ node = "gone" => upsert = Idle

\* A job of the node that has outlived its worker's row is met by the next reclaim.
OrphanInv ==
    job = "running" /\ owner = "node" /\ age > StaleAfter =>
        age + reclaimIn <= StaleAfter + ReclaimEvery

\* The keeper runs the job only if it is its own, so a pending job finds it free.
KeeperInv ==
    "keeper" \in runs => job # "pending" /\ (job = "running" => owner = "keeper")

\* A handler the node runs is of the job's attempt, or the node drains beyond the slack.
NodeInv ==
    "node" \in runs =>
        /\ node # "gone"
        /\ \/ job = "running" /\ owner = "node"
           \/ node = "draining" /\ elapsed + Slack > StaleAfter

\* Where a pending job stands between its failure and its next start.
BackoffInv ==
    job = "pending" =>
        /\ tries \in 0 .. MaxRetries
        /\ wait > 0 => since + wait <= Documented(tries)
        /\ wait <= 0 => since + pollIn <= Documented(tries) + PollEvery
        /\ Converts(tries) => since + wait >= Documented(tries)

\* A job that runs has a retry to lose or is at its last attempt.
RunningInv == job = "running" => tries <= MaxRetries

TimingInv ==
    TypeOK /\ HeartInv /\ OrphanInv /\ KeeperInv /\ NodeInv /\ BackoffInv /\ RunningInv

-----------------------------------------------------------------------------
(* Arithmetic *)

\* The backoff of a retry, as documented, is a duration, and Calculate returns it whenever
\* it can be converted, and never more.
LEMMA Delays ==
    ASSUME NEW n \in 0 .. MaxRetries
    PROVE  /\ Documented(n) \in Nat
           /\ \A d \in Calculate(n) : /\ d \in Int
                                      /\ d <= Documented(n)
                                      /\ Converts(n) => d = Documented(n)
<1>1. CASE n = 0
  BY <1>1 DEF Documented, Calculate, Converts
<1>2. CASE n # 0
  <2> DEFINE delay == BaseDelay * 2^(n - 1)
  <2>1. delay \in Nat /\ MaxDelay \in Nat /\ DurationMax \in Nat /\ MaxDelay <= DurationMax
    BY <1>2, DelaysAssumption
  <2>2. Documented(n) = IF delay > MaxDelay THEN MaxDelay ELSE delay
    BY <1>2 DEF Documented
  <2>3. Converts(n) <=> delay <= DurationMax
    BY <1>2 DEF Converts
  <2>4. Calculate(n) = CASE delay > DurationMax -> {-DurationMax - 1, MaxDelay}
                         [] delay \in MaxDelay + 1 .. DurationMax -> {MaxDelay}
                         [] delay <= MaxDelay -> {delay}
    BY <1>2 DEF Calculate
  <2> HIDE DEF delay
  <2>5. CASE delay > DurationMax
    BY <2>1, <2>2, <2>3, <2>4, <2>5
  <2>6. CASE delay \in MaxDelay + 1 .. DurationMax
    BY <2>1, <2>2, <2>3, <2>4, <2>6
  <2>7. CASE delay <= MaxDelay
    BY <2>1, <2>2, <2>3, <2>4, <2>7
  <2> QED
    BY <2>1, <2>5, <2>6, <2>7
<1> QED
  BY <1>1, <1>2

\* Each miss adds one interval, up to MaxMisses of them.
LEMMA Intervals ==
    ASSUME NEW m \in 0 .. MaxMisses
    PROVE  /\ (m + 1) * HeartbeatEvery \in Nat
           /\ (m + 2) * HeartbeatEvery = (m + 1) * HeartbeatEvery + HeartbeatEvery
           /\ (m + 1) * HeartbeatEvery <= (MaxMisses + 1) * HeartbeatEvery
<1>1. HeartbeatEvery \in Nat /\ MaxMisses \in Nat
  BY TimersAssumption
<1>2. (m + 1) * HeartbeatEvery \in Nat
  BY <1>1
<1>3. (m + 2) * HeartbeatEvery = (m + 1) * HeartbeatEvery + HeartbeatEvery
  BY <1>1
<1>4. \A k \in Nat : k * HeartbeatEvery >= 0
  BY <1>1
<1>5. (MaxMisses - m) * HeartbeatEvery >= 0
  BY <1>1, <1>4
<1>6. (MaxMisses + 1) * HeartbeatEvery = (m + 1) * HeartbeatEvery
                                             + (MaxMisses - m) * HeartbeatEvery
  BY <1>1
<1> QED
  BY <1>1, <1>2, <1>3, <1>5, <1>6

\* What the intervals used so far leave of the time to grow stale.
LEMMA Room ==
    ASSUME TypeOK
    PROVE  /\ Used \in Nat /\ Slack \in Nat
           /\ Used + UpsertLimit <= Slack
           /\ Slack <= StaleAfter
<1>1. (misses + 1) * HeartbeatEvery \in Nat
      /\ (misses + 1) * HeartbeatEvery <= (MaxMisses + 1) * HeartbeatEvery
  BY Intervals DEF TypeOK
<1>2. (MaxMisses + 1) * HeartbeatEvery \in Nat
  BY TimersAssumption
<1> QED
  BY <1>1, <1>2, TimersAssumption DEF Used, Slack

-----------------------------------------------------------------------------
(* The steps *)

\* The fields keep their types: timers stay within their periods, since time does not
\* pass a timer that is due.
LEMMA TypeStep ==
    ASSUME TimingInv, [Next]_vars
    PROVE  TypeOK'
<1> USE TimersAssumption DEF TimingInv, TypeOK, heart, tickers, task, Idle, Workers
<1>0. MaxRetries \in Nat /\ StartLimit \in Nat
  BY DelaysAssumption
<1>a. ASSUME Fail, job = "running"
      PROVE  /\ job' \in {"pending", "dead_letter"}
             /\ wait' \in Int /\ since' \in Nat
             /\ tries <= MaxRetries => tries' \in 0 .. MaxRetries + 1
  <2>1. CASE tries + 1 > MaxRetries
    BY <1>0, <1>a, <2>1 DEF Fail
  <2>2. CASE tries + 1 <= MaxRetries
    <3>1. tries + 1 \in 0 .. MaxRetries
      BY <1>0, <2>2
    <3>2. \A d \in Calculate(tries + 1) : d \in Int
      BY <3>1, Delays
    <3> QED
      BY <1>0, <1>a, <2>2, <3>2 DEF Fail
  <2> QED
    BY <1>0, <2>1, <2>2
<1>1. CASE StartTicker
  BY <1>1 DEF StartTicker
<1>2. CASE Beat
  BY <1>2 DEF Beat
<1>3. CASE UpsertCommits
  BY <1>3 DEF UpsertCommits
<1>4. CASE UpsertFails
  BY <1>4 DEF UpsertFails
<1>5. CASE Signal
  BY <1>5 DEF Signal
<1>6. CASE Unregister
  BY <1>6 DEF Unregister
<1>7. CASE Dies
  BY <1>7 DEF Dies
<1>8. ASSUME NEW w \in Workers, Poll(w)
      PROVE  TypeOK'
  BY <1>8 DEF Poll, Claims
<1>9. ASSUME NEW w \in Workers, Succeeds(w)
      PROVE  TypeOK'
  BY <1>9 DEF Succeeds
<1>10. ASSUME NEW w \in Workers, Fails(w)
       PROVE  TypeOK'
  <2>1. CASE job = "running" /\ owner = w
    BY <1>10, <1>a, <2>1 DEF Fails, RunningInv
  <2>2. CASE ~(job = "running" /\ owner = w)
    BY <1>10, <2>2 DEF Fails
  <2> QED
    BY <2>1, <2>2
<1>11. CASE PollTick
  <2>1. CASE Claims("keeper")
    BY <1>11, <2>1 DEF PollTick, Claims
  <2>2. CASE UNCHANGED task
    BY <1>11, <2>2 DEF PollTick
  <2> QED
    BY <1>11, <2>1, <2>2 DEF PollTick
<1>12. CASE GetMetrics
  BY <1>12 DEF GetMetrics, Prune
<1>13. CASE ReclaimTick
  <2>1. row' \in {"live", "stopped", "absent"}
    BY <1>13 DEF ReclaimTick, Prune
  <2>2. CASE job = "running" /\ owner = "node" /\ OwnerIsDead
    BY <1>13, <1>a, <2>1, <2>2 DEF ReclaimTick, RunningInv
  <2>3. CASE ~(job = "running" /\ owner = "node" /\ OwnerIsDead)
    BY <1>13, <2>1, <2>3 DEF ReclaimTick
  <2> QED
    BY <2>2, <2>3
<1>14. CASE PurgeCompleted
  BY <1>14 DEF PurgeCompleted
<1>15. CASE Tick
  BY <1>15 DEF Tick, NothingIsDue, HeartInv
<1>16. CASE UNCHANGED vars
  BY <1>16 DEF vars
<1> QED
  BY <1>1, <1>2, <1>3, <1>4, <1>5, <1>6, <1>7, <1>8, <1>9, <1>10, <1>11, <1>12, <1>13,
     <1>14, <1>15, <1>16
     DEF Next, Heart, Queue, Crash, ForcedExit

\* No heartbeat of a node that beats, or has just stopped beating, grows stale.
LEMMA HeartStep ==
    ASSUME TimingInv, [Next]_vars
    PROVE  HeartInv'
<1> USE TimersAssumption DEF TimingInv, TypeOK, HeartInv, heart, tickers, task, Idle
<1>0. /\ Used \in Nat /\ Slack \in Nat
      /\ Used + UpsertLimit <= Slack
      /\ Slack <= StaleAfter
  BY Room
<1>a. misses' = misses => Used' = Used
  BY DEF Used
<1>b. UNCHANGED Slack
  BY DEF Slack
<1>c. misses = 0 => Used = StartLimit + HeartbeatEvery
  BY DEF Used
<1>1. CASE StartTicker
  BY <1>0, <1>1, <1>a, <1>b, <1>c DEF StartTicker
<1>2. CASE Beat
  BY <1>0, <1>2, <1>a, <1>b DEF Beat
<1>3. CASE UpsertCommits
  <2>1. Used' = StartLimit + HeartbeatEvery
    BY <1>3 DEF UpsertCommits, Used
  <2> QED
    BY <1>0, <1>3, <1>b, <2>1 DEF UpsertCommits
<1>4. CASE UpsertFails
  <2>1. Used' = Used + HeartbeatEvery
    BY <1>4, Intervals DEF UpsertFails, Used
  <2> QED
    BY <1>0, <1>4, <1>b, <2>1 DEF UpsertFails
<1>5. CASE Signal
  BY <1>0, <1>5, <1>a, <1>b DEF Signal
<1>6. CASE Unregister
  BY <1>6 DEF Unregister
<1>7. CASE Dies
  BY <1>7 DEF Dies
<1>8. CASE Prune /\ UNCHANGED <<node, elapsed, nextBeat, upsert, misses, age>>
  BY <1>0, <1>8, <1>a, <1>b DEF Prune, Stale
<1>9. CASE Tick
  BY <1>0, <1>9, <1>a, <1>b DEF Tick, NothingIsDue
<1>10. CASE UNCHANGED heart
  BY <1>10, <1>a, <1>b
<1> QED
  BY <1>1, <1>2, <1>3, <1>4, <1>5, <1>6, <1>7, <1>8, <1>9, <1>10
     DEF Next, Heart, Queue, Crash, ForcedExit, Poll, Succeeds, Fails, PollTick, GetMetrics,
         ReclaimTick, PurgeCompleted, vars

\* A job of the node leaves it before its heartbeat is too old.
LEMMA OrphanStep ==
    ASSUME TimingInv, [Next]_vars
    PROVE  OrphanInv'
<1> USE TimersAssumption DEF TimingInv, TypeOK, OrphanInv, heart, tickers, task, Idle
<1>0. Used \in Nat /\ Used + UpsertLimit <= Slack /\ Slack <= StaleAfter /\ Slack \in Nat
  BY Room
<1>1. ASSUME NEW w \in Workers, Poll(w)
      PROVE  OrphanInv'
  BY <1>0, <1>1 DEF Poll, Claims, HeartInv, Workers
<1>2. ASSUME NEW w \in Workers, Succeeds(w) \/ Fails(w)
      PROVE  OrphanInv'
  BY <1>2 DEF Succeeds, Fails, Fail
<1>3. CASE PollTick
  BY <1>3 DEF PollTick, Claims
<1>4. CASE ReclaimTick
  <2>1. CASE job = "running" /\ owner = "node" /\ age > StaleAfter
    <3>1. OwnerIsDead
      BY <1>4, <2>1 DEF ReclaimTick, Prune, Stale, OwnerIsDead
    <3> QED
      BY <1>4, <2>1, <3>1 DEF ReclaimTick, Fail
  <2>2. CASE job = "running" /\ owner = "node" /\ age <= StaleAfter
    BY <1>4, <2>2 DEF ReclaimTick, Fail
  <2>3. CASE ~(job = "running" /\ owner = "node")
    BY <1>4, <2>3 DEF ReclaimTick
  <2> QED
    BY <2>1, <2>2, <2>3
<1>5. CASE Tick
  BY <1>5 DEF Tick, NothingIsDue
<1>6. CASE GetMetrics \/ PurgeCompleted
  BY <1>6 DEF GetMetrics, PurgeCompleted
<1>7. CASE Heart
  <2>1. age' = age \/ age' \in 0 .. UpsertLimit
    BY <1>7 DEF Heart, StartTicker, Beat, UpsertCommits, UpsertFails, Signal, Unregister,
       Crash, ForcedExit, Dies
  <2>2. UNCHANGED <<job, owner, reclaimIn>>
    BY <1>7 DEF Heart, StartTicker, Beat, UpsertCommits, UpsertFails, Signal, Unregister,
       Crash, ForcedExit, Dies
  <2>3. UpsertLimit <= StaleAfter
    BY <1>0
  <2> QED
    BY <2>1, <2>2, <2>3
<1>8. CASE UNCHANGED vars
  BY <1>8 DEF vars
<1> QED
  BY <1>1, <1>2, <1>3, <1>4, <1>5, <1>6, <1>7, <1>8 DEF Next, Queue

\* The node loses the attempt it runs to a reclaimer only when it has drained for too long.
LEMMA NodeStep ==
    ASSUME TimingInv, [Next]_vars
    PROVE  NodeInv'
<1> USE DEF TimingInv, TypeOK, NodeInv, heart, tickers, task, Workers
<1>0. UNCHANGED Slack
  BY DEF Slack
<1>a. Slack \in Nat /\ StaleAfter \in Nat
  BY Room, TimersAssumption
<1>1. CASE StartTicker \/ Beat \/ UpsertCommits \/ UpsertFails \/ Signal
  BY <1>0, <1>1 DEF StartTicker, Beat, UpsertCommits, UpsertFails, Signal
<1>2. CASE Unregister \/ Dies
  BY <1>2 DEF Unregister, Dies
<1>3. ASSUME NEW w \in Workers, Poll(w)
      PROVE  NodeInv'
  <2>1. CASE w = "node"
    BY <1>0, <1>3, <2>1 DEF Poll, Claims
  <2>2. CASE w = "keeper"
    BY <1>0, <1>3, <2>2 DEF Poll, Due, Claims
  <2> QED
    BY <2>1, <2>2
<1>4. ASSUME NEW w \in Workers, Succeeds(w) \/ Fails(w)
      PROVE  NodeInv'
  BY <1>0, <1>4 DEF Succeeds, Fails, Fail, KeeperInv
<1>5. CASE PollTick
  BY <1>0, <1>5 DEF PollTick, Due, Claims
<1>6. CASE ReclaimTick
  <2>1. CASE job = "running" /\ owner = "node" /\ OwnerIsDead
    <3>1. row' # "live" /\ UNCHANGED <<node, elapsed, runs>>
      BY <1>6, <2>1 DEF ReclaimTick, OwnerIsDead
    <3>2. HeartInv' /\ TypeOK'
      BY HeartStep, TypeStep
    <3>3. node' \in {"draining", "gone"} /\ (node' = "draining" => elapsed' + Slack' > StaleAfter)
      BY <3>1, <3>2 DEF HeartInv
    <3> QED
      BY <1>0, <3>1, <3>3
  <2>2. CASE ~(job = "running" /\ owner = "node" /\ OwnerIsDead)
    BY <1>0, <1>6, <2>2 DEF ReclaimTick
  <2> QED
    BY <2>1, <2>2
<1>7. CASE GetMetrics \/ PurgeCompleted
  BY <1>0, <1>7 DEF GetMetrics, PurgeCompleted
<1>8. CASE Tick
  BY <1>0, <1>a, <1>8 DEF Tick
<1>9. CASE UNCHANGED vars
  BY <1>0, <1>9 DEF vars
<1> QED
  BY <1>1, <1>2, <1>3, <1>4, <1>5, <1>6, <1>7, <1>8, <1>9
     DEF Next, Heart, Queue, Crash, ForcedExit

\* A failed job's backoff runs down in step with its age.
LEMMA FailScheduled ==
    ASSUME TimingInv, Fail, job = "running", pollIn' \in 0 .. PollEvery
    PROVE  BackoffInv' /\ RunningInv'
<1>0. MaxRetries \in Nat /\ PollEvery \in Nat
  BY TimersAssumption, DelaysAssumption
<1>1. CASE tries + 1 > MaxRetries
  BY <1>1 DEF Fail, BackoffInv, RunningInv
<1>2. CASE tries + 1 <= MaxRetries
  <2>1. tries + 1 \in 0 .. MaxRetries
    BY <1>0, <1>2 DEF TimingInv, TypeOK
  <2>2. job' = "pending" /\ tries' = tries + 1 /\ since' = 0 /\ wait' \in Calculate(tries + 1)
    BY <1>0, <1>2 DEF Fail, TimingInv, TypeOK
  <2>3. /\ Documented(tries') \in Nat
        /\ wait' \in Int
        /\ wait' <= Documented(tries')
        /\ Converts(tries') => wait' = Documented(tries')
    BY <2>1, <2>2, Delays
  <2>4. /\ Documented(tries)' = Documented(tries')
        /\ Converts(tries)' = Converts(tries')
    BY DEF Documented, Converts
  <2> QED
    BY <1>0, <2>1, <2>2, <2>3, <2>4 DEF BackoffInv, RunningInv
<1> QED
  BY <1>0, <1>1, <1>2 DEF TimingInv, TypeOK

\* A pending job waits for its backoff and then for the next poll tick.
LEMMA BackoffStep ==
    ASSUME TimingInv, [Next]_vars
    PROVE  KeeperInv' /\ BackoffInv' /\ RunningInv'
<1> USE TimersAssumption DEF TimingInv, heart, tickers, task, Workers
<1>0. MaxRetries \in Nat
  BY DelaysAssumption
<1>a. tries' = tries => /\ Documented(tries)' = Documented(tries)
                        /\ Converts(tries)' = Converts(tries)
  BY DEF Documented, Converts
<1>b. tries \in 0 .. MaxRetries => Documented(tries) \in Nat
  BY Delays
<1>c. pollIn' \in 0 .. PollEvery
  BY TypeStep DEF TypeOK
<1>1. ASSUME UNCHANGED <<job, owner, tries, wait, since, pollIn>>, runs' \subseteq runs
      PROVE  KeeperInv' /\ BackoffInv' /\ RunningInv'
  <2>1. Documented(tries)' = Documented(tries) /\ Converts(tries)' = Converts(tries)
    BY <1>1, <1>a
  <2> QED
    BY <1>1, <2>1 DEF KeeperInv, BackoffInv, RunningInv
<1>2. CASE Heart
  BY <1>1, <1>2 DEF Heart, StartTicker, Beat, UpsertCommits, UpsertFails, Signal, Unregister,
     Crash, ForcedExit, Dies
<1>3. ASSUME NEW w \in Workers, Due, w \notin runs, Claims(w)
      PROVE  KeeperInv' /\ BackoffInv' /\ RunningInv'
  BY <1>0, <1>3 DEF Due, Claims, KeeperInv, BackoffInv, RunningInv
<1>4. ASSUME NEW w \in Workers, Succeeds(w)
      PROVE  KeeperInv' /\ BackoffInv' /\ RunningInv'
  <2>1. CASE job = "running"
    BY <1>4, <2>1 DEF Succeeds, KeeperInv, BackoffInv, RunningInv
  <2>2. CASE job # "running"
    BY <1>1, <1>4, <2>2 DEF Succeeds
  <2> QED
    BY <2>1, <2>2
<1>5. ASSUME NEW w \in Workers, Fails(w)
      PROVE  KeeperInv' /\ BackoffInv' /\ RunningInv'
  <2>1. CASE job = "running" /\ owner = w
    <3>1. Fail /\ "keeper" \notin runs'
      BY <1>5, <2>1 DEF Fails, KeeperInv
    <3> QED
      BY <1>c, <2>1, <3>1, FailScheduled DEF KeeperInv
  <2>2. CASE ~(job = "running" /\ owner = w)
    BY <1>1, <1>5, <2>2 DEF Fails
  <2> QED
    BY <2>1, <2>2
<1>6. CASE PollTick
  <2>1. CASE Due /\ "keeper" \notin runs
    BY <1>3, <1>6, <2>1 DEF PollTick
  <2>2. CASE ~(Due /\ "keeper" \notin runs)
    <3>1. UNCHANGED task /\ (job = "pending" => ~(wait <= 0))
      BY <1>6, <2>2 DEF PollTick, Due, KeeperInv
    <3> QED
      BY <3>1, <1>a DEF KeeperInv, BackoffInv, RunningInv
  <2> QED
    BY <2>1, <2>2
<1>7. CASE GetMetrics
  BY <1>1, <1>7 DEF GetMetrics
<1>8. CASE ReclaimTick
  <2>1. CASE job = "running" /\ owner = "node" /\ OwnerIsDead
    <3>1. Fail /\ "keeper" \notin runs'
      BY <1>8, <2>1 DEF ReclaimTick, KeeperInv
    <3> QED
      BY <1>c, <2>1, <3>1, FailScheduled DEF KeeperInv
  <2>2. CASE ~(job = "running" /\ owner = "node" /\ OwnerIsDead)
    BY <1>1, <1>8, <2>2 DEF ReclaimTick
  <2> QED
    BY <2>1, <2>2
<1>9. CASE PurgeCompleted
  BY <1>9 DEF PurgeCompleted, KeeperInv, BackoffInv, RunningInv
<1>10. CASE Tick
  <2>1. CASE job = "pending"
    <3>1. Documented(tries) \in Nat /\ tries \in 0 .. MaxRetries
      BY <1>b, <2>1 DEF BackoffInv
    <3>2. /\ tries' = tries /\ since' = since + 1 /\ pollIn' = pollIn - 1
          /\ wait' = IF wait > 0 THEN wait - 1 ELSE wait
          /\ UNCHANGED <<job, owner, runs>>
      BY <1>10, <2>1 DEF Tick
    <3>3. wait \in Int /\ since \in Nat /\ pollIn \in 0 .. PollEvery
      BY DEF TypeOK
    <3> QED
      BY <1>a, <1>c, <2>1, <3>1, <3>2, <3>3 DEF KeeperInv, BackoffInv, RunningInv
  <2>2. CASE job # "pending"
    BY <1>10, <2>2 DEF Tick, KeeperInv, BackoffInv, RunningInv
  <2> QED
    BY <2>1, <2>2
<1>11. CASE UNCHANGED vars
  BY <1>1, <1>11 DEF vars
<1> QED
  BY <1>2, <1>3, <1>4, <1>5, <1>6, <1>7, <1>8, <1>9, <1>10, <1>11 DEF Next, Queue, Poll

\* The invariant holds when the node has registered.
LEMMA TimingInit == Init => TimingInv
<1> SUFFICES ASSUME Init
             PROVE  TimingInv
  OBVIOUS
<1> USE TimersAssumption, DelaysAssumption DEF Init, Idle
<1>1. TypeOK
  BY DEF TypeOK, Workers
<1>2. Documented(tries) = 0 /\ Converts(tries)
  BY DEF Documented, Converts
<1> QED
  BY <1>1, <1>2 DEF TimingInv, HeartInv, OrphanInv, KeeperInv, NodeInv, BackoffInv, RunningInv

LEMMA TimingStep == TimingInv /\ [Next]_vars => TimingInv'
BY TypeStep, HeartStep, OrphanStep, NodeStep, BackoffStep DEF TimingInv

\* Every reachable state satisfies the invariant.
THEOREM TimingHolds == Spec => []TimingInv
BY TimingInit, TimingStep, PTL DEF Spec

\* The fields keep their types.
THEOREM TimersTyped == Spec => []TypeOK
<1>1. TimingInv => TypeOK
  BY DEF TimingInv
<1> QED
  BY <1>1, TimingHolds, PTL

\* For all durations with room for the misses assumed, no node that beats is taken for dead.
THEOREM HealthyNodesAreNotPruned == Spec => []HealthyIsNotPruned
<1>1. TimingInv => HealthyIsNotPruned
  BY DEF TimingInv, TypeOK, HeartInv, HealthyIsNotPruned
<1> QED
  BY <1>1, TimingHolds, PTL

\* For all durations with room for the misses assumed, the job has two handlers at once only
\* when a signalled node has drained beyond the slack.
THEOREM HealthyNodesRunAlone == Spec => []HealthyRunsAlone
<1>1. TimingInv => HealthyRunsAlone
  BY DEF TimingInv, KeeperInv, NodeInv, HealthyRunsAlone, Workers
<1> QED
  BY <1>1, TimingHolds, PTL

\* For all durations, a job outlives its worker's last heartbeat by no more than the time to
\* notice and the time to reclaim.
THEOREM OrphansAreReclaimedInTime == Spec => []OrphansAreReclaimed
<1>1. TimingInv => OrphansAreReclaimed
  BY TimersAssumption DEF TimingInv, TypeOK, OrphanInv, OrphansAreReclaimed
<1> QED
  BY <1>1, TimingHolds, PTL

\* For all delays and limits, a retry is started at the latest by the poll after its backoff.
THEOREM RetriesAreStartedInTime == Spec => []RetriesAreStarted
<1>1. TimingInv => RetriesAreStarted
  <2> SUFFICES ASSUME TimingInv, job = "pending"
               PROVE  since <= Documented(tries) + PollEvery
    BY DEF RetriesAreStarted
  <2>1. Documented(tries) \in Nat
    BY Delays DEF TimingInv, BackoffInv
  <2> QED
    BY <2>1, TimersAssumption DEF TimingInv, TypeOK, BackoffInv
<1> QED
  BY <1>1, TimingHolds, PTL

\* For all delays and limits, no retry is started before its backoff, while that is a duration.
THEOREM RetriesAreSpacedOut == Spec => RetriesAreSpaced
<1> DEFINE Spaced == job = "pending" /\ job' = "running" /\ Converts(tries) =>
                         since >= Documented(tries)
<1>1. TimingInv /\ [Next]_vars => [Spaced]_vars
  <2> SUFFICES ASSUME TimingInv, Next, job = "pending", job' = "running", Converts(tries)
               PROVE  since >= Documented(tries)
    OBVIOUS
  <2>1. Due
    BY DEF Next, Heart, Queue, StartTicker, Beat, UpsertCommits, UpsertFails, Signal,
       Unregister, Crash, ForcedExit, Dies, Poll, Succeeds, Fails, PollTick, GetMetrics,
       ReclaimTick, PurgeCompleted, Tick, heart, tickers, task
  <2>2. Documented(tries) \in Nat
    BY Delays DEF TimingInv, BackoffInv
  <2> QED
    BY <2>1, <2>2 DEF Due, TimingInv, TypeOK, BackoffInv
<1> QED
  BY <1>1, TimingHolds, PTL DEF Spec, RetriesAreSpaced
=============================================================================

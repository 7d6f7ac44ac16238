------------------------- MODULE WorkerPool_proofs -------------------------
(***************************************************************************)
(* Safety of WorkerPool for any number of slots: each slot is accounted    *)
(* for, a signalled process drains, no heartbeat follows the unregistering,*)
(* and a wake-up is lost only in the ways the code provides for.           *)
(***************************************************************************)
EXTENDS WorkerPoolProcess, TLAPS

-----------------------------------------------------------------------------
(* The inductive invariant *)

\* The wait group counts the executors that have not called Done.
GroupInv == wg = at["run"] + at["release"] + at["done"]

\* Nobody but the main loop has called Stop: until it does, the once is fresh and stopChan
\* is open; past Stop, or before any poll, the wait group is empty.
SignalInv ==
    caller = "idle" =>
        /\ main = "register" => wg = 0
        /\ main \notin {"wait", "deferred", "unregister", "returned"} =>
              once = "fresh" /\ ~stopChan
        /\ main = "wait" => once = "running"
        /\ main # "blocked"
        /\ main \in {"deferred", "unregister", "returned"} => wg = 0
        /\ main \in {"wait", "deferred", "unregister"} => ctxDone
        /\ main = "returned" /\ beat # "off" => ctxDone

\* The heartbeat goroutine lives from the start of the loop to the unregistering.  Before
\* it no job is polled for, so there are no executors.
BeatInv ==
    /\ main = "register" => beat = "off"
    /\ beat = "off" => /\ main \in {"register", "reclaim", "notify", "returned"}
                       /\ \A s \in ExecStep : at[s] = 0
    /\ main = "unregister" => beat = "done"
    /\ main = "returned" => beat \in {"off", "done"}

\* The one call of Stop that waits for the executors, and where the others are meanwhile.
OnceInv ==
    /\ once = "running" <=> main = "wait" \/ caller = "wait"
    /\ ~(main = "wait" /\ caller = "wait")
    /\ main = "blocked" \/ caller = "blocked" => once # "fresh"
    /\ main \in {"wait", "blocked", "deferred"} \/ once # "fresh" => stopChan

\* Each pending job that is not late has its own call of Notify, wake-up or poll to come.
WakeInv ==
    /\ pending <= arrived
    /\ ~late => pending <= announcing + (IF wake THEN 1 ELSE 0)
                                      + (IF main = "fetch" THEN 1 ELSE 0)

Inductive ==
    TypeOK /\ SlotsAreHeld /\ GroupInv /\ SignalInv /\ BeatInv /\ OnceInv /\ WakeInv

-----------------------------------------------------------------------------

\* Types are preserved; the counters stay natural because they count executors.
LEMMA TypeStep ==
    ASSUME Inductive, [Next]_vars
    PROVE  TypeOK'
<1> USE PoolAssumption DEF Inductive, TypeOK, SlotsAreHeld, HoldsSlot, GroupInv, shared, work,
           MainStep, CallerStep, ExecStep
<1>1. CASE Register
  BY <1>1 DEF Register
<1>2. CASE RegisterFails
  BY <1>2 DEF RegisterFails
<1>3. CASE Reclaim
  BY <1>3 DEF Reclaim
<1>4. CASE OrphanReclaimed
  BY <1>4 DEF OrphanReclaimed
<1>5. CASE NothingToReclaim
  BY <1>5 DEF NothingToReclaim, EndReclaim
<1>6. CASE NotifyReclaimed
  BY <1>6 DEF NotifyReclaimed, EndReclaim
<1>7. CASE PollTick
  BY <1>7 DEF PollTick
<1>8. CASE TakeWake
  <2>1. wake' \in BOOLEAN
    BY <1>8 DEF TakeWake
  <2>2. sem' \in Nat
    BY <1>8 DEF TakeWake, WakePolls, WakeThrottled
  <2>3. main' \in MainStep
    BY <1>8 DEF TakeWake, WakePolls, WakeThrottled
  <2>4. late' \in BOOLEAN
    <3>1. CASE WakePolls
      BY <3>1 DEF WakePolls
    <3>2. CASE WakeThrottled
      BY <3>2 DEF WakeThrottled
    <3> QED
      BY <1>8, <3>1, <3>2 DEF TakeWake
  <2>5. UNCHANGED <<beat, caller, at, wg, once, stopChan, ctxDone, node, row,
                   announcing, pending, arrived>>
    BY <1>8 DEF TakeWake
  <2> QED
    BY <2>1, <2>2, <2>3, <2>4, <2>5
<1>9. CASE NothingFound
  BY <1>9 DEF NothingFound
<1>10. CASE JobFound
  BY <1>10 DEF JobFound, LeavesQueue
<1>11. CASE SetActive
  BY <1>11 DEF SetActive
<1>12. CASE UpsertActive
  BY <1>12 DEF UpsertActive, MaybeUpsert
<1>13. CASE Spawn
  BY <1>13 DEF Spawn
<1>14. CASE SeeCancel
  BY <1>14 DEF SeeCancel, Stop, EnterStop
<1>15. CASE SeeStop
  BY <1>15 DEF SeeStop
<1>16. CASE FinishStop
  BY <1>16 DEF FinishStop, Drained
<1>17. CASE AwaitOnce
  BY <1>17 DEF AwaitOnce
<1>18. CASE JoinHeartbeat
  BY <1>18 DEF JoinHeartbeat, HeartbeatJoined
<1>19. CASE Unregister
  BY <1>19 DEF Unregister
<1>20. CASE Beat
  BY <1>20 DEF Beat
<1>21. CASE BeatUpsert
  <2>1. row' \in BOOLEAN
    BY <1>21 DEF BeatUpsert, MaybeUpsert
  <2> QED
    BY <1>21, <2>1 DEF BeatUpsert
<1>22. CASE BeatStops
  BY <1>22 DEF BeatStops
<1>23. CASE HandlerEnds
  BY <1>23 DEF HandlerEnds, Advance
<1>24. CASE ReleaseSlot
  BY <1>24 DEF ReleaseSlot, Advance
<1>25. CASE LeaveGroup
  BY <1>25 DEF LeaveGroup, Advance, WgDone
<1>26. CASE SeeUnused
  BY <1>26 DEF SeeUnused, Advance
<1>27. CASE SeeUsed
  BY <1>27 DEF SeeUsed, End
<1>28. CASE SetIdle
  BY <1>28 DEF SetIdle, Advance
<1>29. CASE UpsertIdle
  <2>1. row' \in BOOLEAN
    BY <1>29 DEF UpsertIdle, MaybeUpsert
  <2>2. at' \in [ExecStep -> Nat]
    BY <1>29 DEF UpsertIdle, End
  <2> QED
    BY <1>29, <2>1, <2>2 DEF UpsertIdle
<1>30. CASE CallStop
  BY <1>30 DEF CallStop, Stop, EnterStop
<1>31. CASE CallerDrained
  BY <1>31 DEF CallerDrained, Drained
<1>32. CASE CallerAwaitsOnce
  BY <1>32 DEF CallerAwaitsOnce
<1>33. CASE Cancel
  BY <1>33 DEF Cancel
<1>34. CASE Insert
  <2>1. pending' \in 0 .. MaxJobs /\ arrived' \in 0 .. MaxJobs
    BY <1>34 DEF Insert, Arrives, WakeInv
  <2> QED
    BY <1>34, <2>1 DEF Insert
<1>35. CASE Announce
  BY <1>35 DEF Announce
<1>36. CASE ReadyUnannounced
  <2>1. pending' \in 0 .. MaxJobs /\ arrived' \in 0 .. MaxJobs
    BY <1>36 DEF ReadyUnannounced, Arrives, WakeInv
  <2> QED
    BY <1>36, <2>1 DEF ReadyUnannounced
<1>37. CASE TakenElsewhere
  BY <1>37 DEF TakenElsewhere, LeavesQueue
<1>38. CASE SchedulerTick
  BY <1>38 DEF SchedulerTick
<1>39. CASE UNCHANGED vars
  BY <1>39 DEF vars
<1> QED
  BY <1>1, <1>2, <1>3, <1>4, <1>5, <1>6, <1>7, <1>8, <1>9, <1>10, <1>11, <1>12, <1>13,
     <1>14, <1>15, <1>16, <1>17, <1>18, <1>19, <1>20, <1>21, <1>22, <1>23, <1>24, <1>25,
     <1>26, <1>27, <1>28, <1>29, <1>30, <1>31, <1>32, <1>33, <1>34, <1>35, <1>36, <1>37,
     <1>38, <1>39
     DEF Next, Main, Reclaims, Poll, Leave, Heartbeats, Executor, Caller, Queue

\* Every step keeps the semaphore and the wait group in step with the executors.
LEMMA CountStep ==
    ASSUME Inductive, [Next]_vars
    PROVE  SlotsAreHeld' /\ GroupInv'
<1> USE PoolAssumption DEF Inductive, TypeOK, SlotsAreHeld, HoldsSlot, GroupInv, shared, work,
           MainStep, ExecStep
<1>1. CASE Register
  BY <1>1 DEF Register
<1>2. CASE RegisterFails
  BY <1>2 DEF RegisterFails
<1>3. CASE Reclaim
  BY <1>3 DEF Reclaim
<1>4. CASE OrphanReclaimed
  BY <1>4 DEF OrphanReclaimed
<1>5. CASE NothingToReclaim
  BY <1>5 DEF NothingToReclaim, EndReclaim
<1>6. CASE NotifyReclaimed
  BY <1>6 DEF NotifyReclaimed, EndReclaim
<1>7. CASE PollTick
  BY <1>7 DEF PollTick
<1>8. CASE TakeWake
  BY <1>8 DEF TakeWake, WakePolls, WakeThrottled
<1>9. CASE NothingFound
  BY <1>9 DEF NothingFound
<1>10. CASE JobFound
  BY <1>10 DEF JobFound, LeavesQueue
<1>11. CASE SetActive
  BY <1>11 DEF SetActive
<1>12. CASE UpsertActive
  BY <1>12 DEF UpsertActive, MaybeUpsert
<1>13. CASE Spawn
  BY <1>13 DEF Spawn
<1>14. CASE SeeCancel
  BY <1>14 DEF SeeCancel, Stop, EnterStop
<1>15. CASE SeeStop
  BY <1>15 DEF SeeStop
<1>16. CASE FinishStop
  BY <1>16 DEF FinishStop, Drained
<1>17. CASE AwaitOnce
  BY <1>17 DEF AwaitOnce
<1>18. CASE JoinHeartbeat
  BY <1>18 DEF JoinHeartbeat, HeartbeatJoined
<1>19. CASE Unregister
  BY <1>19 DEF Unregister
<1>20. CASE Beat
  BY <1>20 DEF Beat
<1>21. CASE BeatUpsert
  BY <1>21 DEF BeatUpsert, MaybeUpsert
<1>22. CASE BeatStops
  BY <1>22 DEF BeatStops
<1>23. CASE HandlerEnds
  BY <1>23 DEF HandlerEnds, Advance
<1>24. CASE ReleaseSlot
  BY <1>24 DEF ReleaseSlot, Advance
<1>25. CASE LeaveGroup
  BY <1>25 DEF LeaveGroup, Advance, WgDone
<1>26. CASE SeeUnused
  BY <1>26 DEF SeeUnused, Advance
<1>27. CASE SeeUsed
  BY <1>27 DEF SeeUsed, End
<1>28. CASE SetIdle
  BY <1>28 DEF SetIdle, Advance
<1>29. CASE UpsertIdle
  BY <1>29 DEF UpsertIdle, End, MaybeUpsert
<1>30. CASE CallStop
  BY <1>30 DEF CallStop, Stop, EnterStop
<1>31. CASE CallerDrained
  BY <1>31 DEF CallerDrained, Drained
<1>32. CASE CallerAwaitsOnce
  BY <1>32 DEF CallerAwaitsOnce
<1>33. CASE Cancel
  BY <1>33 DEF Cancel
<1>34. CASE Insert
  BY <1>34 DEF Insert, Arrives
<1>35. CASE Announce
  BY <1>35 DEF Announce
<1>36. CASE ReadyUnannounced
  BY <1>36 DEF ReadyUnannounced, Arrives
<1>37. CASE TakenElsewhere
  BY <1>37 DEF TakenElsewhere, LeavesQueue
<1>38. CASE SchedulerTick
  BY <1>38 DEF SchedulerTick
<1>39. CASE UNCHANGED vars
  BY <1>39 DEF vars
<1> QED
  BY <1>1, <1>2, <1>3, <1>4, <1>5, <1>6, <1>7, <1>8, <1>9, <1>10, <1>11, <1>12, <1>13,
     <1>14, <1>15, <1>16, <1>17, <1>18, <1>19, <1>20, <1>21, <1>22, <1>23, <1>24, <1>25,
     <1>26, <1>27, <1>28, <1>29, <1>30, <1>31, <1>32, <1>33, <1>34, <1>35, <1>36, <1>37,
     <1>38, <1>39
     DEF Next, Main, Reclaims, Poll, Leave, Heartbeats, Executor, Caller, Queue

\* Every step keeps the order of a shutdown: stop, drain, join the heartbeat, unregister.
LEMMA StopStep ==
    ASSUME Inductive, [Next]_vars
    PROVE  SignalInv' /\ BeatInv'
<1> USE DEF Inductive, TypeOK, SignalInv, BeatInv, shared, work, MainStep, CallerStep
<1>0. \A s \in ExecStep : at[s] > 0 => beat # "off"
  OBVIOUS
<1>1. CASE Register
  BY <1>1 DEF Register
<1>2. CASE RegisterFails
  BY <1>2 DEF RegisterFails
<1>3. CASE Reclaim
  BY <1>3 DEF Reclaim
<1>4. CASE OrphanReclaimed
  BY <1>4 DEF OrphanReclaimed
<1>5. CASE NothingToReclaim
  BY <1>5 DEF NothingToReclaim, EndReclaim
<1>6. CASE NotifyReclaimed
  BY <1>6 DEF NotifyReclaimed, EndReclaim
<1>7. CASE PollTick
  BY <1>7 DEF PollTick
<1>8. CASE TakeWake
  BY <1>8 DEF TakeWake, WakePolls, WakeThrottled
<1>9. CASE NothingFound
  BY <1>9 DEF NothingFound
<1>10. CASE JobFound
  BY <1>10 DEF JobFound, LeavesQueue
<1>11. CASE SetActive
  BY <1>11 DEF SetActive
<1>12. CASE UpsertActive
  BY <1>12 DEF UpsertActive, MaybeUpsert
<1>13. CASE Spawn
  BY <1>13 DEF Spawn
<1>14. CASE SeeCancel
  BY <1>14 DEF SeeCancel, Stop, EnterStop
<1>15. CASE SeeStop
  BY <1>15 DEF SeeStop
<1>16. CASE FinishStop
  BY <1>16 DEF FinishStop, Drained
<1>17. CASE AwaitOnce
  BY <1>17 DEF AwaitOnce
<1>18. CASE JoinHeartbeat
  BY <1>18 DEF JoinHeartbeat, HeartbeatJoined
<1>19. CASE Unregister
  BY <1>19 DEF Unregister
<1>20. CASE Beat
  BY <1>20 DEF Beat
<1>21. CASE BeatUpsert
  BY <1>21 DEF BeatUpsert, MaybeUpsert
<1>22. CASE BeatStops
  BY <1>22 DEF BeatStops
<1>23. CASE HandlerEnds
  BY <1>0, <1>23 DEF HandlerEnds, Advance, ExecStep
<1>24. CASE ReleaseSlot
  BY <1>0, <1>24 DEF ReleaseSlot, Advance, ExecStep
<1>25. CASE LeaveGroup
  <2>1. wg > 0
    BY <1>25 DEF LeaveGroup, Advance, GroupInv, ExecStep
  <2> QED
    BY <1>0, <1>25, <2>1 DEF LeaveGroup, Advance, ExecStep
<1>26. CASE SeeUnused
  BY <1>0, <1>26 DEF SeeUnused, Advance, ExecStep
<1>27. CASE SeeUsed
  BY <1>27 DEF SeeUsed, End
<1>28. CASE SetIdle
  BY <1>0, <1>28 DEF SetIdle, Advance, ExecStep
<1>29. CASE UpsertIdle
  BY <1>29 DEF UpsertIdle, End, MaybeUpsert
<1>30. CASE CallStop
  BY <1>30 DEF CallStop, Stop, EnterStop
<1>31. CASE CallerDrained
  BY <1>31 DEF CallerDrained, Drained
<1>32. CASE CallerAwaitsOnce
  BY <1>32 DEF CallerAwaitsOnce
<1>33. CASE Cancel
  BY <1>33 DEF Cancel
<1>34. CASE Insert
  BY <1>34 DEF Insert, Arrives
<1>35. CASE Announce
  BY <1>35 DEF Announce
<1>36. CASE ReadyUnannounced
  BY <1>36 DEF ReadyUnannounced, Arrives
<1>37. CASE TakenElsewhere
  BY <1>37 DEF TakenElsewhere, LeavesQueue
<1>38. CASE SchedulerTick
  BY <1>38 DEF SchedulerTick
<1>39. CASE UNCHANGED vars
  BY <1>39 DEF vars
<1> QED
  BY <1>1, <1>2, <1>3, <1>4, <1>5, <1>6, <1>7, <1>8, <1>9, <1>10, <1>11, <1>12, <1>13,
     <1>14, <1>15, <1>16, <1>17, <1>18, <1>19, <1>20, <1>21, <1>22, <1>23, <1>24, <1>25,
     <1>26, <1>27, <1>28, <1>29, <1>30, <1>31, <1>32, <1>33, <1>34, <1>35, <1>36, <1>37,
     <1>38, <1>39
     DEF Next, Main, Reclaims, Poll, Leave, Heartbeats, Executor, Caller, Queue

\* Every step keeps the calls of Stop apart: one waits for the executors, at most.
LEMMA OnceStep ==
    ASSUME Inductive, [Next]_vars
    PROVE  OnceInv'
<1> USE DEF Inductive, TypeOK, OnceInv, shared, work, MainStep, CallerStep
<1>1. CASE SeeCancel
  BY <1>1 DEF SeeCancel, Stop, EnterStop
<1>2. CASE SeeStop
  BY <1>2 DEF SeeStop
<1>3. CASE FinishStop
  BY <1>3 DEF FinishStop
<1>4. CASE AwaitOnce \/ JoinHeartbeat \/ Unregister
  BY <1>4 DEF AwaitOnce, JoinHeartbeat, Unregister
<1>5. CASE CallStop
  BY <1>5 DEF CallStop, Stop, EnterStop
<1>6. CASE CallerDrained
  BY <1>6 DEF CallerDrained
<1>7. CASE CallerAwaitsOnce
  BY <1>7 DEF CallerAwaitsOnce
<1>8. ASSUME UNCHANGED <<caller, once, stopChan>>,
             \/ UNCHANGED main
             \/ {main, main'} \cap {"wait", "blocked", "deferred"} = {}
      PROVE  OnceInv'
  BY <1>8
<1>9. CASE Register \/ RegisterFails \/ Reclaims
  BY <1>8, <1>9
     DEF Register, RegisterFails, Reclaims, Reclaim, OrphanReclaimed, NothingToReclaim,
         NotifyReclaimed, EndReclaim
<1>10. CASE Poll
  BY <1>8, <1>10
     DEF Poll, PollTick, TakeWake, WakePolls, WakeThrottled, NothingFound, JobFound,
         SetActive, UpsertActive, Spawn
<1>11. CASE Heartbeats \/ Executor \/ Cancel
  BY <1>8, <1>11
     DEF Heartbeats, Beat, BeatUpsert, BeatStops, Executor, HandlerEnds, ReleaseSlot,
         LeaveGroup, SeeUnused, SeeUsed, SetIdle, UpsertIdle, Cancel
<1>12. CASE Queue \/ UNCHANGED vars
  BY <1>8, <1>12
     DEF Queue, Insert, Announce, ReadyUnannounced, TakenElsewhere, SchedulerTick, vars
<1> QED
  BY <1>1, <1>2, <1>3, <1>4, <1>5, <1>6, <1>7, <1>9, <1>10, <1>11, <1>12
     DEF Next, Main, Leave, Caller

\* Every step keeps a wake-up, or a poll, in store for the jobs that are not late.
LEMMA WakeStep ==
    ASSUME Inductive, [Next]_vars
    PROVE  WakeInv'
<1> USE PoolAssumption DEF Inductive, TypeOK, WakeInv, shared, work, MainStep
<1>1. CASE Register
  BY <1>1 DEF Register
<1>2. CASE RegisterFails
  BY <1>2 DEF RegisterFails
<1>3. CASE Reclaim
  BY <1>3 DEF Reclaim
<1>4. CASE OrphanReclaimed
  BY <1>4 DEF OrphanReclaimed
<1>5. CASE NothingToReclaim
  BY <1>5 DEF NothingToReclaim, EndReclaim
<1>6. CASE NotifyReclaimed
  BY <1>6 DEF NotifyReclaimed, EndReclaim
<1>7. CASE PollTick
  BY <1>7 DEF PollTick
<1>8. CASE TakeWake
  <2>1. CASE WakePolls
    BY <1>8, <2>1 DEF TakeWake, WakePolls
  <2>2. CASE WakeThrottled /\ pending > 0
    <3>1. late' = TRUE /\ pending' = pending /\ arrived' = arrived
      BY <1>8, <2>2 DEF TakeWake, WakeThrottled
    <3> QED
      BY <3>1
  <2>3. CASE WakeThrottled /\ ~(pending > 0)
    BY <1>8, <2>3 DEF TakeWake, WakeThrottled
  <2> QED
    BY <1>8, <2>1, <2>2, <2>3 DEF TakeWake
<1>9. CASE NothingFound
  <2>1. CASE pending > 0
    <3>1. late' = TRUE /\ pending' = pending /\ arrived' = arrived
      BY <1>9, <2>1 DEF NothingFound
    <3> QED
      BY <3>1
  <2>2. CASE ~(pending > 0)
    BY <1>9, <2>2 DEF NothingFound
  <2> QED
    BY <2>1, <2>2
<1>10. CASE JobFound
  BY <1>10 DEF JobFound, LeavesQueue
<1>11. CASE SetActive
  BY <1>11 DEF SetActive
<1>12. CASE UpsertActive
  BY <1>12 DEF UpsertActive
<1>13. CASE Spawn
  BY <1>13 DEF Spawn
<1>14. CASE SeeCancel
  BY <1>14 DEF SeeCancel, EnterStop
<1>15. CASE SeeStop
  BY <1>15 DEF SeeStop
<1>16. CASE FinishStop
  BY <1>16 DEF FinishStop
<1>17. CASE AwaitOnce
  BY <1>17 DEF AwaitOnce
<1>18. CASE JoinHeartbeat
  BY <1>18 DEF JoinHeartbeat
<1>19. CASE Unregister
  BY <1>19 DEF Unregister
<1>20. CASE Beat
  BY <1>20 DEF Beat
<1>21. CASE BeatUpsert
  BY <1>21 DEF BeatUpsert
<1>22. CASE BeatStops
  BY <1>22 DEF BeatStops
<1>23. CASE HandlerEnds
  BY <1>23 DEF HandlerEnds
<1>24. CASE ReleaseSlot
  BY <1>24 DEF ReleaseSlot
<1>25. CASE LeaveGroup
  BY <1>25 DEF LeaveGroup
<1>26. CASE SeeUnused
  BY <1>26 DEF SeeUnused
<1>27. CASE SeeUsed
  BY <1>27 DEF SeeUsed
<1>28. CASE SetIdle
  BY <1>28 DEF SetIdle
<1>29. CASE UpsertIdle
  BY <1>29 DEF UpsertIdle
<1>30. CASE CallStop
  BY <1>30 DEF CallStop, EnterStop
<1>31. CASE CallerDrained
  BY <1>31 DEF CallerDrained
<1>32. CASE CallerAwaitsOnce
  BY <1>32 DEF CallerAwaitsOnce
<1>33. CASE Cancel
  BY <1>33 DEF Cancel
<1>34. CASE Insert
  BY <1>34 DEF Insert, Arrives
<1>35. CASE Announce
  BY <1>35 DEF Announce
<1>36. CASE ReadyUnannounced
  BY <1>36 DEF ReadyUnannounced, Arrives
<1>37. CASE TakenElsewhere
  BY <1>37 DEF TakenElsewhere, LeavesQueue
<1>38. CASE SchedulerTick
  BY <1>38 DEF SchedulerTick
<1>39. CASE UNCHANGED vars
  BY <1>39 DEF vars
<1> QED
  BY <1>1, <1>2, <1>3, <1>4, <1>5, <1>6, <1>7, <1>8, <1>9, <1>10, <1>11, <1>12, <1>13,
     <1>14, <1>15, <1>16, <1>17, <1>18, <1>19, <1>20, <1>21, <1>22, <1>23, <1>24, <1>25,
     <1>26, <1>27, <1>28, <1>29, <1>30, <1>31, <1>32, <1>33, <1>34, <1>35, <1>36, <1>37,
     <1>38, <1>39
     DEF Next, Main, Reclaims, Poll, Leave, Heartbeats, Executor, Caller, Queue

\* The invariant holds before Start.
LEMMA InductiveInit == Init => Inductive
<1> SUFFICES ASSUME Init
             PROVE  Inductive
  OBVIOUS
<1>1. TypeOK
  <2>1. at \in [ExecStep -> Nat] /\ pending \in 0 .. MaxJobs /\ arrived \in 0 .. MaxJobs
    BY PoolAssumption DEF Init
  <2>2. /\ stopChan \in BOOLEAN /\ ctxDone \in BOOLEAN /\ row \in BOOLEAN
        /\ wake \in BOOLEAN /\ late \in BOOLEAN
    BY DEF Init
  <2> QED
    BY <2>1, <2>2 DEF Init, TypeOK, MainStep, CallerStep
<1>2. SlotsAreHeld /\ GroupInv
  BY PoolAssumption DEF Init, SlotsAreHeld, HoldsSlot, GroupInv, ExecStep
<1>3. SignalInv /\ BeatInv /\ WakeInv
  BY DEF Init, SignalInv, BeatInv, WakeInv
<1>4. OnceInv
  BY DEF Init, OnceInv
<1> QED
  BY <1>1, <1>2, <1>3, <1>4 DEF Inductive

\* Every step preserves it.
LEMMA InductiveStep == Inductive /\ [Next]_vars => Inductive'
BY TypeStep, CountStep, StopStep, OnceStep, WakeStep DEF Inductive

\* Every reachable state satisfies the invariant.
THEOREM InductiveHolds == Spec => []Inductive
BY InductiveInit, InductiveStep, PTL DEF Spec

\* Slots, the wait group and the counts of executors and jobs never fall below zero, on any
\* path of a poll, an executor or a shutdown.
THEOREM TypeCorrect == Spec => []TypeOK
<1>1. Inductive => TypeOK
  BY DEF Inductive
<1> QED
  BY <1>1, InductiveHolds, PTL

\* Whatever the number of slots, none is lost or released twice.
THEOREM SlotsAreNeverLost == Spec => []SlotsAreHeld
<1>1. Inductive => SlotsAreHeld
  BY DEF Inductive
<1> QED
  BY <1>1, InductiveHolds, PTL

\* However many slots, callers and jobs there are, an announced job that waits alone has a
\* wake-up or a poll coming, unless that was throttled or failed.
THEOREM WakeUpsAreKept == Spec => []WakeUpsAreNotLost
<1>1. Inductive => WakeUpsAreNotLost
  BY DEF Inductive, TypeOK, WakeInv, WakeUpsAreNotLost
<1> QED
  BY <1>1, InductiveHolds, PTL

\* A signalled process has no handler running when its node is unregistered.
THEOREM SignalledPoolDrains == Spec => []DrainsOnSignal
<1>1. Inductive => DrainsOnSignal
  BY DEF Inductive, TypeOK, GroupInv, SignalInv, DrainsOnSignal, ExecStep
<1> QED
  BY <1>1, InductiveHolds, PTL

\* Whatever the number of slots, jobs and callers, and whichever of the signal and two calls
\* of Stop comes first, nobody waits for somebody who waits for them.
THEOREM WaitsEnd == Spec => []NoCircularWait
<1>1. Inductive => NoCircularWait
  BY DEF Inductive, TypeOK, GroupInv, OnceInv, BeatInv, NoCircularWait, MustStopBeating
<1> QED
  BY <1>1, InductiveHolds, PTL

\* After the unregistering no heartbeat brings the row back.
THEOREM HeartbeatsStayOut == Spec => NoHeartbeatReregisters
<1> DEFINE Late == main = "returned" /\ ~row /\ row' => at'["upsert"] < at["upsert"]
<1>1. Inductive /\ [Next]_vars => [Late]_vars
  <2> SUFFICES ASSUME Inductive, Next, main = "returned", ~row, row'
               PROVE  at'["upsert"] < at["upsert"]
    OBVIOUS
  <2>1. beat \in {"off", "done"}
    BY DEF Inductive, BeatInv
  <2>2. UpsertIdle
    BY <2>1 DEF Next, Main, Reclaims, Poll, Leave, Heartbeats, Executor, Caller, Queue,
       shared, work, Register, RegisterFails, Reclaim, OrphanReclaimed, NothingToReclaim,
       NotifyReclaimed, EndReclaim, PollTick, TakeWake, WakePolls, WakeThrottled, NothingFound, JobFound, SetActive,
       Insert, Announce, ReadyUnannounced, TakenElsewhere, SchedulerTick,
       UpsertActive, Spawn, SeeCancel, SeeStop, FinishStop, AwaitOnce, JoinHeartbeat,
       Unregister, Beat, BeatUpsert, BeatStops, HandlerEnds, ReleaseSlot, LeaveGroup,
       SeeUnused, SeeUsed, SetIdle, CallStop, CallerDrained, CallerAwaitsOnce, Cancel
  <2> QED
    BY <2>2 DEF UpsertIdle, End, Inductive, TypeOK, ExecStep
<1> QED
  BY <1>1, InductiveHolds, PTL DEF Spec, NoHeartbeatReregisters

-----------------------------------------------------------------------------
(* The refinement of WorkerProcess *)

\* A step that leaves the main loop in the same part of its life, and the handlers, the
\* signal and the row alone, is none of the process.
LEMMA ProcessStutter ==
    ASSUME ProcessPc' = ProcessPc, at'["run"] = at["run"], ctxDone' = ctxDone, row' = row
    PROVE  UNCHANGED processVars
BY DEF processVars

\* Every step of a goroutine is one of the process, unless somebody calls Stop.
LEMMA ProcessStep ==
    ASSUME Inductive, [Next]_vars, caller' = "idle"
    PROVE  Process!Next \/ UNCHANGED processVars
<1> USE DEF shared, work
<1> DEFINE Goal == Process!Next \/ UNCHANGED processVars
<1>0. /\ main \in MainStep /\ at \in [ExecStep -> Nat] /\ at["run"] \in Nat
      /\ ctxDone \in BOOLEAN /\ row \in BOOLEAN
      /\ BeatInv
  BY DEF Inductive, TypeOK, ExecStep
<1>1. CASE Register
  BY <1>0, <1>1 DEF Register, Process!Next, Process!Register, ProcessPc
<1>2. CASE RegisterFails
  <2>1. ProcessPc = "off" /\ ProcessPc' = "off"
    BY <1>0, <1>2 DEF RegisterFails, BeatInv, ProcessPc
  <2> QED
    BY <1>2, <2>1, ProcessStutter DEF RegisterFails
<1>3. CASE Reclaim
  BY <1>3 DEF Reclaim, Process!Next, Process!Reclaim, ProcessPc
<1>4. CASE OrphanReclaimed
  BY <1>4, ProcessStutter DEF OrphanReclaimed, ProcessPc
<1>5. CASE NothingToReclaim \/ NotifyReclaimed
  <2>1. ProcessPc = "reclaim" /\ ProcessPc' = "select"
    BY <1>5 DEF NothingToReclaim, NotifyReclaimed, EndReclaim, ProcessPc
  <2> QED
    BY <1>5, <2>1 DEF NothingToReclaim, NotifyReclaimed, Process!Next, Process!EndReclaim
<1>6. CASE PollTick \/ TakeWake \/ NothingFound
  <2>1. ProcessPc = "select" /\ ProcessPc' = "select"
    BY <1>6 DEF PollTick, TakeWake, WakePolls, WakeThrottled, NothingFound, ProcessPc
  <2> QED
    BY <1>6, <2>1, ProcessStutter DEF PollTick, TakeWake, NothingFound
<1>7. CASE JobFound
  <2>1. ProcessPc = "select" /\ ProcessPc' = "dispatch"
    BY <1>7 DEF JobFound, ProcessPc
  <2>2. at["run"] < Concurrency
    BY <1>0, <1>7, PoolAssumption
       DEF JobFound, Inductive, TypeOK, SlotsAreHeld, HoldsSlot, ExecStep
  <2> QED
    BY <1>7, <2>1, <2>2 DEF JobFound, Process!Next, Process!Claim
<1>8. CASE SetActive
  BY <1>8, ProcessStutter DEF SetActive, ProcessPc
<1>9. CASE UpsertActive
  <2>1. ProcessPc = "dispatch" /\ ProcessPc' = "dispatch"
    BY <1>9 DEF UpsertActive, ProcessPc
  <2>2. row' = row \/ row' = TRUE
    BY <1>9 DEF UpsertActive, MaybeUpsert
  <2> QED
    BY <1>9, <2>1, <2>2, ProcessStutter
       DEF UpsertActive, Process!Next, Process!Upsert, Process!Up
<1>10. CASE Spawn
  <2>1. ProcessPc = "dispatch" /\ ProcessPc' = "select"
    BY <1>10 DEF Spawn, ProcessPc
  <2>2. at'["run"] = at["run"] + 1
    BY <1>0, <1>10 DEF Spawn, ExecStep
  <2> QED
    BY <1>10, <2>1, <2>2 DEF Spawn, Process!Next, Process!Dispatch
<1>11. CASE SeeCancel \/ SeeStop \/ FinishStop \/ AwaitOnce \/ JoinHeartbeat
  <2>1. ProcessPc = "select" /\ ProcessPc' = "select"
    BY <1>11
       DEF SeeCancel, EnterStop, SeeStop, FinishStop, AwaitOnce, JoinHeartbeat, ProcessPc,
           Inductive, TypeOK
  <2> QED
    BY <1>11, <2>1, ProcessStutter DEF SeeCancel, SeeStop, FinishStop, AwaitOnce, JoinHeartbeat
<1>12. CASE Unregister
  <2>1. ProcessPc = "select" /\ ProcessPc' = "exited"
    BY <1>0, <1>12 DEF Unregister, BeatInv, ProcessPc
  <2>2. ctxDone /\ at["run"] = 0
    BY <1>0, <1>12 DEF Unregister, Inductive, SignalInv, GroupInv, TypeOK, ExecStep
  <2> QED
    BY <1>12, <2>1, <2>2 DEF Unregister, Process!Next, Process!Exit
<1>13. CASE Beat \/ BeatStops
  <2>0. beat # "off" /\ beat' # "off" /\ UNCHANGED <<main, row>>
    BY <1>13 DEF Beat, BeatStops
  <2>1. ProcessPc' = ProcessPc
    BY <2>0, Zenon DEF ProcessPc
  <2> QED
    BY <1>13, <2>1, ProcessStutter DEF Beat, BeatStops
<1>14. CASE BeatUpsert
  <2>1. ProcessPc \in {"reclaim", "select", "dispatch"} /\ ProcessPc' = ProcessPc
    BY <1>0, <1>14 DEF BeatUpsert, BeatInv, ProcessPc, MainStep
  <2>2. row' = row \/ row' = TRUE
    BY <1>14 DEF BeatUpsert, MaybeUpsert
  <2> QED
    BY <1>14, <2>1, <2>2, ProcessStutter
       DEF BeatUpsert, Process!Next, Process!Upsert, Process!Up
<1>15. CASE HandlerEnds
  <2>1. at["run"] > 0 /\ at'["run"] = at["run"] - 1
    BY <1>0, <1>15 DEF HandlerEnds, Advance, ExecStep
  <2>2. ProcessPc' = ProcessPc
    BY <1>15 DEF HandlerEnds, ProcessPc
  <2> QED
    BY <1>15, <2>1, <2>2 DEF HandlerEnds, Process!Next, Process!Finish
<1>16. CASE ReleaseSlot \/ LeaveGroup \/ SeeUnused \/ SeeUsed \/ SetIdle
  <2>1. UNCHANGED <<main, beat, row>>
    BY <1>16 DEF ReleaseSlot, LeaveGroup, SeeUnused, SeeUsed, SetIdle
  <2>2. at'["run"] = at["run"]
    BY <1>0, <1>16
       DEF ReleaseSlot, LeaveGroup, SeeUnused, SeeUsed, SetIdle, Advance, End, ExecStep
  <2> QED
    BY <1>16, <2>1, <2>2, ProcessStutter
       DEF ReleaseSlot, LeaveGroup, SeeUnused, SeeUsed, SetIdle, ProcessPc
<1>17. CASE UpsertIdle
  <2>1. at'["run"] = at["run"] /\ beat # "off"
    BY <1>0, <1>17 DEF UpsertIdle, End, BeatInv, ExecStep
  <2>2. row' = row \/ row' = TRUE
    BY <1>17 DEF UpsertIdle, MaybeUpsert
  <2>3. CASE row' = row
    BY <1>17, <2>1, <2>3, ProcessStutter DEF UpsertIdle, ProcessPc
  <2>4. CASE row' = TRUE /\ ~row /\ main = "returned"
    <3>1. ProcessPc = "exited" /\ ProcessPc' = "dead"
      BY <1>17, <2>1, <2>4 DEF UpsertIdle, ProcessPc
    <3> QED
      BY <1>17, <2>1, <2>4, <3>1 DEF UpsertIdle, Process!Next, Process!LateUpsert
  <2>5. CASE row' = TRUE /\ main # "returned"
    <3>1. ProcessPc \in {"reclaim", "select", "dispatch"} /\ ProcessPc' = ProcessPc
      BY <1>0, <1>17, <2>1, <2>5 DEF UpsertIdle, BeatInv, ProcessPc, MainStep
    <3> QED
      BY <1>17, <2>1, <2>5, <3>1 DEF UpsertIdle, Process!Next, Process!Upsert, Process!Up
  <2> QED
    BY <1>0, <2>2, <2>3, <2>4, <2>5
<1>18. CASE Caller
  BY <1>18 DEF Caller, CallStop, EnterStop, CallerDrained, CallerAwaitsOnce, Inductive, TypeOK
<1>19. CASE Cancel
  <2>1. ProcessPc' = ProcessPc /\ ProcessPc \in {"off", "reclaim", "select", "dispatch"}
    BY <1>0, <1>19
       DEF Cancel, Inductive, SignalInv, ProcessPc, MainStep
  <2>2. CASE ProcessPc = "off"
    BY <1>19, <2>1, <2>2 DEF Cancel, processVars
  <2>3. CASE ProcessPc # "off"
    BY <1>0, <1>19, <2>1, <2>3 DEF Cancel, Process!Next, Process!Signal, Process!Up
  <2> QED
    BY <2>2, <2>3
<1>20. CASE Queue \/ UNCHANGED vars
  <2>1. UNCHANGED <<main, beat, at, ctxDone, row>>
    BY <1>20
       DEF Queue, Insert, Announce, ReadyUnannounced, TakenElsewhere, SchedulerTick, vars
  <2> QED
    BY <2>1, ProcessStutter DEF ProcessPc
<1> QED
  BY <1>1, <1>2, <1>3, <1>4, <1>5, <1>6, <1>7, <1>8, <1>9, <1>10, <1>11, <1>12, <1>13,
     <1>14, <1>15, <1>16, <1>17, <1>18, <1>19, <1>20
     DEF Next, Main, Reclaims, Poll, Leave, Heartbeats, Executor

\* With any number of slots, the goroutines make up a process as JobQueue knows it.
THEOREM PoolIsAProcess == Spec => ImplementsProcess
<1>1. Init => Process!Init
  BY DEF Init, Process!Init, ProcessPc, ExecStep
<1>2. Inductive /\ [Next]_vars => [Process!Next \/ caller' # "idle"]_processVars
  BY ProcessStep
<1> QED
  BY <1>1, <1>2, InductiveHolds, PTL DEF Spec, ImplementsProcess
=============================================================================

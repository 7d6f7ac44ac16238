\* Two slots and three jobs: a full semaphore, a notification dropped by a full channel, one
\* used up while both slots are taken, and a poll after a slot was released.
SPECIFICATION FairSpec
CONSTANTS
    Concurrency = 2
    MaxJobs = 3
    MaxCallers = 1
INVARIANTS
    TypeOK
    SlotsAreHeld
    DrainsOnSignal
    WakeUpsAreNotLost
    NoCircularWait
PROPERTIES
    NoHeartbeatReregisters
    ImplementsProcess
    ShutdownCompletes
    EveryJobIsStarted
\* The process may end.
CHECK_DEADLOCK FALSE

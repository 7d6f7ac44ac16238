\* One replay, then p1 may die; p2 goes on.
SPECIFICATION FairSpec
CONSTANTS
    p1 = p1
    p2 = p2
    q1 = q1
    NoJob = NoJob
    NoWorker = NoWorker
    Jobs = {j1}
    Pools = {p1,p2}
    Mortal = {p1}
    Admins = {a1}
    Queues = {q1}
    QueueOf <- OneQueue
    Priorities = {0}
    RequestedRetries = {0}
    DefaultMaxRetries = 1
    Concurrency = 1
    MaxReplays = 1
    MaxLapses = 0
    MaxLosses = 0
PROPERTIES
    ZeroOrphanedJobs
\* Processes may all have ended and jobs all be settled.
CHECK_DEADLOCK FALSE

\* Two operators, one of whom may replay, to another queue as well.
SPECIFICATION Spec
CONSTANTS
    p1 = p1
    p2 = p2
    q1 = q1
    NoJob = NoJob
    NoWorker = NoWorker
    Jobs = {j1}
    Pools = {p1}
    Mortal = {}
    Admins = {a1,a2}
    Queues = {q1,q2}
    QueueOf <- OneQueue
    Priorities = {0}
    RequestedRetries = {0}
    DefaultMaxRetries = 1
    Concurrency = 1
    MaxReplays = 1
    MaxLapses = 0
    MaxLosses = 0
PROPERTIES
    DeletesOnlySettledJobs
\* Processes may all have ended and jobs all be settled.
CHECK_DEADLOCK FALSE

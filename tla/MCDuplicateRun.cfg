\* One late heartbeat, no operator.
SPECIFICATION Spec
CONSTANTS
    p1 = p1
    p2 = p2
    q1 = q1
    NoJob = NoJob
    NoWorker = NoWorker
    Jobs = {j1}
    Pools = {p1,p2}
    Mortal = {p1,p2}
    Admins = {}
    Queues = {q1}
    QueueOf <- OneQueue
    Priorities = {0}
    RequestedRetries = {0}
    DefaultMaxRetries = 1
    Concurrency = 1
    MaxReplays = 0
    MaxLapses = 1
    MaxLosses = 0
INVARIANTS
    NoDuplicateRuns
\* Processes may all have ended and jobs all be settled.
CHECK_DEADLOCK FALSE

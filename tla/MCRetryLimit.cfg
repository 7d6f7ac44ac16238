\* One pool that goes on, no operator: a job fails as often as it is allowed to.
SPECIFICATION Spec
CONSTANTS
    p1 = p1
    p2 = p2
    q1 = q1
    NoJob = NoJob
    NoWorker = NoWorker
    Jobs = {j1}
    Pools = {p1}
    Mortal = {}
    Admins = {}
    Queues = {q1}
    QueueOf <- OneQueue
    Priorities = {0}
    RequestedRetries = {0}
    DefaultMaxRetries = 2
    Concurrency = 1
    MaxReplays = 0
    MaxLapses = 0
    MaxLosses = 0
INVARIANTS
    FailuresReachLimit
\* Processes may all have ended and jobs all be settled.
CHECK_DEADLOCK FALSE

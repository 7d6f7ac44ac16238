\* One job, so that every race is about it; two pools and two operators, which may all
\* interfere; two replays, one late heartbeat and one lost outcome.
SPECIFICATION Spec
CONSTANTS
    p1 = p1
    p2 = p2
    q1 = q1
    NoJob = NoJob
    NoWorker = NoWorker
    Jobs = {j1}
    Pools = {p1,p2}
    Mortal = {p1,p2}
    Admins = {a1,a2}
    Queues = {q1}
    QueueOf <- OneQueue
    Priorities = {0}
    RequestedRetries = {0}
    DefaultMaxRetries = 1
    Concurrency = 2
    MaxReplays = 2
    MaxLapses = 1
    MaxLosses = 1
SYMMETRY AnyAdmin
INVARIANTS
    TypeOK
    OpenAttemptIsCurrent
    RunningHasOpenAttempt
    AttemptBudget
    Inductive
    RunningIsBacked
    InductiveOnTime
    InductiveAttempts
    NoDuplicateRunsOnTime
    CompletionClosesAttemptOnTime
    RetriesAreFailures
PROPERTIES
    LateAnswersRejected
    AnsweredByItsRunner
    ImplementsLifecycle
    ImplementsProcess
\* Processes may all have ended and jobs all be settled.
CHECK_DEADLOCK FALSE

\* The code's own timers, in seconds.  The backoff is scaled down, so that the third retry's
\* cannot be converted.  Purges in UTC: no property here looks at their zone.
SPECIFICATION Spec
CONSTANTS
    HeartbeatEvery = 5
    UpsertLimit = 3
    StaleAfter = 30
    ReclaimEvery = 30
    ExitAfter = 30
    PollEvery = 1
    BaseDelay = 2
    MaxDelay = 3
    DurationMax = 6
    MaxRetries = 3
    OlderThan = 2
    Zones = {0}
    StartLimit = 2
    MaxMisses = 4
    MaxAge = 61
INVARIANTS
    TypeOK
    HealthyIsNotPruned
    HealthyRunsAlone
    OrphansAreReclaimed
    RetriesAreStarted
PROPERTIES
    RetriesAreSpaced
\* Time stops at MaxAge.
CHECK_DEADLOCK FALSE

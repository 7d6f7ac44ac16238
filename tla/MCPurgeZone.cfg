\* The same timers, purges in any zone.
SPECIFICATION Spec
CONSTANTS
    HeartbeatEvery = 5
    UpsertLimit = 3
    StaleAfter = 30
    ReclaimEvery = 30
    ExitAfter = 30
    PollEvery = 1
    BaseDelay = 2
    MaxDelay = 3
    DurationMax = 6
    MaxRetries = 3
    OlderThan = 2
    Zones <- AllZones
    StartLimit = 2
    MaxMisses = 4
    MaxAge = 61
PROPERTIES
    PurgeKeepsYoung
\* Time stops at MaxAge.
CHECK_DEADLOCK FALSE

\* One slot and one job, stopped by a signal.
SPECIFICATION Spec
CONSTANTS
    Concurrency = 1
    MaxJobs = 1
    MaxCallers = 1
INVARIANTS
    UnregistersForGood
\* The process may end.
CHECK_DEADLOCK FALSE

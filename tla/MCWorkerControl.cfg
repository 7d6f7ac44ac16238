\* Two starts and two stops share the file; with two numbers the second worker may get the
\* number of the first.
SPECIFICATION FairSpec
CONSTANTS
    Workers = {w1, w2}
    Stoppers = {s1, s2}
    Pids = {n1, n2}
    NoPid = NoPid
    NoWorker = NoWorker
    ByNumber = ByNumber
INVARIANTS
    StopIsFinal
    SoleWorkerIsStoppable
PROPERTIES
    StopEnds
\* Every command may have ended.
CHECK_DEADLOCK FALSE

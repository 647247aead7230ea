SPECIFICATION FairSpec
CONSTANTS
    u1 = u1
    r1 = r1
    Updates = {u1}
    Requests = {r1}
    NumWorkers = 1
    QueueSize = 1
    ErrSize = 1
    MaxRuns = 2
INVARIANTS
    TypeOK
    NoStrayRoutines
    PanicNeedsGiveUp
    OrderlyShutdown
PROPERTIES
    ShutdownReturns
\* A process that has exited stops.
CHECK_DEADLOCK FALSE

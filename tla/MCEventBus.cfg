SPECIFICATION FairSpec
CONSTANTS
    m1 = m1
    m2 = m2
    s1 = s1
    w1 = w1
    Messages = {m1, m2}
    Unhandled = {m2}
    Queued = {m2}
    Traced = {}
    Workers = {w1}
    QueueSize = 1
    RetryCount = 2
    Slots = {s1}
    MaxRetries = 1
    HasDLQ = TRUE
    MaxDials = 2
    ConfirmMode = FALSE
INVARIANTS
    TypeOK
    NothingVanishes
    LostOnlyAtClose
PROPERTIES
    AcceptedIsSettled
    ImplementsDelivery
\* A process that has been closed or killed stops.
CHECK_DEADLOCK FALSE

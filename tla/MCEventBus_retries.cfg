SPECIFICATION FairSpec
CONSTANTS
    m1 = m1
    m2 = m2
    s1 = s1
    w1 = w1
    Messages = {m1, m2}
    Unhandled = {}
    Queued = {m1, m2}
    Traced = {m2}
    Workers = {w1}
    QueueSize = 1
    RetryCount = 2
    Slots = {s1}
    MaxRetries = 1
    HasDLQ = TRUE
    MaxDials = 2
    ConfirmMode = FALSE
INVARIANT
    RepeatsNeedRedelivery
PROPERTY
    Settles
\* A process that has been closed or killed stops.
CHECK_DEADLOCK FALSE

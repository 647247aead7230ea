SPECIFICATION FairSpec
CONSTANTS
    MaxDials = 4
    ConfirmMode = TRUE
INVARIANTS
    TypeOK
    NoConnectionLeft
    PanicNeedsConfirms
PROPERTIES
    ImplementsLink
    Reconnects
    CloseReturns
\* The broker is closed and its goroutine gone: nothing is left to do.
CHECK_DEADLOCK FALSE

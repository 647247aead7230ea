SPECIFICATION Spec
CONSTANTS
    MaxDials = 2
    ConfirmMode = TRUE
INVARIANT ConfirmsSurviveReconnect
CHECK_DEADLOCK FALSE

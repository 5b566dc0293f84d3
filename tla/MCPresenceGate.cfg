SPECIFICATION GateFairSpec
CONSTANTS
    ReleaseMs = 1
    PressMs = 1
    HoldMs = 2
    Timeout = 7
    MaxClock = 7
INVARIANTS
    ApprovalIsFresh
PROPERTIES
    WaitEnds
CHECK_DEADLOCK FALSE

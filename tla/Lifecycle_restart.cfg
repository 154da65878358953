CONSTANTS
    MaxStarts = 3
    ListenMayFail = FALSE
    AcceptMayFail = FALSE
SPECIFICATION Spec
INVARIANTS
    RestartListens
CHECK_DEADLOCK FALSE

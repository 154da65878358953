CONSTANTS
    MaxStarts = 3
    ListenMayFail = TRUE
    AcceptMayFail = TRUE
SPECIFICATION FairSpec
INVARIANTS
    LifecycleInv
    RunningListens
    StoppedIsClosed
    CloseFailsOnlyWhenDeaf
PROPERTIES
    ServeReturns
CHECK_DEADLOCK FALSE

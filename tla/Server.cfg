CONSTANTS
    Conns = {c1}
    c1 = c1
    MaxStarts = 2
    ListenMayFail = TRUE
    AcceptMayFail = FALSE
SPECIFICATION ServerSpec
INVARIANTS
    ServedWasGreeted
    TLSOnceAccepted
    RefusedIsTold
    StartupInv
    StopClosesManaged
PROPERTIES
    StoppedAcceptsNone
    HungUpEnds
CHECK_DEADLOCK FALSE

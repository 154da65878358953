CONSTANTS
    MaxMessages = 4
    MaxTables = 2
SPECIFICATION Spec
INVARIANTS
    CopyInv
    CountedRowsAreStored
    NoRowIsLost
    DoneEndsItsCopy
PROPERTIES
    RequestIsAnswered
CHECK_DEADLOCK FALSE

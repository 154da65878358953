CONSTANTS
    Kinds <- MCKinds
    Startup = "startup"
    Ends <- MCEnds
    Raw <- MCRaw
    MaxMessages = 3
SPECIFICATION FairSpec
INVARIANTS
    TypeOK
    BytesInOrder
    FieldsAreWhole
    StreamInv
PROPERTIES
    EveryMessageIsRead
CHECK_DEADLOCK FALSE

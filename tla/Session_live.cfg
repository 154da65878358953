CONSTANTS
    Conns = {c1}
    Names = {n1}
    n1 = n1
    n2 = n2
    Texts <- MCTexts
    Unparsable = Unparsable
    None = None
    Requests <- AllRequests
    Careful = {}
    MaxSent = 2
SPECIFICATION FairSpec
PROPERTIES
    ClientIsToldWhereItStands
    HangUpEndsSession
CHECK_DEADLOCK FALSE

CONSTANTS
    Conns = {c1, c2}
    Names = {n1}
    n1 = n1
    n2 = n2
    Texts <- MCTexts
    Unparsable = Unparsable
    None = None
    Requests <- SharedRequests
    Careful = {c1, c2}
    MaxSent = 2
SPECIFICATION Spec
SYMMETRY SymmetricConns
INVARIANTS
    CarefulClientNeverKills
CHECK_DEADLOCK FALSE

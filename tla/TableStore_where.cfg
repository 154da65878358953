CONSTANTS
    Sessions = {s1, s2}
    k1 = k1
    v1 = v1
    v2 = v2
    Keys = {k1, k2, k3}
    Vals = {v1, v2}
    MaxRows = 3
    Operations <- WhereOperations
    Distinct = TRUE
SPECIFICATION Spec
INVARIANTS
    TypeOK
    DeleteNeverPanics
PROPERTIES
    TableImplementsRowList
CHECK_DEADLOCK FALSE

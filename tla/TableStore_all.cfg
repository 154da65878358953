CONSTANTS
    Sessions = {s1}
    k1 = k1
    v1 = v1
    v2 = v2
    Keys = {k1, k2, k3}
    Vals = {v1, v2}
    MaxRows = 3
    Operations <- DeleteAll
    Distinct = TRUE
SPECIFICATION Spec
PROPERTIES
    DeleteDeletesMatched
CHECK_DEADLOCK FALSE

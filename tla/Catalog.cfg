CONSTANTS
    c1 = c1  c2 = c2
    d = d  t = t  u = u
    Conns = {c1, c2}
    DbNames = {d}
    TblNames = {t, u}
    Database <- AllInD
    Lists <- ListsOfTU
    MaxDbs = 2
    MaxTables = 3
    MaxRows = 3
    MaxStatements = 5
    MaxValues = 2
SYMMETRY Symmetry
SPECIFICATION Spec
INVARIANTS
    CatalogInv
    CatalogIsAsAnswered
PROPERTIES
    FailureLeavesItsBeginning
CHECK_DEADLOCK FALSE

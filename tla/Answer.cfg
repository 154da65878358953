SPECIFICATION Spec
CONSTANTS
    SQLExecutors = {s1, s2}
    MaxSets = 2
    Spelling <- SpellingOfWords
    ResultSets <- Results
    Selectors <- SelectorsOfTwo
    Statements <- TextsOfStatements
    Counts = {0, 2, 12}
SYMMETRY Symmetry
INVARIANTS
    WireIsFramed
    ResultSetIsRead
    LastSQLExecutorServes
CHECK_DEADLOCK FALSE

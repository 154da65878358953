CONSTANTS
    Conns = {c1}
    Names = {n1}
    n1 = n1
    n2 = n2
    Texts <- MCTexts
    Unparsable = Unparsable
    None = None
    Requests <- PipelineRequests
    Careful = {c1}
    MaxSent = 4
SPECIFICATION Spec
INVARIANTS
    TypeOK
    CarefulInv
    OpenIsNeverReportedIdle
    ExecuteRunsWhatWasBound
    ExecuteRunsOneStatement
CHECK_DEADLOCK FALSE

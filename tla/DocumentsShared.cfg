CONSTANTS
    c1 = c1
    c2 = c2
    None = None
    Jobs <- OneJob
    Callers <- TwoCallers
    Files <- Uploads
    PageSize = 1
    MaxCalls = 2
    CanFail = TRUE
SPECIFICATION Spec
INVARIANTS
    ShownIsWhole
    RemovalIsComplete
PROPERTIES
    JobMovesForward
    StreamEnds
CHECK_DEADLOCK FALSE

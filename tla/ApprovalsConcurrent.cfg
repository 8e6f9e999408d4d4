CONSTANTS
    t1 = t1
    t2 = t2
    r1 = r1
    r2 = r2
    None = None
    Threads <- TwoThreads
    Requests <- TwoRequests
    Topic <- SameTopic
    Selectors <- FirstAndSecondStep
    MaxSteps = 2
    PageLimit = 2
    MaxCalls = 3
    CanFail = TRUE
SPECIFICATION Spec
INVARIANTS
    NoFabricatedApproval
    DecisionLogIsLegal
    LapsedIsFinal
SYMMETRY ThreadSymmetry
CHECK_DEADLOCK FALSE

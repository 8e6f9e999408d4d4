CONSTANTS
    t1 = t1
    t2 = t2
    r1 = r1
    r2 = r2
    None = None
    Threads <- TwoThreads
    Requests <- TwoRequests
    Topic <- SameTopic
    Selectors <- FirstStep
    MaxSteps = 1
    PageLimit = 2
    MaxCalls = 3
    CanFail = FALSE
SPECIFICATION Spec
PROPERTY SupersededIsFinal
CHECK_DEADLOCK FALSE

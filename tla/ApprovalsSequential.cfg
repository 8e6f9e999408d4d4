CONSTANTS
    t1 = t1
    t2 = t2
    r1 = r1
    r2 = r2
    None = None
    Threads <- OneThread
    Requests <- TwoRequests
    Topic <- SameTopic
    Selectors <- StepSelectors
    MaxSteps = 2
    PageLimit = 2
    MaxCalls = 3
    CanFail = FALSE
SPECIFICATION FairSpec
INVARIANT TypeOK
PROPERTIES
    DecisionsAreImmutable
    CreateLeavesOneLive
    ImplementsLifecycle
    CreationsComplete
CHECK_DEADLOCK FALSE

CONSTANTS
    t1 = t1
    t2 = t2
    treasury = treasury
    risk = risk
    Threads <- TwoThreads
    Roles <- TwoRoles
    Fast = FALSE
    MaxPolls = 1
    MaxDecisions = 2
    MaxFaults = 1
SPECIFICATION Spec
INVARIANTS
    SnapshotIsOfOneDecision
    LogTellsTheDebate
PROPERTIES
    DebateEnds
    ImplementsLifecycle
CHECK_DEADLOCK FALSE

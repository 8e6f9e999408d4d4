CONSTANTS
    c1 = c1
    c2 = c2
    c3 = c3
    d1 = d1
    None = None
    Commands <- ThreeCommands
    KindsOf <- ThreeKinds
    Debates <- OneDebate
    AuditKeep = 2
    PinKeep = 1
    MaxHits = 2
    PausePolls = 1
    MaxResets = 1
    Failures <- LostSaves
SPECIFICATION FairSpec
INVARIANT RoomRemembers
PROPERTY DebatesReachTheirRuling
CHECK_DEADLOCK FALSE

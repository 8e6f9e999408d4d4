CONSTANTS
    o1 = o1
    Nobody = Nobody
    NoOverride = NoOverride
    Roles <- ThreeRoles
    Names <- ThreeRoles
    RoleOf <- Resolution
    Committee <- TwoSeats
    WeightOf <- Weights
    Answers <- SupportOrOppose
    MaxPlanned = 2
    AbsMaxRounds = 3
    Threshold = 75
    Overrides <- HalfOverride
    Forces <- OneMore
    Operators <- OneOperator
    MaxCalls = 2
SPECIFICATION FairSpec
INVARIANTS
    RoundsBounded
    StopReasonIsTrue
    RedTeamIsAnswered
    CheckpointsFollowRounds
PROPERTY DebateEnds
CHECK_DEADLOCK FALSE

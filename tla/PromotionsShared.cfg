CONSTANTS
    api = api
    cli = cli
    treasury = treasury
    Callers <- TwoCallers
    Candidates <- OneCandidate
    Points <- TwoPoints
    Cases <- TwoSizes
    MaxCalls = 3
    MaxFaults = 1
SPECIFICATION Spec
INVARIANTS
    ApprovalIsEarned
    CandidateFollowsStream
CHECK_DEADLOCK FALSE

CONSTANTS
    d1 = d1
    d2 = d2
    treasury = treasury
    fpna = fpna
    Debates <- TwoDebates
    Roles <- TwoRoles
    Scores <- TwoScores
    HistoryCap = 2
    MaxRounds = 4
    MaxResets = 1
    MaxFailures = 1
SPECIFICATION RosterSpec
INVARIANTS
    RosterTellsOneStory
    StreamIsTheHistory
CHECK_DEADLOCK FALSE

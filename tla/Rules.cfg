CONSTANTS
    None = None
    Texts <- SomeTexts
    VendorSets <- SomeVendors
    Companies <- SomeCompanies
    OneTimes <- SomeOneTimes
    Monthlies <- SomeMonthlies
    Revenues <- SomeRevenues
    Confidences = {45, 79, 80}
    RiskCounts = {0, 3}
    Books <- SomeBooks
    Overrides <- SomeOverrides
    Horizons = {3, 12}
    Requests <- SomeRequests
    LiveCompanies <- SomeLive
    ChangeLists <- SomeLists
    SourceSets <- SomeSources
    DecisionTypes <- OneType
    Citations <- TwoCitations
    Priors <- TwoPriors
    Audits <- OneAudit
    ModelWeights <- SomeWeights
    MaxDebates = 1
    DecisionKinds <- SomeKinds
    PlannedRoles <- SomePlannedRoles
    ModelExchanges <- SomeExchanges
    Outages <- SomeOutages
    Retries = 1
    MaxTurns = 6
SPECIFICATION RulesSpec
INVARIANTS
    AutoClearIsHarmless
    BoardIsTold
    CostlierIsNoLighter
    PlansAddUp
    ComparisonsAreTrue
    BranchesAddUp
    RecordingHidesNothing
    
    LanesAreFed
    TableIsAnswerable
CHECK_DEADLOCK FALSE

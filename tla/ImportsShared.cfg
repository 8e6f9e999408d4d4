CONSTANTS
    a1 = a1
    a2 = a2
    None = None
    Callers <- TwoCallers
    Order <- LedgerThenVendors
    Ledger = "ledger"
    VendorExport = "vendor_export"
    Files <- Workbooks
    Rows <- SomeRows
    Outcome <- Contents
    Signal <- Revenue
    Seeded <- SaaS
    MaxCalls = 3
    CanFail = TRUE
SPECIFICATION Spec
INVARIANTS
    SkipsAreSafe
    ImportsAreComplete
PROPERTY LastGoodSurvives
SYMMETRY CallerSymmetry
CHECK_DEADLOCK FALSE

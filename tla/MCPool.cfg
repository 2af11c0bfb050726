SPECIFICATION Spec
CONSTANTS
    Units <- TwoUnits
    MaxP = 2
    MaxAttempts = 2
    ContinueAsNewUnits = 2
    RuntimeBound = TRUE
    Observations <- AnyListing
    MishapKinds <- AllMishaps
    MaxMishaps = 1
    MaxRequests = 2
    RequestKinds <- AllRequests
    AutoSync = FALSE
INVARIANT PoolExact
PROPERTIES SingleFlight WorkConserving ImplementsSyncRun
CHECK_DEADLOCK FALSE

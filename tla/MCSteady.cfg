SPECIFICATION Spec
CONSTANTS
    Units <- TwoUnits
    MaxP = 2
    MaxAttempts = 2
    ContinueAsNewUnits = 9
    RuntimeBound = FALSE
    Observations <- AnyListing
    MishapKinds <- SourceMishaps
    MaxMishaps = 2
    MaxRequests = 2
    RequestKinds <- SyncRequests
    AutoSync = TRUE
INVARIANTS NoStrandedSyncing 
PROPERTIES NeedsReauthSticky StopIsAStop
CHECK_DEADLOCK FALSE

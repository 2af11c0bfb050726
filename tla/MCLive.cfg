SPECIFICATION FairSpec
CONSTANTS
    Units <- TwoUnits
    MaxP = 1
    MaxAttempts = 1
    ContinueAsNewUnits = 9
    RuntimeBound = FALSE
    Observations <- WholeListing
    MishapKinds <- HarmlessMishaps
    MaxMishaps = 2
    MaxRequests = 1
    RequestKinds <- ScheduleChanges
    AutoSync = TRUE
PROPERTIES  AutoSyncGoesOn
CHECK_DEADLOCK FALSE

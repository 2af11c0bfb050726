SPECIFICATION MCFairSpec
CONSTANTS
    Requests <- MCRequests
    MaxTokens = 2
    MaxMishaps = 2
    UseCases <- MCUseCases
    Regions <- OneRegion
    AllRegions <- TwoRegions
    QueryRetries = 1
    MaxVisits = 2
  
PROPERTIES NeverOnboardsTwice GateDecides
CHECK_DEADLOCK FALSE

SPECIFICATION FairSpec
CONSTANTS
    a1 = a1
    a2 = a2
    w1 = w1
    w2 = w2
    Attempts <- MCAttempts
    Workers <- MCWorkers
    Placements <- MCPlacements
    None = None
    MaxTokens = 2
    MaxFaults = 2
INVARIANTS ReusedGrantSurvives OneWorkerKeepsGrant
PROPERTIES WaiterServed

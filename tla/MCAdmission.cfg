SPECIFICATION AdmissionFairSpec
CONSTANTS
    a1 = a1
    a2 = a2
    a3 = a3
    Claimants <- MCClaimants
    StartConcurrency = 2
    MaxConcurrency = 4
    RetryAfters <- MCRetryAfters
    MaxLost = 2
INVARIANTS SlotAccounting NeverOverCap LimitTracksLoad
PROPERTY RefusesOnlyForLostSlots

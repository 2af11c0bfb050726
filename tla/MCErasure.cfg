SPECIFICATION FairSpec
CONSTANTS
    Units <- TwoUnits
    Contents = {k1, k2}
    NoRow = NoRow
    PurgeBatch = 1
    MaxBatches = 2
    MaxAttempts = 2
    MaxRequests = 1
    MaxEmits = 1
    MaxMishaps = 2
 
PROPERTIES OutboxDrains 
CHECK_DEADLOCK FALSE

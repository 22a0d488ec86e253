SPECIFICATION PartsSpec
CONSTANTS
    Rows = 3
    MaxBatches = 3
    StartFailsAtOnce = FALSE
    Videos = {v1, v2, v3}
    Parts = {"file"}
    Jobs = 2
    MaxExports = 2
INVARIANTS
    RestoreInv
    
PROPERTIES
    CancellationHolds
    
CHECK_DEADLOCK FALSE

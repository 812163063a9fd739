SPECIFICATION BatchSpec
CONSTANTS
    Batches <- MCBatches
    Tables <- MCTables
    MaxRequest = 2
    MaxEdit = 1
INVARIANTS BatchCoherent FailuresTold SuccessesTold

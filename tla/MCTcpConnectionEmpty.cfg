SPECIFICATION Spec
CONSTANTS
    MaximumItems = 2
    MaximumBytes = 3
    GatherSegments = 1
    GatherBytes = 2
    BatchSegments = 1
    MaxSends = 2
    MaxReceives = 1
    Batches <- MCShortBatches
INVARIANT
    GracefulCloseSendsAll
CHECK_DEADLOCK FALSE

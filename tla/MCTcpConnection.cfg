SPECIFICATION FairSpec
CONSTANTS
    MaximumItems = 3
    MaximumBytes = 4
    GatherSegments = 2
    GatherBytes = 3
    BatchSegments = 2
    MaxSends = 3
    MaxReceives = 2
    Batches <- MCBatches
INVARIANTS
    TypeOK
    ClosedIsDrained
    OneReceiver
    NoStalledSend
    WireIsPrefixOfAccepted
    ClosedDisarmsTimer
PROPERTIES
    FinalBatchSendsAll
    ImplementsLifecycle
    QueueDrains
    GracefulCloseHappens
CHECK_DEADLOCK FALSE

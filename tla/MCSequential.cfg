SPECIFICATION PartsSpec
CONSTANTS
    MaximumItems = 3
    MaximumBytes = 4
    MaxPushes = 3
    Null = Null
    Batches <- MCBatches
    InitialCapacity = 2
    MaximumCapacity = 5
    MaxWritten = 7
    Headers <- MCHeaders
    EntrySize <- MCEntrySize
    MaximumDynamicTableSize = 120
    MaximumHeaderListSize = 130
    TableSizes = {0, 80, 120}
    MaxBlock = 2
    StreamIds = {1, 65535}
    Numbers = {1, 2147483647}
    MaximumFrameSize = 7
    MaxFrames = 2
    Messages <- MCMessages
    BadLengths = {1, 300}
    Registered = {1, 258}
    MaximumPayload = 2
    MaximumBuffer = 10
    MaximumTasks = 1
    MaxSent = 3
INVARIANTS
    CountersAreExact
    GatherIsLongestPrefix
    BlocksDecode
    FramesRoundTrip
    MessagesArriveOnce
PROPERTIES
    ImplementsFifo
    BuffersAreFifos
CHECK_DEADLOCK FALSE

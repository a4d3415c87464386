SPECIFICATION Spec
CONSTANTS
    StreamIds = {1, 3}
    MaximumWindow = 7
    ConnectionWindow = 3
    InitialWindows = {1}
    FrameSizes = {2}
    Peers <- AllPeers
    InitialWindow = 4
    MaximumBody = 5
    MaximumStreams = 2
    MaximumBuffered = 3
    MaxFeed = 2
INVARIANTS
    WindowsAreExact
    NothingSendableWaits
    EveryByteOnce
    UploadsNeverStall
    RequestsAreWhole
CHECK_DEADLOCK FALSE

SPECIFICATION Spec
CONSTANTS
    StreamIds = {1, 3}
    MaximumWindow = 7
    ConnectionWindow = 3
    InitialWindows = {1}
    FrameSizes = {2}
    Peers <- OnlyDownloader
    InitialWindow = 4
    MaximumBody = 5
    MaximumStreams = 2
    MaximumBuffered = 3
    MaxFeed = 2
INVARIANT WireFollowsEncoder
CHECK_DEADLOCK FALSE

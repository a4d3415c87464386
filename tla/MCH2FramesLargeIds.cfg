SPECIFICATION FramesSpec
CONSTANTS
    StreamIds = {1, 65537}
    Numbers = {1, 2147483647}
    MaximumFrameSize = 7
    MaxFrames = 2
INVARIANT FramesRoundTrip
CHECK_DEADLOCK FALSE

SPECIFICATION Spec
CONSTANTS
    SizeMax = 255
    MaximumRequestLine = 4
    MaximumHeaderBytes = 20
    MaximumHeaderCount = 3
    MaximumBodyBytes = 3
    MaximumChunkLine = 3
    Streams <- LongTrailer
    Preface <- MCPreface
    Routes <- MCRoutes
    MaximumBuffer = 48
    MaximumRequests = 3
    MaximumTasks = 2
    MaximumQueued = 2
INVARIANT SplitDoesNotMatter
CHECK_DEADLOCK FALSE

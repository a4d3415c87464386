SPECIFICATION Spec
CONSTANTS
    SizeMax = 255
    MaximumRequestLine = 4
    MaximumHeaderBytes = 20
    MaximumHeaderCount = 3
    MaximumBodyBytes = 3
    MaximumChunkLine = 3
    Streams <- MCStreams
    Preface <- MCPreface
    Routes <- MCRoutes
    MaximumBuffer = 34
    MaximumRequests = 3
    MaximumTasks = 2
    MaximumQueued = 2
INVARIANTS
    ParsedIsSent
    AnswersInOrder
    QuietIsAnswered
CHECK_DEADLOCK FALSE

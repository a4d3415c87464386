SPECIFICATION ServicesSpec
CONSTANTS
    Workers = {w1, w2}
    MaximumPendingTasks = 1
    Serials = {s1, s2}
    MaximumSerialTasks = 2
    DirectTasks = {d1}
    MaxPosts = 2
    StopModes = {"Drain", "CancelPending"}
    PoolStopModes = {"Drain", "CancelPending"}
    PoolTasks = {t1, t2, t3, t4}
    PoolLimit = 2
    IoWorkers = {w1, w2}
    IoTasks = {t1, t2, t3}
    IoLimit = 2
    ManualTasks = {t1, t2, t3, t4}
    Callers = {c1, c2}
    Durations = {1, 2}
    MaxTimers = 2
    MaxTime = 3
    Calls = {k1, k2, k3}
INVARIANTS
    NonOverlapping
    AcceptanceOrder
    CountersAreExact
    FiresOnceOnTime
    AnsweredOnce
    AllStoppedAreQuiet
PROPERTIES
    ImplementsContract
    EveryStopCompletes
    EverythingAcceptedIsRun
CHECK_DEADLOCK FALSE

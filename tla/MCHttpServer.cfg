SPECIFICATION ServerSpec
CONSTANTS
    Workers = {w1, w2}
    MaxAccepts = 2
    Conns = {c1, c2}
    MaxTimeouts = 1
    Apps = {"echo", "http"}
INVARIANTS
    NeverDeaf
    AllIsQuiet
    NoCompletionAfterStop
    NoneLeftBehind
PROPERTIES
    ShutdownCompletes
    ConnsImplementLifecycle
CHECK_DEADLOCK FALSE

SPECIFICATION WebSpec
CONSTANTS
    Workers = {w1, w2}
    MaxAccepts = 2
    Conns = {c1, c2}
    MaxTimeouts = 0
    Apps = {"http"}
INVARIANT NoCompletionAfterStop
CHECK_DEADLOCK FALSE

CONSTANTS
    Workers = {w1, w2}
    Pdrs = {p1, p2}
    NoPdr = NoPdr
    MaxVersion = 6
    MsgQueueSize = 1
    AllocMayFail = FALSE
SPECIFICATION Spec
INVARIANT PdrFreedAfterAck

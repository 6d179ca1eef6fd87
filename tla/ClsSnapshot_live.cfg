CONSTANTS
    Workers = {w1, w2}
    Pdrs = {p1}
    NoPdr = NoPdr
    MaxVersion = 6
    MsgQueueSize = 6
    AllocMayFail = FALSE
SPECIFICATION FairSpec
PROPERTY RemovedPdrEventuallyFreed

CONSTANTS
    Workers = {w1, w2}
    Pdrs = {p1, p2}
    NoPdr = NoPdr
    MaxVersion = 6
    MsgQueueSize = 2
    AllocMayFail = TRUE
SPECIFICATION Spec
SYMMETRY Symmetry
INVARIANTS
    FlipIsAtomic
    NoDoubleFree
    RetireQueueOrdered
    ActiveIsLive
    NoUseAfterFree
PROPERTY VersionNeverGoesBack

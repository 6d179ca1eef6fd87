SPECIFICATION Spec
CONSTANTS
    FarActions = {"FORW", "BUFF"}
    MaxPkts = 3
    BatchSize = 2
    RingSize = 2
    InlineDrain = 1
    MsgQueueSize = 2
    MaxUpdates = 2
    Shaped = FALSE
INVARIANT SentOnce

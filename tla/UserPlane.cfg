SPECIFICATION MCSpec
CONSTANTS
    FarActions = {"FORW", "BUFF"}
    MaxPkts = 3
    BatchSize = 2
    RingSize = 2
    InlineDrain = 1
    MsgQueueSize = 1
    MaxUpdates = 2
    Shaped = TRUE
    Keys = {"a", "b", "c"}
    QosKeys = {"a", "b"}
    MaxFlows = 2
    MaxPktsPerFlow = 2
    MaxPktsPerUe = 2
    PoolSize = 3
    ClassBurst = 1
    DrainBudget = 2
    Lens = {1}
    Depths = {0, 1}
    MaxOffered = 3
    Hz = 300
    Rates = {1, 2}
    MinDepth = 3
    BurstMs = 8
    PktLens = {1, 2}
    MaxCycle = 6
    ServiceIds = {2, 5, 6, 7}
    UpfCId = 2
    Invalid = 7
    MaxWorkers = 3
    SessionKeys = {0, 1}
    Mix <- MCMix
    Indexes = {0}
    MaxSessions = 2
    MaxLbPkts = 2
INVARIANTS
    ReferencesAreExact
    QueuesKeepOrder
    
    FlushIsFinal
    NothingStranded
    WaitingFlowsAreActive
    QueuesAreCounted
    RatesAreKept
    TablesFindTheirEntries
    
PROPERTIES
    BufferedAreSent
    
    NothingComesEarly
CHECK_DEADLOCK FALSE

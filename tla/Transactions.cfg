SPECIFICATION MCSpec
CONSTANTS
    Slots = {s1, s2, s3}
    Timers = {t1, t2, t3}
    Sqns = {10, 11, 12}
    MaxXactId = 4
    RingSize = 2
    MaxReports = 2
    MaxOutstanding = 1
    NetDuplicates = FALSE
    PromptTimers = TRUE
    MaxSent = 3
INVARIANTS
    PoolIsExact
    TimersBelongToTransactions
    
    OneReleaseAhead
    
    SleeperCanBeWoken
PROPERTIES
    RequestIsReleased
    PacketsWakeNf
CHECK_DEADLOCK FALSE

SPECIFICATION Spec
CONSTANTS
    Slots = {s1, s2, s3}
    Timers = {t1, t2, t3}
    Sqns = {10, 11, 12}
    MaxXactId = 4
    RingSize = 2
    MaxReports = 0
    MaxOutstanding = 1
    NetDuplicates = TRUE
    PromptTimers = TRUE
INVARIANT PoolNeverOverfull

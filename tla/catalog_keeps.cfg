SPECIFICATION Spec
CONSTANTS
    Entity <- Two
    Durable <- OneDisk
    Watched <- OnlyTheProcess
    Sid <- Three
    Bucket = 2
    Hour = 4
    Slack = 1
    Span = 4
    RetentionEvery = 2
    RawKeep = 3
    RawDay = 2
    RawSpan = 2
    R5KeepDurable = 5
    R5KeepProcess = 4
    R1KeepDurable = 9
    R1KeepProcess = 8
    GoneExpire = 4
    Grace = 1
    Batch = 2
    ExpireRows = 1
    ReapScan = 2
    MaxNow = 16
    LongDown = 5
    MaxSightings = 3
    MaxExempt = 1
    MaxOpens = 1
    MaxFaults = 1
    Faults <- AllFaults
CONSTRAINT TwoOfThree
INVARIANT NoOrphans
INVARIANT HistoryIsKept
INVARIANT IncidentsAreTracked
INVARIANT AnswersAreWhole
\* the clock ends
CHECK_DEADLOCK FALSE

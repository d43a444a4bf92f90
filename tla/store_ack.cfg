SPECIFICATION Spec
CONSTANTS
    i1 = i1
    Incident = {i1}
    Time = {1}
    RateLimit = 2
    MaxSeq = 7
    MaxNote = 5
    MaxTicks = 4
    MaxCrashes = 0
    MaxLocks = 0
    MaxAcked = 1
    MaxDigests = 0
    Actions = FALSE
INVARIANT HistoryNeverRaises
\* every event is bounded: the behaviours end
CHECK_DEADLOCK FALSE

SPECIFICATION Spec
CONSTANTS
    i1 = i1
    i2 = i2
    Incident = {i1, i2}
    Time = {1, 2, 3}
    RateLimit = 2
    MaxSeq = 4
    MaxNote = 3
    MaxTicks = 3
    MaxCrashes = 1
    MaxLocks = 1
    MaxAcked = 1
    MaxDigests = 1
    Actions = TRUE
INVARIANT ActionsSpaced
PROPERTY HistoryInOrder
SYMMETRY IncidentSymmetry
\* every event is bounded: the behaviours end
CHECK_DEADLOCK FALSE

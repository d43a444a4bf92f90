SPECIFICATION Spec
CONSTANTS
    NRungs = 2
    Severity <- TwoRungs
    ConfirmCycles <- TwoOne
    ClearCycles <- OneTwo
    NotifyRecovery <- BothAnnounce
    LastTier = 2
    Backoff <- Tiers
    FlapWindow = 4
    FlapCount = 2
    FlapKeep = 3
    MaxNow = 7
    Saturate = FALSE
    MaxStep = 2
    RescanEvery = 2
    MaxId = 3
    MaxEdits = 2
    MaxCrashes = 1
    MaxLocks = 0
INVARIANT SeverityIsTop
INVARIANT MemoryMirrorsRows
INVARIANT BackoffSpacing
PROPERTY ClearedIsFinal
PROPERTY RaiseIsAnnounced
CHECK_DEADLOCK FALSE

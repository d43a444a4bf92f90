SPECIFICATION FairSpec
CONSTANTS
    NRungs = 1
    Severity <- OneRung
    ConfirmCycles <- Double
    ClearCycles <- Double
    NotifyRecovery <- Announces
    LastTier = 2
    Backoff <- Tiers
    FlapWindow = 4
    FlapCount = 2
    FlapKeep = 3
    MaxNow = 5
    Saturate = TRUE
    MaxStep = 1
    RescanEvery = 2
    MaxId = 2
    MaxEdits = 1
    MaxCrashes = 1
    MaxLocks = 1
INVARIANT CommitNeverRaises
PROPERTY Recovers

SPECIFICATION Spec
CONSTANTS
    StormLimit = 2
    MinuteTicks = 3
    Cooldown = 2
    ClearAfter = 3
    ConfirmCount = 3
    ConfirmWindow = 2
    NotifyRecovery = TRUE
    FlapWindow = 4
    FlapCount = 1
    FlapFactor = 2
    FlapKeep = 2
    MaxNow = 6
    MaxStep = 2
    MaxRecords = 1
    MaxRepeat = 2
    MaxOthers = 2
    MaxId = 3
    MaxEdits = 1
    MaxCrashes = 1
INVARIANT EpisodeIsEvidenced
INVARIANT BurstOpens
INVARIANT OneLiveEpisode
INVARIANT StormKeepsBooks
PROPERTY ClearsInQuiet
\* the clock ends
CHECK_DEADLOCK FALSE

SPECIFICATION FairSpec
CONSTANTS
    Delays <- TwoDelays
    MaxNote = 2
    NChannels = 2
    Lifetime = 2
    RetryAfter = {0, 2}
    QuietTime = {0}
    MaxNow = 2
    MaxTick = 1
    MaxFaults = 1
    MaxCrashes = 1
    MaxConfigs = 1
    MayDie = TRUE
INVARIANT BoundedRepeats
PROPERTY KeepsPromises
PROPERTY SettledIsFinal
PROPERTY RemoteIsSettled
PROPERTY FileIsWritten
\* a dead worker and a clock at its end stop the system
CHECK_DEADLOCK FALSE

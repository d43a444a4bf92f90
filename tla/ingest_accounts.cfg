SPECIFICATION FairSources
CONSTANTS
    a = a
    b = b
    Text = {a, b}
    MaxLog = 3
    QueueMax = 2
    DrainBudget = 1
    BackoffStart = 2
    BackoffCap = 2
    FirstRun = TRUE
    MaxDeaths = 2
    MaxLocks = 1
    MaxCrashes = 1
    MaxFaults = 2
    IdentityMax = 2
    Overlap = 2
    Second = 2
    Steps <- Gaps
    MaxPurged = 1
    Channel = {x, y}
    Malformed = malformed
    MaxFailures = 2
    Others <- SmallOthers
CONSTRAINT NamedInOrder
INVARIANT LossIsAccounted
INVARIANT DropsAreTold
INVARIANT CursorsCover
INVARIANT NothingTwice
PROPERTY EntriesArrive

SPECIFICATION SourcesSpec
CONSTANTS
    a = a
    b = b
    Text = {a, b}
    MaxLog = 3
    QueueMax = 2
    DrainBudget = 1
    BackoffStart = 2
    BackoffCap = 3
    FirstRun = FALSE
    MaxDeaths = 0
    MaxLocks = 1
    MaxCrashes = 0
    MaxFaults = 2
    IdentityMax = 2
    Overlap = 2
    Second = 2
    Steps <- Gaps
    MaxPurged = 1
    Channel = {x, y}
    Malformed = malformed
    MaxFailures = 2
    Others <- SmallOthers
SYMMETRY Symmetry
INVARIANT HandoffCovers

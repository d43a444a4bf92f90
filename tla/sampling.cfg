SPECIFICATION MCSpec
CONSTANTS
    Monitors = {"proc", "mail", "disk"}
    Def <- MCDef
    Entities <- MCEntities
    Spec <- MCSpec_
    Snapshots <- MCSnapshots
    Processes <- MCProcesses
    Late = {0, 4}
    TickLength = 5
    Budget = 10
    Grace = 15
    DemoteAfter = 30
    MaxAge = 31
    Limit = 1
    MaxReports = 1
    MaxMemory = 9
    MaxLate = 1
    MaxReloads = 1
    None = None
    Seconds <- MCSeconds
    MaxWindow = 21600
    Regexes <- MCRegexes
    Inside <- MCRegexes
    Rank <- MCRank
    DayWindows <- MCDays
    Largest = 1000000
INVARIANT WindowsAreWhole
INVARIANT PromotionsHold
INVARIANT OutcomesAreEvidenced
INVARIANT UnknownIsNoEvidence
CHECK_DEADLOCK FALSE

SPECIFICATION ReadersSpec
CONSTANTS
    Catalog <- Three
    FirstTables <- Tables
    FirstPast <- Past
    FirstBucket = 4
    Values <- TwoValues
    HalfLives <- OneOrTwo
    Now = 8
    Starts <- Ranges
    Scopes <- AllOrDisk
    RawRecent = 1
    RawMaxSpan = 1
    Keep5mDurable = 7
    Keep5mProcess = 4
    MinUpdates = 3
    MaxEntities = 2
    MaxPoints = 3
    MaxTotal = 5
    PageSize = 1
    ChartTimes <- Times
    ChartMax = 3
    Threshold = 1
    MaxWrites = 3
    StaleAfter = 1
    Interval = 1
    Versions = {"threshold", "plain"}
    Owner <- Owners
    Runs <- Outcomes
    LastRuns <- Before
    None = None
    MaxNow = 2
    MaxEdits = 1
    MaxStarts = 2
    MaxAcks = 1
INVARIANT AnswersAreExact
INVARIANT PagesListOnce
INVARIANT HistoryReplays
INVARIANT StatusIsEvidenced
\* a page that is shown ends
CHECK_DEADLOCK FALSE

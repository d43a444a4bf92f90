SPECIFICATION MCSpec
CONSTANTS
    Stems <- MCStems
    Bodies = {"v1", "v2", "ext", "ev", "bad", "boom"}
    About <- MCAbout
    Aliases = {"disk"}
    Recipe <- MCRecipe
    Tools = {t1}
    None = None
    MaxEdits = 2
    MaxCrashes = 1
    MaxLocked = 1
    Swap = FALSE
    Seconds <- MCSeconds
    MaxWindow = 21600
    Regexes <- MCRegexes
    Inside <- MCRegexes
    Rank <- MCRank
    DayWindows <- MCDays
    Largest = 1000000
    SOURCE_DECLS <- MCSources
    MonitorNames <- MCMonitorNames
    Ids <- MCIds
    Identifiers <- MCIdentifiers
    Long <- MCLong
    Trees <- MCTrees
    MaxPoints = 100
    MaxItems = 2
    Fields <- MCFields
INVARIANT ChecksAreBacked
INVARIANT NoInheritance
PROPERTY WholeOrNot
PROPERTY EditsArrive
CHECK_DEADLOCK FALSE

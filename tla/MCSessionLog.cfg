CONSTANTS
    Creator = creator
    CreatorJobs = {"create", "adhoc"}
    Notes = {}
    Tasks = {t1, t2}
    Snapshots = FALSE
    Verifying = TRUE
    Free = Free
    NoTask = NoTask
    MaxFaults = 1
SPECIFICATION FairSpec
CHECK_DEADLOCK FALSE
INVARIANTS
    ChainIntact
    AnchorMatchesLog
    YamlNeverAhead
    FalseAlarmNeedsEmptyLog
PROPERTIES
    TaskLinkKept
    ImplementsTrail
    CommandsEnd

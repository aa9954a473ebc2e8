CONSTANTS
    Creator = creator
    CreatorJobs = {"adhoc"}
    Notes = {}
    Tasks = {}
    Snapshots = FALSE
    Verifying = TRUE
    Free = Free
    NoTask = NoTask
    MaxFaults = 0
SPECIFICATION Spec
CHECK_DEADLOCK FALSE
INVARIANT
    TamperedIsReal

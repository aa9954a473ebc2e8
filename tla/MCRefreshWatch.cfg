CONSTANTS
    Claude = {a}
    Codex = {b}
    Foreign = {f}
    MaxForeign = 1
    MaxWrites = 2
    MaxFaults = 1
SPECIFICATION FairSpec
CHECK_DEADLOCK FALSE
INVARIANTS
    NothingMissed
    StaleIsOwed
PROPERTIES
    EverythingShown
    AbortEnds

CONSTANTS
    Claude = {a}
    Codex = {b}
    Foreign = {}
    MaxForeign = 0
    MaxWrites = 1
    MaxFaults = 1
SPECIFICATION FairSpec
CHECK_DEADLOCK FALSE
PROPERTY
    ImportTriggersRegeneration

CONSTANTS
    Approvers = {a}
    Rejecters = {r}
    Viewers = {v}
    ExpiresAt = 1
    Never = Never
    Free = Free
    MaxTime = 2
    MaxFaults = 2
SPECIFICATION FairSpec
CHECK_DEADLOCK FALSE
INVARIANTS
    OneResolution
    MirrorAgrees
    SuccessIsRecorded
    AnchorKept
PROPERTIES
    DecisionLands

CONSTANTS
    Procs = {p1, p2, p3}
    NoFile = NoFile
    HoursPass = TRUE
    MaxFaults = 2
SPECIFICATION RetrySpec
INVARIANTS
    UndisplacedExclusion
PROPERTIES
    DisplacedOnlyBlindlyOrByAge
    ImplementsLease
    StrandedLockCleared

CONSTANTS
    Procs = {p1, p2}
    NoFile = NoFile
    HoursPass = FALSE
    MaxFaults = 0
SPECIFICATION Spec
INVARIANT
    MutualExclusion

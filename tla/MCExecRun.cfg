CONSTANTS
    Commands = {"exec", "exec_timeout", "run_codex"}
    MaxSignals = 3
    MaxFaults = 2
SPECIFICATION FairSpec
CHECK_DEADLOCK FALSE
INVARIANTS
    ChildNotLeft
    OneOutcome
PROPERTIES
    Escalates

CONSTANTS
    Procs = {p, q}
    old = old
    new = new
    Tasks = {old, new}
    Existing = {old}
    Commands <- AllCommands
    Targets = {"in_progress", "done"}
    Free = Free
    MaxCommands = 3
    MaxTroubles = 1
SYMMETRY Symmetry
SPECIFICATION Spec
CHECK_DEADLOCK FALSE
INVARIANTS
    NeverHidden
    NoFalseNone
    TrailTells
    LinksComplete
PROPERTIES
    Finality
    HandEditsKept

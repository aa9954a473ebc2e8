CONSTANTS
    p = p
    q = q
    a = a
    b = b
    s = s
    anchor = anchor
    v = v
    Procs = {p, q}
    Hubs = {a, b}
    Selves = {s}
    Anchor = anchor
    View = v
    Name <- SmallName
    Commands <- SmallCommands
    Starts <- SmallStarts
    None = None
    Foreign = Foreign
    MaxCommands = 2
    MaxTroubles = 1
SYMMETRY Symmetry
SPECIFICATION Spec
CHECK_DEADLOCK FALSE
INVARIANTS
    ProseKept
    DeriveHeals
PROPERTIES
    OthersKept

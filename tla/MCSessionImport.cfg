CONSTANTS
    Importers = {p}
    Others = {q}
    Kinds = {"import", "force", "rechain"}
    Histories = {"new", "unchained", "unsized", "copies"}
    Copies = 1
    Free = Free
    MaxLength = 3
    MaxSessions = 3
    MaxFaults = 1
SPECIFICATION FairSpec
CHECK_DEADLOCK FALSE
INVARIANTS
    IdsUnique
    VerdictsTrue
    OneSession
PROPERTIES
    IdsKept
    CopiesStayOut
    CaughtUp

CONSTANTS
    Texts = {"x", "y"}
    MaxLines = 3
    MaxEdits = 2
SPECIFICATION TamperSpec
CHECK_DEADLOCK FALSE
INVARIANTS
    EditsDetected
    BreakIsLocalised

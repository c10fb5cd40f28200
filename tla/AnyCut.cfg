SPECIFICATION Spec
CONSTANTS
    Payloads <- Short
    bufsize = 6
    MaxFrames = 2
    Sides = {"server"}
    Torn = {}
    Whole = FALSE
    Stale <- NoMemory
    Behind <- Terminator
INVARIANTS
    OnlyWholeMessages
CHECK_DEADLOCK FALSE

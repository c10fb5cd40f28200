SPECIFICATION Spec
CONSTANTS
    Payloads <- Short
    bufsize = 6
    MaxFrames = 3
    Sides = {"server"}
    Torn = {}
    Whole = TRUE
    Stale <- NoMemory
    Behind <- Terminator
INVARIANTS
    OnlyWholeMessages
CHECK_DEADLOCK FALSE

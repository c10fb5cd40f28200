SPECIFICATION Spec
CONSTANTS
    Payloads <- Short
    bufsize = 6
    MaxFrames = 0
    Sides = {"client"}
    Torn = {"client"}
    Whole = TRUE
    Stale <- NoMemory
    Behind <- Terminator
INVARIANTS
    OnlyWholeMessages
CHECK_DEADLOCK FALSE

SPECIFICATION Spec
CONSTANTS
    Payloads <- Long
    bufsize = 6
    MaxFrames = 1
    Sides = {"server"}
    Torn = {}
    Whole = TRUE
    Stale <- NoMemory
    Behind <- Neighbour
INVARIANTS
    OnlyWholeMessages
CHECK_DEADLOCK FALSE

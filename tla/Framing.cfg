SPECIFICATION Spec
CONSTANTS
    Payloads <- Messages
    bufsize = 10
    MaxFrames = 2
    Sides = {"server", "client"}
    Torn = {"server", "client"}
    Whole = TRUE
    Stale <- OldMemory
    Behind <- Neighbours
INVARIANTS
    TypeOK
PROPERTIES
    ImplementsReader
    CallsEnd
CHECK_DEADLOCK FALSE

SPECIFICATION Spec
CONSTANTS
    Ports = {1, 2, 3}
    MaxLen = 3
INVARIANT
    SortedByPort
CHECK_DEADLOCK FALSE

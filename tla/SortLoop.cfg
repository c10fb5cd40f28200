SPECIFICATION Spec
CONSTANTS
    Ports = {1, 2, 3, 4}
    MaxLen = 4
INVARIANTS
    TypeOK
    Rearranged
    LoopMatchesOperator
    LargestLast
    SortedStaysPut
CHECK_DEADLOCK FALSE

SPECIFICATION Spec
CONSTANTS
    a = a
    b = b
    z = z
    IPs = {a, b}
    NoIP = NoIP
    NoConn = NoConn
    Indet = Indet
    Conns = {1, 2}
    Fds = {1, 2}
    Ports <- TwoPorts
    Texts = {1}
    Commands <- Blocking
    Console = {"BLOCKED"}
    ListenPorts <- CrossedPorts
    Resolvable = {a, b}
    MaxTyped <- TwoTwo
    Overlap = FALSE
INVARIANTS
    EXITRemovesInformation
CHECK_DEADLOCK FALSE

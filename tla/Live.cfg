SPECIFICATION LiveSpec
CONSTANTS
    a = a
    b = b
    z = z
    IPs = {a, b}
    NoIP = NoIP
    NoConn = NoConn
    Indet = Indet
    Conns = {1, 2, 3}
    Fds = {1, 2, 3}
    Ports <- TwoPorts
    Texts = {1, 2}
    Commands <- Leaving
    Console = {"LIST", "STATISTICS", "BLOCKED"}
    ListenPorts <- CrossedPorts
    Resolvable = {a, b}
    MaxTyped <- TwoOne
    Overlap = TRUE
PROPERTIES
    EndedSessionsAreReaped
    RequestsAreRead
CHECK_DEADLOCK FALSE

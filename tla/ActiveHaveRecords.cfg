SPECIFICATION Spec
CONSTANTS
    a = a
    b = b
    z = z
    IPs = {a, b}
    NoIP = NoIP
    NoConn = NoConn
    Indet = Indet
    Conns = {1, 2}
    Fds = {1, 2}
    Ports <- TwoPorts
    Texts = {1, 2}
    Commands <- Messaging
    Console = {}
    ListenPorts <- CrossedPorts
    Resolvable = {a, b}
    MaxTyped <- TwoTwo
    Overlap = TRUE
INVARIANTS
    ActiveHaveRecords
CHECK_DEADLOCK FALSE

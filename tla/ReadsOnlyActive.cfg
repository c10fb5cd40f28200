SPECIFICATION Spec
CONSTANTS
    a = a
    b = b
    z = z
    IPs = {a, b}
    NoIP = NoIP
    NoConn = NoConn
    Indet = Indet
    Conns = {1, 2}
    Fds = {1, 2}
    Ports <- TwoPorts
    Texts = {1, 2}
    Commands <- Listing
    Console = {}
    ListenPorts <- CrossedPorts
    Resolvable = {a, b}
    MaxTyped <- TwoTwo
    Overlap = FALSE
INVARIANTS
    ReadsOnlyActive
CHECK_DEADLOCK FALSE

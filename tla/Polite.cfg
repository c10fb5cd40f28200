SPECIFICATION Spec
CONSTANTS
    a = a
    b = b
    z = z
    IPs = {a, b}
    NoIP = NoIP
    NoConn = NoConn
    Indet = Indet
    Conns = {1, 2, 3}
    Fds = {1, 2, 3}
    Ports <- TwoPorts
    Texts = {1, 2}
    Commands <- Talking
    Console = {"STATISTICS"}
    ListenPorts <- CrossedPorts
    Resolvable = {a, b}
    MaxTyped <- TwoThree
    Overlap = FALSE
INVARIANTS
    OnlineIffListed
    NoPhantoms
    OnlyAddressed
    InOrder
PROPERTIES
    ImplementsMailboxes
CHECK_DEADLOCK FALSE

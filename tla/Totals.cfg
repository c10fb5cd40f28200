SPECIFICATION Spec
CONSTANTS
    a = a
    b = b
    z = z
    IPs = {a, b}
    NoIP = NoIP
    NoConn = NoConn
    Indet = Indet
    Conns = {1, 2, 3, 4}
    Fds = {1, 2}
    Ports <- TwoPorts
    Texts = {1}
    Commands <- Saying
    Console = {}
    ListenPorts <- CrossedPorts
    Resolvable = {a, b}
    MaxTyped <- TwoTwo
    Overlap = FALSE
INVARIANTS
    TotalsAreOfMessages
CHECK_DEADLOCK FALSE

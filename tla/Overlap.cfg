SPECIFICATION Spec
CONSTANTS
    a = a
    b = b
    z = z
    IPs = {a, b, z}
    NoIP = NoIP
    NoConn = NoConn
    Indet = Indet
    Conns = {1, 2, 3}
    Fds = {1, 2, 3}
    Ports <- TwoPorts
    Texts = {1, 2}
    Commands <- Mixed
    Console = {}
    ListenPorts <- ThreePorts
    Resolvable = {a, b}
    MaxTyped <- TwoTwoOne
    Overlap = TRUE
INVARIANTS
    TypeOK
    SocketsAreOpenDescriptors
    OnlineHasLiveSocket
    PhantomsNeedOverlap
PROPERTIES
    RelayIsRight
CHECK_DEADLOCK FALSE

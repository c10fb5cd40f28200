SPECIFICATION SysSpec
CONSTANTS
    a = a
    b = b
    IPs = {a, b}
    NoIP = NoIP
    NoConn = NoConn
    Indet = Indet
    Conns = {1, 2}
    Fds = {1, 2}
    Ports = {1}
    Texts = {1}
    Commands <- Talk
    Console = {"LIST", "STATISTICS", "BLOCKED"}
    ListenPorts <- OnePort
    Resolvable = {a, b}
    MaxTyped <- ThreeTwo
    Overlap = TRUE
INVARIANTS
    ClientTypeOK
    SessionsAgree
    BlockListsAgree
PROPERTIES
    ImplementsServer
    RelayIsRight
CHECK_DEADLOCK FALSE

SPECIFICATION SysSpec
CONSTANTS
    a = a
    b = b
    IPs = {a, b}
    NoIP = NoIP
    NoConn = NoConn
    Indet = Indet
    Conns = {1, 2}
    Fds = {1, 2}
    Ports = {1}
    Texts = {1}
    Commands <- Talk
    Console = {}
    ListenPorts <- OnePort
    Resolvable = {a, b}
    MaxTyped <- ThreeTwo
    Overlap = FALSE
PROPERTIES
    EXITIsNoticed
CHECK_DEADLOCK FALSE

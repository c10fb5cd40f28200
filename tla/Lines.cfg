SPECIFICATION Spec
CONSTANTS
    Alphabets <- Samples
    Hosts = {"ip", "ip2", "ip3"}
    me = "ip2"
    MaxStored = 2
INVARIANTS
    TokensAreWords
    ValidIsQuad
    ShownAsTyped
    BacklogAsRelayed
    ListArrives
CHECK_DEADLOCK FALSE

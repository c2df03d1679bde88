SPECIFICATION FairSpec
CONSTANTS
    ReqCalls = {r1, r2}
    Conns = {r1, r2}
    NoConn = NoConn
    PwCalls = {p1, p2}
    NoCall = NoCall
    Words = {"0", "size", "challenge", "challenge0", "ping"}
    MaxPings = 2
INVARIANTS
    TypeOK
    AnsweredOnce
    PasswordForConnections
PROPERTIES
    KeepsContract
    DeadDeviceLeaves
CHECK_DEADLOCK FALSE

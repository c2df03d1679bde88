SPECIFICATION FairSpec
CONSTANTS
    ReqCalls = {r1, r2}
    Conns = {k1, k2}
    NoConn = NoConn
    PwCalls = {p1}
    NoCall = NoCall
    Words = {"0", "4", "6", "other"}
PROPERTIES
    VerdictDelivered
    OpenedIsAnswered
CHECK_DEADLOCK FALSE

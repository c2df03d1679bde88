SPECIFICATION Spec
CONSTANTS
    ReqCalls = {r1}
    Conns = {k1}
    NoConn = NoConn
    PwCalls = {p1, p2}
    NoCall = NoCall
    Words = {"0", "4", "6", "other"}
INVARIANT UnlockWasReported
CHECK_DEADLOCK FALSE

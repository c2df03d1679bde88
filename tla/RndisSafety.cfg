SPECIFICATION Spec
CONSTANTS
    ReqCalls = {r1, r2}
    Conns = {k1, k2, k3}
    NoConn = NoConn
    PwCalls = {p1, p2, p3}
    NoCall = NoCall
    Words = {"0", "4", "6", "other"}
SYMMETRY Symmetry
INVARIANTS
    AnsweredOnce
    DeliveredToRequester
    UnlockedByVerdict
    IndInv
PROPERTIES
    KeepsContract
CHECK_DEADLOCK FALSE

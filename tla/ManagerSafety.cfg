SPECIFICATION Spec
CONSTANTS
    Entries = {e1, e2}
    Paths = {p1, p2}
    Ips = {i1, i2}
    None = None
    MaxTries = 1
SYMMETRY Symmetry
INVARIANTS
    IndInv
    ListedIsAnnounced
    NothingOutlivesEntry
    AddressOwned
CHECK_DEADLOCK FALSE

SPECIFICATION FairSpec
CONSTANTS
    Paths = {p1}
    Objects = {1, 2, 3}
    Enums = {e1, e2}
    Sessions = {s1}
    Listeners = {l1}
    None = None
    SeqMax = 4
    MaxMoves = 2
    MaxInits = 2
    MaxHeld = 1
INVARIANTS TypeOK RefsAreHolders NothingDangles KeptDesktopIsSafe
PROPERTY DeviceIsListed
CHECK_DEADLOCK FALSE

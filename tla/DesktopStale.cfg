SPECIFICATION ReadableSpec
CONSTANTS
    Paths = {p1}
    Objects = {1, 2, 3}
    Enums = {}
    Sessions = {}
    Listeners = {}
    None = None
    SeqMax = 4
    MaxMoves = 3
    MaxInits = 1
    MaxHeld = 1
INVARIANT OnlyConnectedListed
CHECK_DEADLOCK FALSE

SPECIFICATION FairSpec
CONSTANTS
    Entries = {e1, e2}
    Paths = {p1, p2}
    Ips = {i1}
    None = None
    MaxTries = 2
PROPERTIES
    FreeAddressIsTaken
    RetriesEnd
CHECK_DEADLOCK FALSE

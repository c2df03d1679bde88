SPECIFICATION FairSpec
CONSTANTS
    Files = {f1, f2}
    None = None
    Careless = {"release", "truncate", "ftruncate", "utimens"}
    MaxOpen = 1
    MaxChunks = 2
INVARIANTS TypeOK OneCallAtATime SuccessIsTrue HandlesAreFiles RenameKeepsSource
PROPERTIES RequestsEnd GoneIsUnmounted
CHECK_DEADLOCK FALSE

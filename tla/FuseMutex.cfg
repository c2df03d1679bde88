SPECIFICATION Spec
CONSTANTS
    Files = {f1, f2}
    None = None
    Careless = {"release", "truncate", "ftruncate", "utimens"}
    MaxOpen = 1
    MaxChunks = 1
INVARIANT MutexProtects
CHECK_DEADLOCK FALSE

SPECIFICATION FairSpec
CONSTANTS
    Names <- MCNames
    Backends = {1, 2}
    Ops <- MCOps
    Apis = {"Ce", "session"}
    Functions <- MCFunctions
    Transports = {"ppp", "proxy", "udev"}
    OsVersions <- MCOsVersions
    Untrusted <- MCUntrusted
    Unexplained <- MCUnexplained
    Misread <- MCMisread
    Followers = {"CeReadFile", "CeRapiInvoke"}
    MaxCalls = 2
INVARIANTS TypeOK AnswerIsOwn DoneIsTold FailureIsExplained
PROPERTIES CallsEnd KeepsContract
CHECK_DEADLOCK FALSE

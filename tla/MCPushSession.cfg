SPECIFICATION PushSpec
CONSTANTS
    Refs = {main, dev}
    Ids = {a}
    Clients = {}
    MaxCalls = 1
    Transports <- BothTransports
    Supports <- AnyCapabilities
    PackChunks = 2
INVARIANTS NilMeansUpdated NothingLeft
PROPERTIES CloseReturns
CHECK_DEADLOCK FALSE

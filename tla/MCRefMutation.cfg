SPECIFICATION RefSpec
CONSTANTS
    Refs = {main}
    Ids = {a, b}
    Clients = {p, q}
    MaxCalls = 2
INVARIANTS NoLostUpdate
CHECK_DEADLOCK FALSE

SPECIFICATION UsersSpec
CONSTANTS
    c1 = c1
    c2 = c2
    c3 = c3
    Empty = Empty
    Unparsed = Unparsed
    Failed = Failed
    Pending = Pending
    NoCond = NoCond
    Calls <- MCCalls
    Outputs <- MCOutputs
    Releases <- MCReleases
    Remote = "origin"
    Looks <- MCLooks
    Scenarios <- MCScenarios
CHECK_DEADLOCK FALSE
INVARIANTS SingleFlight FailsAlone StatusExact RemotesExact
PROPERTIES CancelledReturns EveryCallReturns ImplementsVersionMemo

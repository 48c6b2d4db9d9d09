SPECIFICATION CatFairSpec
CONSTANTS
    CatGit = CatGit
    Procs <- MCProcs
    Pipers = {TRUE, FALSE}
    PipeCap = 2
    MaxChunks = 4
INVARIANTS WholeFile NothingLeft
PROPERTIES CloseEndsAll ReaderReachesEnd
CHECK_DEADLOCK FALSE

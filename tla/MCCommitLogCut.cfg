SPECIFICATION Spec
CONSTANTS
    RevList = RevList
    CatFile = CatFile
    Procs <- MCProcs
    Pipers = {TRUE}
    PipeCap = 1
    Sizes <- MCSizesCut
    LineCap = 1
    CaptureCap = 1
    MaxErr = 0
INVARIANTS ParseFailureReported
CHECK_DEADLOCK FALSE

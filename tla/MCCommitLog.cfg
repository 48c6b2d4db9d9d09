SPECIFICATION FairSpec
CONSTANTS
    RevList = RevList
    CatFile = CatFile
    Procs <- MCProcs
    Pipers = {TRUE}
    PipeCap = 1
    Sizes <- MCSizes
    LineCap = 1
    CaptureCap = 2
    MaxErr = 3
INVARIANTS CleanEndIsComplete CommitsInOrder NothingLeft StderrWhole
PROPERTIES CloseEndsGit NextReturns
CHECK_DEADLOCK FALSE

SPECIFICATION FairSpec
CONSTANTS
    P = P
    Procs <- MCProcs
    Pipers = {TRUE}
    PipeCap = 2
    Commands <- BothCommands
    Repos <- AllRepos
    OptionSets <- AllOptions
INVARIANTS CleanEndIsComplete
PROPERTY ClosingStopsGit
CHECK_DEADLOCK FALSE

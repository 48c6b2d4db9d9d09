SPECIFICATION FairSpec
CONSTANTS
    NumEntries = 4
    NumIndexers = 2
    Corrupt = Corrupt
    Ids <- MCIds
    Packs <- PacksAndTrees
INVARIANTS IndexExact ErrorNotLost NoGoroutineOutlives
PROPERTIES WaitGroupDiscipline Termination ImplementsPackIndex

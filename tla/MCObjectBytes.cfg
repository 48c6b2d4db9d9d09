SPECIFICATION BytesSpec
CONSTANTS
    Nibble = 2
    Radix = 3
    MaxOffsetBytes = 3
    Large = 6
    FirstByte <- FirstBytes
    LastByte = 2
    Objects <- SomeObjects
    IDOrders <- SomeOrders
    MaxSize = 4
    MaxObjects = 3
    MaxChunk = 2
    Versions = {1, 2}
    CopyAll = 2
    MaxDeltaObjectSize = 2
    MaxCalls = 2
    MaxCut = 18
    Names <- PathNames
    Modes = {"plain", "dir"}
    DirModes = {"dir"}
    MaxEntries = 3
    ForeignCommits <- SomeForeignCommits
    GivenCommits <- SomeGivenCommits
CHECK_DEADLOCK FALSE
INVARIANTS
    ReadsBack
    EOFMeansWhole
    UndeltifyExact
    SearchExact
    RoundTrip

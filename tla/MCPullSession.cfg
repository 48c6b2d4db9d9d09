SPECIFICATION Spec
CONSTANTS
    Refs = {main, dev}
    Ids = {a}
    Clients = {}
    MaxCalls = 1
    Haves = {x, y}
    Common = {x}
    MaxRounds = 2
    FeaturesV1 <- SomeFeatures
    PackData <- MCPackData
INVARIANTS ListingIsComplete EOFMeansWholePack AnswerIsSound ResponseUnderstood NothingOpen
CHECK_DEADLOCK FALSE

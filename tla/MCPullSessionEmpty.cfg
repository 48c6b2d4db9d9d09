SPECIFICATION Spec
CONSTANTS
    Refs = {main}
    Ids = {a}
    Clients = {}
    MaxCalls = 0
    Haves = {x}
    Common = {x}
    FeaturesV1 <- SomeFeatures
    PackData <- MCPackData
    MaxRounds = 1
INVARIANTS EmptyMeansEmpty
CHECK_DEADLOCK FALSE

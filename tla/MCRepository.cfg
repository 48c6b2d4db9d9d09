SPECIFICATION Spec
CONSTANTS
    Clients = {"c1", "c2"}
    Dir <- Dirs
    Paths <- SomePaths
    Contents = {x, y}
    Branches = {"main", "master"}
    DefaultBranch = "master"
    Messages = {"m"}
    Uses <- Calls
    Pathspecs <- SomePathspecs
    Remote = {"main"}
    MaxCommits = 4
    MaxCommands = 5
SYMMETRY Symmetry
CHECK_DEADLOCK FALSE
PROPERTIES
    CommitsAsAsked
    HeadMovesAsAsked

SPECIFICATION Spec
CONSTANTS
    Inputs <- AllInputs
    Rank <- Order
    MAX_DIR = 3
    MAX_DEPTH = 3
    MAX_PATH_LEN = 9
    CURDIR <- Here
    MaxCreated = 1
    MaxRemoved = 1
INVARIANTS
    ListsAsDocumented
    SummariesAddUp
    StandsBelowItsDirectory
    DirsAreClosed
    MatchesAsDocumented
CHECK_DEADLOCK FALSE

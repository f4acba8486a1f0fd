CONSTANTS
    Watchers = {w1}
    Depth = 0
    Inodes = {i1, i2}
    LineLen = 1
    FPLen = 1
    BatchSize = 2
    Oversized <- ThirdOfFirst
    UniqueHeads = TRUE
    StatWindow = FALSE
    NoFile = NoFile
    NoRow = NoRow
    MaxGen = 2
    MaxLen = 3
    MaxErrors = 1
    MaxCrashes = 1
    MaxCopies = 2
SPECIFICATION FairSpec
CONSTRAINT CopiesBounded
INVARIANTS TypeOK NoLineSkipped DuplicatesHaveACause
PROPERTIES OffsetAdvances ShipsAtLeastOnce EveryLineArrives

CONSTANTS
    Watchers = {w1}
    Depth = 1
    Inodes = {i1, i2}
    LineLen = 1
    FPLen = 1
    BatchSize = 1
    Oversized <- None
    UniqueHeads = TRUE
    StatWindow = FALSE
    NoFile = NoFile
    NoRow = NoRow
    MaxGen = 1
    MaxLen = 2
    MaxErrors = 0
    MaxCrashes = 0
    MaxCopies = 4
SPECIFICATION Spec
INVARIANT RotationNeverReingests

CONSTANTS
    Oversized <- SecondOfFirst
    None = None
    MaxGen = 2
    MaxLen = 2
    MaxErrors = 1
SPECIFICATION FairSpec
INVARIANTS TypeOK OnceForEachOpen
PROPERTY FirstReadArrives
CHECK_DEADLOCK FALSE

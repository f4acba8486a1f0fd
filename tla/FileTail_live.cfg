CONSTANTS
    Oversized = {}
    None = None
    MaxGen = 1
    MaxLen = 2
    MaxErrors = 0
SPECIFICATION FairSpec
PROPERTY LiveTailed
CHECK_DEADLOCK FALSE

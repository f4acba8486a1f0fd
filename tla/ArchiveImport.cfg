CONSTANTS
    DirSources = {d1}
    FileSources = {f1}
    Commands = {c1}
    Depth = 2
    InodeOf <- OneInode
    Oversized <- SecondOfSecond
    BatchSize = 2
    NoFile = NoFile
    NoRow = NoRow
    MaxArchives = 2
    MaxLines = 2
    MaxStarts = 2
    MaxErrors = 1
    MaxCount = 3
SPECIFICATION FairSpec
CONSTRAINT Scope
INVARIANTS TypeOK SkippedIsImported RepeatsHaveACause OneLateArchive
PROPERTIES CancelledExits CompleteArchivesArrive
CHECK_DEADLOCK FALSE

CONSTANTS
    Docs = {d1}
    Versions = {1, 2}
    Contents = {a, b}
    Requests = {}
    MaxTasks = 2
    MaxPreambles = 2
    MaxJobs = 1
    MayThrow = TRUE
    ReuseVersions = FALSE
SPECIFICATION FairSpec
INVARIANTS
    TypeOK
    ContentCurrent
    ClosedIsDoomed
PROPERTIES
    NewestStaysStored
    RebuildEnds
    ClosedIsFreed
    LateIsReplaced

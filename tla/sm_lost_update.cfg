CONSTANTS
    Docs = {d1}
    Versions = {1}
    Contents = {a}
    Requests = {}
    MaxTasks = 2
    MaxPreambles = 1
    MaxJobs = 1
    MayThrow = FALSE
    ReuseVersions = TRUE
SPECIFICATION Spec
INVARIANT NothingLost

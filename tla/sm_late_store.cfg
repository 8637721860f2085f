CONSTANTS
    Docs = {d1}
    Versions = {1, 2}
    Contents = {a}
    Requests = {}
    MaxTasks = 2
    MaxPreambles = 1
    MaxJobs = 1
    MayThrow = FALSE
    ReuseVersions = FALSE
SPECIFICATION Spec
PROPERTY CancelledNeverStores

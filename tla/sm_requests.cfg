CONSTANTS
    Docs = {d1}
    Versions = {1, 2}
    Contents = {a}
    Requests = {r1}
    MaxTasks = 2
    MaxPreambles = 2
    MaxJobs = 1
    MayThrow = FALSE
    ReuseVersions = FALSE
SPECIFICATION FairSpec
INVARIANTS
    NothingLost
    PendingInFlight
    OldPreambleReleased
PROPERTIES
    NotFoundOnlyIfUnwanted
    ImplementsStore
    RequestsAnswered

SPECIFICATION FairSpec
CONSTANTS
    Docs = {d1}
    Revised = {d1}
    MaxVersion = 1
    MaxChanges = 0
    MaxSaves = 0
    MaxMessages = 1
    CleanClose = FALSE
PROPERTY ClosedIsForgotten
CHECK_DEADLOCK FALSE

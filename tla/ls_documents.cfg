SPECIFICATION FairSpec
CONSTANTS
    Docs = {d1, d2}
    Revised = {d1}
    MaxVersion = 3
    MaxChanges = 2
    MaxSaves = 1
    MaxMessages = 4
    CleanClose = TRUE
INVARIANT TypeOK
INVARIANT ReloadIsDue
INVARIANT OldSessionsGo
INVARIANT LatestTextIsDue
INVARIANT ClosedIsLeaving
PROPERTY NewestVersionWins
PROPERTY DocumentsSettle
PROPERTY ChangesReachPreamble
CHECK_DEADLOCK FALSE

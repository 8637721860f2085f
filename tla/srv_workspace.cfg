CONSTANTS
    Root <- MCRoot
    CurrentPath <- MCRoot
    SystemVerilogNames = {"a.sv"}
    HiddenNames = {".git"}
    Settings <- MCSettings
    ListLines <- MCListLines
    Paths <- MCPaths
    Changing <- MCChanging
    Texts <- MCTexts
    Requests = {r1}
    MaxDeeds = 3
SPECIFICATION FairSpec
INVARIANTS
    TypeOK
    LayoutFollowsDisk
    FilesAreSelected
PROPERTIES
    PreambleFollowsLayout
    RequestsAnswered
    ExitEndsProcess
CHECK_DEADLOCK FALSE

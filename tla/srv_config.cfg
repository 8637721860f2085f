CONSTANTS
    Root <- MCRoot
    CurrentPath <- MCRoot
    SystemVerilogNames = {"a.sv"}
    HiddenNames = {".git"}
    Settings <- MCSettings
    ListLines <- MCListLines
    Paths <- MCPaths
    Changing <- MCChanging
    Texts <- MCTexts
    Requests = {r1}
    MaxDeeds = 1
SPECIFICATION Spec
INVARIANTS
    ConfigFollowsFile
CHECK_DEADLOCK FALSE

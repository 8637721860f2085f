CONSTANT MaxFiles = 4
SPECIFICATION FairSpec
INVARIANTS
    FrameOutlivesParses
    PreambleComplete
PROPERTY BuildEnds
CHECK_DEADLOCK FALSE

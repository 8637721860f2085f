SPECIFICATION Spec
INVARIANTS
    EveryMessageIsRead
    NothingElseLost
CHECK_DEADLOCK FALSE

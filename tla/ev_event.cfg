CONSTANTS
    Waiters = {w1, w2, w3}
    Setters = {s1, s2}
SPECIFICATION FairSpec
INVARIANTS
    HeldOnce
PROPERTIES
    ImplementsFairEvent

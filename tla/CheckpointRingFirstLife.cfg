CONSTANTS
    NSlots = 2
    MaxParts = 2
    CommitAttempts = 2
    MayDeny = FALSE
    MaxLateParts = 0
    MaxLateMeta = 0
    MaxStep = 2
    MaxLives = 2
    MaxFaults = 1
SPECIFICATION Spec
INVARIANTS RingCovers
CHECK_DEADLOCK FALSE

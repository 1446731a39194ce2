CONSTANTS
    NSlots = 2
    MaxParts = 2
    CommitAttempts = 2
    MayDeny = FALSE
    MaxLateParts = 0
    MaxLateMeta = 1
    MaxStep = 2
    MaxLives = 2
    MaxFaults = 2
SPECIFICATION Spec
INVARIANTS MetaReadable
CHECK_DEADLOCK FALSE

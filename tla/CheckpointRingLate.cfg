CONSTANTS
    NSlots = 2
    MaxParts = 2
    CommitAttempts = 2
    MayDeny = TRUE
    MaxLateParts = 1
    MaxLateMeta = 1
    MaxStep = 2
    MaxLives = 2
    MaxFaults = 2
SPECIFICATION Spec
INVARIANTS NeverRunsOnTornRestore LabelNotAhead
CHECK_DEADLOCK FALSE

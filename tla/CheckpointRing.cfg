CONSTANTS
    NSlots = 2
    MaxParts = 2
    CommitAttempts = 2
    MayDeny = FALSE
    MaxLateParts = 0
    MaxLateMeta = 0
    MaxStep = 2
    MaxLives = 3
    MaxFaults = 3
SPECIFICATION FairSpec
INVARIANTS TypeOK MetaReadable LabelNotAhead ResumedRingCovers
PROPERTIES ImplementsStore StepBecomesDurable
CHECK_DEADLOCK FALSE

CONSTANTS
    Nodes = {n1}
    MaxAttempts = 2
    MaxReallocs = 1
    MaxBoots = 4
    MaxFaults = 2
SPECIFICATION Spec
INVARIANTS TypeOK OutputsMatchEnvelope RedoneWithinCap MovesWithinLimit
PROPERTIES ImplementsShard
CHECK_DEADLOCK FALSE

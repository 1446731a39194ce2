CONSTANTS
    Nodes = {n1, n2}
    MaxAttempts = 2
    MaxReallocs = 1
    MaxBoots = 2
    MaxFaults = 0
SPECIFICATION Spec
INVARIANTS OutputsMatchEnvelope
CHECK_DEADLOCK FALSE

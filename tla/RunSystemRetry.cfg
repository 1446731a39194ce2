CONSTANTS
    Endings = {"Succeeded", "Interrupted", "AgentError"}
    MaxTries = 2
    MaxAttempts = 2
    Tolerance = 2
    Lag = 1
    MaxAttach = 1
    MaxApiFaults = 0
SPECIFICATION Spec
INVARIANTS UnfinishedIsRetried
CHECK_DEADLOCK FALSE

CONSTANTS
    Endings = {"Succeeded", "TimedOut", "Failed"}
    MaxTries = 2
    MaxAttempts = 2
    Tolerance = 2
    Lag = 1
    MaxAttach = 1
    MaxApiFaults = 1
SPECIFICATION FairSpec
INVARIANTS TypeOK OverMeansTornDown
PROPERTIES ImplementsContract BillingEnds
CHECK_DEADLOCK FALSE

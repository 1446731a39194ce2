SPECIFICATION LaunchSpec
CONSTANTS
    ShardCount = 3
    MaxLaunchFaults = 1
INVARIANT MidLoopFailureLeaksNothing
CHECK_DEADLOCK FALSE

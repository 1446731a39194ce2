SPECIFICATION FairSpec
CONSTANTS
    Components = {"exec", "timers", "session", "service", "job", "launch"}
    Capacity = 1
    MaxBytes = 2
    PumpBuf = 2
    MaxCps = 2
    LastChunk = 1
    MaxTries = 2
    MaxPuts = 1
    MaxSize = 3
    MaxVersions = 3
    MaxExecs = 1
    ExecRequests = {r1, r2}
    MaxBoots = 3
    MaxSessionFaults = 1
    MaxServeFaults = 1
    MaxWrites = 3
    FinalPasses = 3
    Pushes = {p1, p2}
    ImageNames = {a}
    ImageLayers = {l1, l2}
    MaxVisits = 2
    MaxRedirects = 3
    Machines = {m1, m2}
    MaxTime = 3
    MaxCollections = 1
    Callers = {c1, c2}
    MaxAttempts = 2
    Burst = 2
    MaxFlaws = 2
    PageSize = 4
    MinWindow = 2
    MaxQueries = 5
    Limit = 5
    SubMillis = 2
    LastMilli = 6
    Bursts = {1, 2}
    HeadCap = 2
    TailCap = 2
    Buf = 2
    MaxOutput = 6
    ShardCount = 3
    MaxLaunchFaults = 1
    Runs = {r1, r2}
    MaxCommits = 1
    MaxPrefixFaults = 1
    GroupCount = 2
    Window = 3
    FollowLimit = 2
    FollowPage = 2
    SeenCap = 3
    Batches = {0, 1}
    MaxPolls = 3
    TopNames = {"a", "b"}
    SubNames = {"a"}
    Patterns <- MCPatterns
    OutNames = {"x", "y", "../z"}
    PlainNames = {"x", "y"}
    OutputCount = 2
    PartFiles = 1
    PartLimit = 2
    MaxShipFaults = 1
PROPERTIES FollowEnds MaxDurationEnds JobIsConcluded WatchersEndTheBill
CHECK_DEADLOCK FALSE

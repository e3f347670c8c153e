SPECIFICATION MCPlatformSpec
CONSTANTS
    Instances = {i1, i2}
    Channels = {ch}
    StaleThreshold = 1
    DeadThreshold = 2
    MaxTime = 4
    MaxLag = 1
    MaxCursor = 1
    BindingIds = {1, 2, 3}
    MaxResolved = 2
    InlineBudget = 1
    PacketBytes = 2
    MaxEdits = 3
    Keep = 2
    MaxExports = 5
    Guests = {1, 2}
    MaxCoverage = 2
    MaxFaults = 2
    Commands = {"c"}
    Files = {"f"}
    TTL = 1
    StaleAfter = 1
    ResMaxTime = 3
CHECK_DEADLOCK FALSE
INVARIANTS
    SilenceIsReal
    ResolutionIsBest
    RestorePointKept
    CachedIsSent
    QuietIsReal
PROPERTIES
    SilentIsMarkedDead
    CoverageConverges
    FinishedFilesClose

SPECIFICATION MCRacesSpec
CONSTANTS
    k1 = k1
    a1 = a1
    None = None
    TargetsOf <- MCTargetsOf
    Keys = {k1}
    Agents = {a1, a2}
    Tokens = {t1, t2}
    Claimers = {c1, c2}
    TTLs = {1, 3}
    MaxTTL = 2
    PendingTTL = 2
    RunningTTL = 1
    MaxTime = 2
    MaxLag = 1
    ImageUploads = {1, 2, 3}
    Contents = {"a", "b"}
    Names = {"n"}
    Publishers = {1, 2}
    MaxServed = 2
    PostPaths = {"p1", "p2"}
    MaxVersion = 2
    MaxCommits = 2
    MaxPublications = 2
    Runners = {"r1", "r2", "r3"}
    Schemas <- MCSchemas
    Versions <- MCVersions
    MaxKills = 1
    EmitRequests <- MCRequests
    RowLimits = {0, 2}
    MaxRowLimit = 2
    DefaultRowLimit = 1
    ChatSources = {"store", "legacy"}
    Channels = {1}
    MaxPerSource = 2
    MaxTurns = 2
    Members = {"a1", "a2"}
    Assignments = {"w1"}
SYMMETRY Symmetry
CHECK_DEADLOCK FALSE
INVARIANTS
    ClaimsAreAuthorized
    EventLogAgrees
    ContentIsWhole
    
    AppliedInOrder
    ViewsMissNothing
PROPERTIES
    ImplementsLifecycle

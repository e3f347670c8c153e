SPECIFICATION MCRecordsSpec
CONSTANTS
    None = None
    Keep = Keep
    acceptanceKey = acceptanceKey
    TaskIds = {1, 2, 3, 4}
    Requests = {1, 2, 3}
    Keys = {acceptanceKey}
    Calls <- MCCalls
    Starts <- MCStarts
    BoardCalls = {1, 2, 3, 4}
    BoardKeys = {1}
    Slugs = {s, t}
    Uploads = {1, 2, 3}
    Readers = {r}
    Docs = {"d"}
    DocCalls = {1, 2, 3}
    MaxSwitches = 2
    Editors = {a, b, c}
    CrewLimit = 2
    MaxTurns = 3
    Callers = {"a", "b", "c"}
    Catalog <- MCCatalog
    Offered <- MCOffered
    CoreTools = {"mark_read"}
    MaxBatch <- MCBatch
    MaxPayloads = 1
    MaxRestarts = 1
    ReferenceTTL = 0
    MaxClock = 1
    RouteFiles <- MCFiles
    MaxRoutes = 3
    Inbound <- MCInbound
    Mappings <- MCMappings
    MaxRequests = 1
    References = {1, 2, 3}
    Inherited <- MCInherited
    Resolutions <- MCResolutions
    Named = {{}, {2, 3}}
    Finds <- MCFinds
    MaxHandles = 2
    MaxInstant = 2
    MaxRows = 2
    Limits = {1, 3}
    MaxLimit = 2
    MaxStreams = 2
CHECK_DEADLOCK FALSE
INVARIANTS
    AuditIsTrue
    BoardIsConsistent
    TrailIsComplete
    
    CrewEditsAreKept
    ToolCallsRunOnce
    SchemaCallsAreSent
    ForwardedAsRouted
    MustReadsComeFirst
    StreamSkipsNothing
PROPERTIES
    FeedCoversChanges

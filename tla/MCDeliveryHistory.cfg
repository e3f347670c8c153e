SPECIFICATION FairHistorySpec
CONSTANTS
    Instances = {i1}
    Channels = {}
    StaleThreshold = 1
    DeadThreshold = 2
    MaxCursor = 0
    Keys = {k1}
    Agents = {a1}
    Tokens = {t1}
    Claimers = {c1}
    TTLs = {2}
    MaxTTL = 2
    PendingTTL = 1
    RunningTTL = 1
    None = None
    MaxTime = 1
    MaxLag = 0
    TargetsOf <- MCTargetsOf
    InstanceOf <- MCInstanceOf
CHECK_DEADLOCK FALSE
PROPERTIES
    AliveHolderKeepsWork
    OverdueLeaves

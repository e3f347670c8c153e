SPECIFICATION FairGateSpec
CONSTANTS
    None = None
    Commits = {a, b}
    Checks = {x}
    Requests = {1, 2}
    Timeout = 1
    PollInterval = 1
    Grace = 1
    BatchSize = 2
    Horizon = 2
    MaxFaults = 1
CHECK_DEADLOCK FALSE
INVARIANTS
    GateRecordIsTrue
PROPERTIES
    
    GatesConclude

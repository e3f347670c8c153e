SPECIFICATION GateSpec
CONSTANTS
    None = None
    Commits = {a}
    Checks = {x, y}
    Requests = {1, 2}
    Timeout = 1
    PollInterval = 1
    Grace = 1
    BatchSize = 2
    Horizon = 2
    MaxFaults = 0
CHECK_DEADLOCK FALSE
INVARIANT
    PassedOnRequestedChecks

SPECIFICATION TasksSpec
CONSTANTS
    None = None
    Keep = Keep
    acceptanceKey = acceptanceKey
    TaskIds = {1, 2, 3}
    Requests = {1, 2}
    Keys = {acceptanceKey}
    Calls <- MCMoves
    Starts <- MCChain
CHECK_DEADLOCK FALSE
INVARIANT
    ParentsAreAcyclic

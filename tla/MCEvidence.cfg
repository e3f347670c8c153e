SPECIFICATION MCEvidenceSpec
CONSTANTS
    None = None
    r1 = r1
    r2 = r2
    Reqs = {q1, q2}
    Authors = {a}
    Decisions <- MCDecisions
    MaxRounds = 2
    MaxFindings = 2
    MaxCalls = 3
    MaxMoves = 1
    Parts = {"rounds", "verdict", "ops", "context"}
    LaterCommitLimit = 2
    LaterCommits = 2
    MaxGitHubMoves = 1
    OpsRuns = {1, 2}
    LossyRuns = {1}
    Period = 1
    RunGrace = 1
    StaleAfter = 1
    OpsMaxTime = 2
    MaxBeats = 1
    MaxLate = 1
    ComposedReads = {"get_project", "get_task_workflow_summary", "get_task_context", "get_review_context"}
    Held = {0, 1, 2}
    ItemLimit = 1
    ByteBudget = 3
    DetailBudget = 4
    PacketKeys = {"k"}
SYMMETRY Symmetry
CHECK_DEADLOCK FALSE
INVARIANTS
    RoundsSettleOnce
    
    
    
PROPERTIES
    DecisionStands

SPECIFICATION MCConversationSpec
CONSTANTS
    NoItem = NoItem
    External = External
    Posts = {p1, p2}
    Issues = {i1, i2}
    Comments = {c1}
    Remotes = {g1, g2}
    Syncs = {s1}
    MaxFaults = 1
    Talkers = {a, b}
    Waiters = {b}
    Sends = {1, 2, 3}
    PageLimit = 1
    KeepsCursor = {}
CHECK_DEADLOCK FALSE
INVARIANTS
    OneIssuePerPost
    SentIsFound
PROPERTIES
    
    UnreadIsShown

SPECIFICATION RelaySpec
CONSTANTS
    NoItem = NoItem
    External = External
    Posts = {p1}
    Issues = {i1}
    Comments = {c1}
    Remotes = {g1, g2}
    Syncs = {s1}
    MaxFaults = 1
CHECK_DEADLOCK FALSE
INVARIANT
    OneRemotePerComment

\* Two keys of two workspaces compete for one cache slot.
CONSTANTS
    k1 = k1  k2 = k2  w1 = w1  w2 = w2  r1 = r1  r2 = r2  r3 = r3
    NoRequest = NoRequest
    Keys = {k1, k2}
    Workspaces = {w1, w2}
    WorkspaceOf <- TwoKeys
    Requests = {r1, r2}
    Senders = {s1}
    SenderLimit = 1
    SenderWindow = 1
    MaxSenders = 1
    CacheTTL = 1
    ShortCacheTTL = 1
    MaxStaleAge = 3
    Timeout = 1
    Capacity = 1
    MaxTime = 2
SPECIFICATION Spec
SYMMETRY RequestSymmetry
INVARIANTS TypeOK OwnWorkspace CacheBounded
CHECK_DEADLOCK FALSE

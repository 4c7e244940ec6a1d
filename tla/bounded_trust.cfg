\* One key, two requests, a clock that runs past every deadline.
CONSTANTS
    k1 = k1  k2 = k2  w1 = w1  w2 = w2  r1 = r1  r2 = r2  r3 = r3
    NoRequest = NoRequest
    Keys = {k1}
    Workspaces = {w1}
    WorkspaceOf <- SharedKey
    Requests = {r1, r2}
    Senders = {s1}
    SenderLimit = 1
    SenderWindow = 4
    MaxSenders = 1
    CacheTTL = 2
    ShortCacheTTL = 2
    MaxStaleAge = 4
    Timeout = 1
    Capacity = 1
    MaxTime = 6
SPECIFICATION Spec
SYMMETRY RequestSymmetry
PROPERTIES BoundedTrust
CHECK_DEADLOCK FALSE

\* One key, three requests: sharing a call, cancellation, refusal, fallback.
CONSTANTS
    k1 = k1  k2 = k2  w1 = w1  w2 = w2  r1 = r1  r2 = r2  r3 = r3
    NoRequest = NoRequest
    Keys = {k1}
    Workspaces = {w1}
    WorkspaceOf <- SharedKey
    Requests = {r1, r2, r3}
    Senders = {s1}
    SenderLimit = 0
    SenderWindow = 3
    MaxSenders = 1
    CacheTTL = 1
    ShortCacheTTL = 1
    MaxStaleAge = 3
    Timeout = 1
    Capacity = 1
    MaxTime = 3
SPECIFICATION Spec
SYMMETRY RequestSymmetry
INVARIANTS SingleFlight RefusalSticks OwnCancellation
CHECK_DEADLOCK FALSE

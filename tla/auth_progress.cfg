\* Two requests, and goroutines that keep running: who waits is woken.
CONSTANTS
    k1 = k1  k2 = k2  w1 = w1  w2 = w2  r1 = r1  r2 = r2  r3 = r3
    NoRequest = NoRequest
    Keys = {k1}
    Workspaces = {w1}
    WorkspaceOf <- SharedKey
    Requests = {r1, r2}
    Senders = {s1}
    SenderLimit = 1
    SenderWindow = 2
    MaxSenders = 1
    CacheTTL = 1
    ShortCacheTTL = 1
    MaxStaleAge = 3
    Timeout = 1
    Capacity = 1
    MaxTime = 2
SPECIFICATION FairSpec
PROPERTIES WaiterWakes EveryRequestReturns
CHECK_DEADLOCK FALSE

SPECIFICATION FairSpec
CONSTANTS
    Users = {ann, bob}
    Workspaces = {1, 2}
    Guest = bob
    Offered = 2
    None = None
    MaxPassword = 3
    MaxCalls = 2
    MaxFetches = 2
INVARIANTS
    TypeOK
    
    SessionsProvePassword
    JoinedOpens
PROPERTIES
    LiveSessionStays
    InviteHeld
    DeadSessionEnds

SPECIFICATION Spec
CONSTANTS
    Users = {ann, bob}
    Workspaces = {1, 2}
    Guest = bob
    Offered = 2
    None = None
    MaxPassword = 2
    MaxCalls = 3
    MaxFetches = 2
INVARIANT TokenMatchesEmail

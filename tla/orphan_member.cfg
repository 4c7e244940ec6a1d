\* An owner adds a member while the workspace is being deleted.
CONSTANTS
    u1 = u1  u2 = u2  u3 = u3  h1 = h1  h2 = h2  i1 = i1  i2 = i2
    NoOne = NoOne
    Users = {u1, u2, u3}
    Workspaces = {w1}
    Invites = {i1, i2}
    Keys = {k1}
    Handlers = {h1, h2}
    Seats = 2
SPECIFICATION Spec
SYMMETRY Symmetry
INVARIANTS NoOrphanMembers

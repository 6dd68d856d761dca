SPECIFICATION Spec
CONSTANTS
    u1 = u1  d1 = d1  h1 = h1  h2 = h2  j1 = j1  j2 = j2
    Users = {u1}
    Distributors = {d1}
    Admin = Admin
    None = None
    Handlers = {h1, h2}
    Jobs = {j1}
    MaxCodes = 1
    MaxCrashes = 1
SYMMETRY MCSymmetry
INVARIANTS
    OnlyAnswered
    OriginKept
CHECK_DEADLOCK FALSE

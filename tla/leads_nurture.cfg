SPECIFICATION FairSpec
CONSTANTS
    u1 = u1  d1 = d1  h1 = h1  h2 = h2  j1 = j1  j2 = j2
    Users = {u1}
    Distributors = {}
    Admin = Admin
    None = None
    Handlers = {h1, h2}
    Jobs = {j1, j2}
    MaxCodes = 1
    MaxCrashes = 1
INVARIANT
    NurtureIsEnrolled
PROPERTY
    NurtureEnds
CHECK_DEADLOCK FALSE

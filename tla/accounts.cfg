SPECIFICATION Spec
CONSTANTS
    u1 = u1  h1 = h1  h2 = h2
    Users = {u1}
    Handlers = {h1, h2}
    OtpMaxAttempts = 1
    SendLimit = 1
    MaxRequests = 5
    MaxCrashes = 1
SYMMETRY MCSymmetry
INVARIANTS
    AccountsSound
    RotatedOnce
    RevokedSessionsGone
    SendsWithinLimit
CHECK_DEADLOCK FALSE

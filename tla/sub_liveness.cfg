SPECIFICATION FairSpec
CONSTANTS
    u1 = u1  s1 = s1  s2 = s2  plan1 = plan1  h1 = h1  h2 = h2
    Users = {u1}
    Subs = {s1}
    Plans = {plan1}
    Handlers = {h1, h2}
    NoSub = NoSub
    Ordered = TRUE
    MaxEvents = 2
    MaxRequests = 3
    MaxCrashes = 0
PROPERTIES
    EndedIsDowngraded
    HaltedIsResolved
CHECK_DEADLOCK FALSE

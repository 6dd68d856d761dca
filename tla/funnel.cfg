SPECIFICATION Spec
CONSTANTS
    n1 = n1  n2 = n2  
    first = first  payment = payment  last = last
    Users = {u1}
    Sections = {n1, n2}
    Steps = {first, payment, last}
    Absent = Absent
    NoStep = NoStep
    Orders = {1, 2}
    FirstLayouts <- MCLayouts
    NewTypes = {"VIDEO_TEXT"}
    Handlers = {h1, h2}
    MaxRequests = 3
    MaxDisturbances = 1
SYMMETRY MCSymmetry
INVARIANTS
    GatesHold
    UnwarnedFunnelWorks
    CacheIsFresh
PROPERTIES
    CompletionKept
CHECK_DEADLOCK FALSE

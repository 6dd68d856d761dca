SPECIFICATION Spec
CONSTANTS
    d1 = d1  c1 = c1  i1 = i1  i2 = i2  k1 = k1  k2 = k2  m1 = m1  q1 = q1  q2 = q2
    Users = {d1, c1}
    None = None
    Referrer <- MCReferrer
    Instances = {i1, i2}
    Conns = {k1, k2}
    Messages = {m1}
    Readers = {q1}
    MaxRequests = 3
    MaxDisturbances = 1
INVARIANTS
    EntryIsCurrent
    MessagesSound
CHECK_DEADLOCK FALSE

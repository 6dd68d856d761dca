SPECIFICATION FairSpec
CONSTANTS
    u1 = u1  c1 = c1  c2 = c2  n1 = n1  n2 = n2  l1 = l1  l2 = l2
    Users = {u1}
    CourseIds = {c1, c2}
    SectionIds = {n1, n2}
    LessonIds = {l1, l2}
    PaymentIds = {p1, p2}
    Absent = Absent
    NoLesson = NoLesson
    Orders = {1, 2}
    Starts <- MCStarts
    NewLessons <- MCNewLessons
    Handlers = {h1, h2}
    ProgressRows = 1
    MaxRequests = 3
    MaxDisturbances = 1
INVARIANTS
    EnrollmentsSound
    CompletionsSound
    PagesSound
PROPERTIES
    GivenStays
    CertificateArrives
CHECK_DEADLOCK FALSE

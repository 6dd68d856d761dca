SPECIFICATION Spec
CONSTANTS
    Handlers = {h1, h2}
    MaxRequests = 3
    LastDay = 1
    Distributors = {d3}
    Admins = {a1}
    LeadIds = {l1}
    BoardTake = 2
    Take = 1
    NoLead = NoLead
    NoOwner = NoOwner
    MaxTasks = 2
    NoteIds = {n1}
    Days = {0, 4}
    NoDay = NoDay
    Months = {0, 1, 2}
    MonthLength = 2
    Places = {1}
    Owners = {d1, d2}
    Managers = {a1}
    Slugs = {s1, s2}
    NoSlug = NoSlug
    MaxCampaigns = 2
    Visitors = {v1}
    PlanIds = {p1, p2}
    Amounts = {100, 200}
    Coupons = {c1}
    Users = {v1, v2}
    Values = {50, 90}
    Limits = {1, 2000}
    PerUserLimits = {1, 2}
    Unlimited = Unlimited
    Never = Never
    h1 = h1
    h2 = h2
    d1 = d1
    d2 = d2
    u1 = u1
    u2 = u2
    Clients = {u1, u2}
    Referrers = {d1, d2}
    SuperAdmin = a1
    Nobody = Nobody
    Arrivals <- MCArrivals
    Sources = {s1}
    Null = Null
    LeadStatuses <- MCLeadStatuses
    PaymentTypes = {"COMMITMENT_FEE", "LMS_COURSE"}
    RowDays = {0, 4}
    Ranges <- MCRanges
    CachedRanges <- MCCachedRanges
    WeekLength = 4
    LastMonth = 4
    First <- MCFirst
    DailyUpTo = 2
    WeeklyUpTo = 3
    Window = 2
    YearLength = 3
    TopCount = 1
SYMMETRY Symmetry
INVARIANTS
    OneOfEach
    CouponLedger
    ListsAreRight
    PagesSound
    ReportsAddUp
    FollowupsReach
CHECK_DEADLOCK FALSE

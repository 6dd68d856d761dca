------------------------------- MODULE Reports -------------------------------
(***************************************************************************)
(* What distributors and administrators read: dashboards, lists and charts *)
(* over leads, acquisitions, progress and payments.  The pages are         *)
(* operators over the tables; the tables change as clients arrive, go on,  *)
(* are followed up, and are handed over when their distributor is          *)
(* suspended.  The reports the server keeps in its cache are computed in   *)
(* several reads.                                                          *)
(***************************************************************************)
EXTENDS Service, Integers

CONSTANTS
    Clients,
    Referrers,                  \* users who are or become distributors
    SuperAdmin, Nobody,
    Arrivals,                   \* by whose link each of the clients may have come before
    Sources, Null,
    LeadStatuses, PaymentTypes,
    RowDays,                    \* the days on which something happens
    Ranges,                     \* <<from, to>> asked of the pages and charts
    CachedRanges,               \* <<from, to>> asked of the cached reports
    LastMonth, First,           \* the first day of each month 0..LastMonth
    WeekLength,
    DailyUpTo, WeeklyUpTo,      \* the longest chart by day, by week: 30 and 180 days
    Window,                     \* the days of a page that is asked for no dates: 30
    YearLength,                 \* the days before today that are 12 months
    TopCount                    \* how many distributors are the top ones: 10

\* The instances take some of the eight statuses and of the three payment types.
OpenStatuses == LeadStatuses \ {"LOST", "MARK_AS_CUSTOMER"}

Lead == [distributor : Referrers \cup {Nobody}, assigned : Referrers \cup {SuperAdmin},
         status : LeadStatuses, day : RowDays]

Acquisition == [distributor : Referrers \cup {Nobody, SuperAdmin}, source : Sources \cup {Null}]

\* day is the day of the order.
Payment == [user : Clients, type : PaymentTypes, day : RowDays]

Activity == [actor : Referrers \cup {SuperAdmin}, client : Clients, day : RowDays]

AllMonths == 0..LastMonth

ASSUME ReportsAssumption ==
    /\ {"NEW", "HOT", "FOLLOWUP", "LOST", "MARK_AS_CUSTOMER"} \subseteq LeadStatuses
    /\ "COMMITMENT_FEE" \in PaymentTypes
    /\ RowDays \subseteq Nat /\ 0 \in RowDays
    /\ WeekLength \in Nat \ {0} /\ TopCount \in Nat
    /\ DailyUpTo \in Nat /\ WeeklyUpTo \in Nat /\ Window \in Nat /\ YearLength \in Nat
    /\ LastMonth \in Nat /\ First \in [AllMonths -> Nat] /\ First[0] = 0
    /\ \A m, n \in AllMonths : m < n => First[m] < First[n]
    /\ Ranges \cup CachedRanges \subseteq Nat \X (0..First[LastMonth] - 1)
    /\ Null \notin Sources \cup {"YES", "NO"} \cup LeadStatuses
    /\ Nobody \notin Referrers /\ SuperAdmin \notin Referrers \cup {Nobody}
    /\ Arrivals \subseteq [Clients -> Referrers \cup {Nobody}]
    /\ IsFiniteSet(Clients)

VARIABLES
    leadOf,         \* leads, one for a user
    acquisition,    \* user_acquisition, one for a user
    verified,       \* clients whose phone is verified: user_profile.phoneVerifiedAt
    past,           \* clients past the phone gate: funnel_progress.phoneVerified
    paid,           \* clients past the payment gate: funnel_progress.paymentCompleted
    answer,         \* funnel_progress.decisionAnswer
    orders,         \* payments that were ordered and never succeeded
    payments,       \* payments whose status is SUCCESS
    activities,     \* FOLLOWUP_SCHEDULED activities of the leads
    distributors,   \* users whose role is DISTRIBUTOR
    reports,        \* the cached reports
    rows            \* writes of the tables so far

tables == <<leadOf, acquisition, verified, past, paid, answer, orders, payments, activities,
            distributors>>

reportVars == <<tables, reports, rows>>

NoLeadRow == [status |-> Null]

NoAcquisition == [source |-> Null]

HasLead(u) == leadOf[u] # NoLeadRow

Acquired(u) == acquisition[u] # NoAcquisition

LeadsOf(d) == {u \in Clients : HasLead(u) /\ leadOf[u].distributor = d}

AssignedTo(p) == {u \in Clients : HasLead(u) /\ leadOf[u].assigned = p}

AcquiredBy(d) == {u \in Clients : Acquired(u) /\ acquisition[u].distributor = d}

\* The sum of some counts.
Total(counts) == Cardinality(UNION {{x} \X (1..counts[x]) : x \in DOMAIN counts})

----------------------------------------------------------------------------
(* Periods of a chart *)

AutoGranularity(range) ==
    LET days == range[2] - range[1] + 1
    IN  IF days <= DailyUpTo THEN "daily" ELSE IF days <= WeeklyUpTo THEN "weekly" ELSE "monthly"

MonthOf(day) == CHOOSE m \in AllMonths : First[m] <= day /\ (m = LastMonth \/ day < First[m + 1])

FormatPeriod(day, g) ==
    CASE g = "daily" -> day
      [] g = "weekly" -> day \div WeekLength
      [] g = "monthly" -> MonthOf(day)

\* A month on: the same day of the next month, or as many days into the month after
\* it as the next month lacks.
Following(day, g) ==
    CASE g = "daily" -> day + 1
      [] g = "weekly" -> day + WeekLength
      [] g = "monthly" -> First[MonthOf(day) + 1] + day - First[MonthOf(day)]

\* The dates the loop visits: the first of the range, and of each the following.
Visits(dates, range) ==
    /\ range[1] \in dates
    /\ \A c \in dates : LET next == Following(c, AutoGranularity(range))
                        IN  next <= range[2] => next \in dates

Cursors ==
    [range \in Ranges \cup CachedRanges |->
        {c \in range[1]..range[2] :
            \A dates \in SUBSET (range[1]..range[2]) : Visits(dates, range) => c \in dates}]

\* Mutant: the last day is left out.
GeneratePeriodsBefore(range) ==
    {FormatPeriod(c, AutoGranularity(range)) : c \in Cursors[range] \ {range[2]}}

GeneratePeriods(range) ==
    {FormatPeriod(c, AutoGranularity(range)) : c \in Cursors[range]}

Within(us, range) == {u \in us : leadOf[u].day \in range[1]..range[2]}

ByStatus(us) == [s \in LeadStatuses |-> Cardinality({u \in us : leadOf[u].status = s})]

BuildTrend(us, range) ==
    LET g == AutoGranularity(range)
        rowsIn == Within(us, range)
    IN  [p \in GeneratePeriods(range) |->
            Cardinality({u \in rowsIn : FormatPeriod(leadOf[u].day, g) = p})]

----------------------------------------------------------------------------
(* The pages of a distributor *)

GetDashboard(d) ==
    LET byStatus == ByStatus(LeadsOf(d))
    IN  [totalLeads |-> Total(byStatus), leadsByStatus |-> byStatus,
         customers |-> byStatus["MARK_AS_CUSTOMER"]]

\* What a page shows that was asked for no dates but does not show all time.
LastDays == <<today - Window, today>>

\* The dates are for the leads only.
GetAnalyticsOverview(d, range) ==
    [pipeline |-> Total(ByStatus(Within(LeadsOf(d), range))),
     visitedJoinLink |-> Cardinality(AcquiredBy(d)),
     completedFunnel |-> Cardinality({p \in payments : /\ p.type = "COMMITMENT_FEE"
                                                       /\ p.user \in AcquiredBy(d)}),
     decidedYes |-> Cardinality({u \in AcquiredBy(d) : answer[u] = "YES"}),
     decidedNo |-> Cardinality({u \in AcquiredBy(d) : answer[u] = "NO"})]

\* Mutant: the sources are those of the clients the distributor acquired.
GetUtmAnalyticsAcquired(d, range) ==
    [total |-> Cardinality(Within(LeadsOf(d), range)),
     bySource |-> [s \in Sources \cup {Null} |->
                      Cardinality({u \in AcquiredBy(d) : acquisition[u].source = s})]]

\* Leads without a source count as direct: Null.
GetUtmAnalytics(d, range) ==
    LET users == Within(LeadsOf(d), range)
    IN  [total |-> Cardinality(users),
         bySource |-> [s \in Sources \cup {Null} |->
                          Cardinality({u \in users : Acquired(u) /\ acquisition[u].source = s})]]

\* Mutant: the users are those in his own list.
GetUsersAnalyticsOwn(d, range) ==
    LET users == Within(AssignedTo(d), range)
    IN  [totalUsers |-> Cardinality(users),
         paidUsers |-> Cardinality({u \in users : \E p \in payments : p.user = u}),
         customers |-> Cardinality({u \in users : leadOf[u].status = "MARK_AS_CUSTOMER"})]

GetUsersAnalytics(d, range) ==
    LET users == Within(LeadsOf(d), range)
    IN  [totalUsers |-> Cardinality(users),
         paidUsers |-> Cardinality({u \in users : \E p \in payments : p.user = u}),
         customers |-> Cardinality({u \in users : leadOf[u].status = "MARK_AS_CUSTOMER"})]

Stages == {"REGISTERED", "PHONE_VERIFIED", "PAYMENT_COMPLETED", "SAID_YES", "SAID_NO"}

ComputeFunnelStage(u) ==
    IF u \notin past THEN "REGISTERED"
    ELSE IF answer[u] # Null THEN (IF answer[u] = "YES" THEN "SAID_YES" ELSE "SAID_NO")
    ELSE IF u \in paid THEN "PAYMENT_COMPLETED" ELSE "PHONE_VERIFIED"

\* Mutant: who has answered is still among those who have paid.
BuildFunnelStageFilterPaid(stage) ==
    {u \in Clients :
        CASE stage = "REGISTERED" -> u \notin past \cup paid
          [] stage = "PHONE_VERIFIED" -> u \in past \ paid
          [] stage = "PAYMENT_COMPLETED" -> u \in paid
          [] stage = "SAID_YES" -> answer[u] = "YES"
          [] stage = "SAID_NO" -> answer[u] = "NO"
          [] OTHER -> TRUE}

BuildFunnelStageFilter(stage) ==
    {u \in Clients :
        CASE stage = "REGISTERED" -> u \notin past \cup paid
          [] stage = "PHONE_VERIFIED" -> u \in past \ paid
          [] stage = "PAYMENT_COMPLETED" -> u \in paid /\ answer[u] = Null
          [] stage = "SAID_YES" -> answer[u] = "YES"
          [] stage = "SAID_NO" -> answer[u] = "NO"
          [] OTHER -> TRUE}

ListUsers(d, stage) == LeadsOf(d) \cap BuildFunnelStageFilter(stage)

GetUserDetail(d, u) == HasLead(u) /\ leadOf[u].distributor = d

GetDistributorLeads(d, statuses) == {u \in AssignedTo(d) : leadOf[u].status \in statuses}

\* The leads a distributor may open, with their history.
GetDistributorLead(d) == AssignedTo(d)

GetLeadStatusHistory(d) == AssignedTo(d)

DueToday(u) ==
    /\ HasLead(u) /\ leadOf[u].status = "FOLLOWUP"
    /\ \E a \in activities : a.client = u /\ a.day = today

GetDistributorTodayFollowups(d) == {u \in AssignedTo(d) : DueToday(u)}

\* The possible answers: what he planned for today, whatever became of the lead.
GetFollowupNotifications(d) == AnyOf({a \in activities : a.actor = d /\ a.day = today}, Take)

----------------------------------------------------------------------------
(* The pages of the administrator *)

GetAllLeads(statuses) == {u \in LeadsOf(Nobody) : leadOf[u].status \in statuses}

GetLeadsForDistributor(d, statuses) == {u \in LeadsOf(d) : leadOf[u].status \in statuses}

GetAdminTodayFollowups == {u \in Clients : DueToday(u)}

\* The follow-ups of leads that no distributor brought.
AdminFollowups ==
    {a \in activities : a.client \in LeadsOf(Nobody) /\ leadOf[a.client].status = "FOLLOWUP"}

\* Of more rows than are taken, the earliest.
Earliest(found) == {T \in AnyOf(found, Take) : \A a \in T, b \in found \ T : a.day <= b.day}

\* Mutant: what is due today counts as overdue, too.
GetAdminNotificationsTwice ==
    [followupsToday : Earliest({a \in AdminFollowups : a.day = today}),
     overdueFollowups : Earliest({a \in AdminFollowups : a.day <= today})]

\* The possible answers.
GetAdminNotifications ==
    [followupsToday : Earliest({a \in AdminFollowups : a.day = today}),
     overdueFollowups : Earliest({a \in AdminFollowups : a.day < today})]

MapReferredBy(u) == IF HasLead(u) THEN leadOf[u].distributor ELSE Nobody

ListAllUsers ==
    [u \in Clients |-> [phoneVerified |-> u \in verified, paymentCompleted |-> u \in paid,
                        leadStatus |-> leadOf[u].status, referredBy |-> MapReferredBy(u)]]

ListDistributors ==
    [d \in distributors |->
        [totalLeads |-> Cardinality(LeadsOf(d)),
         convertedLeads |-> Cardinality({u \in LeadsOf(d) : leadOf[u].status = "MARK_AS_CUSTOMER"})]]

LastYear == <<today - YearLength, today>>

GetDistributorDetail(d) ==
    LET recent == Within(LeadsOf(d), LastYear)
    IN  [totalLeads |-> Cardinality(LeadsOf(d)), funnelPath |-> ByStatus(LeadsOf(d)),
         leadsOverTime |-> [m \in {MonthOf(leadOf[u].day) : u \in recent} |->
             Cardinality({u \in recent : MonthOf(leadOf[u].day) = m})]]

\* The distributors with the most leads; who comes last among equals is chance.
TopDistributors ==
    {T \in AnyOf(distributors, TopCount) :
        \A d \in T, e \in distributors \ T : Cardinality(LeadsOf(e)) <= Cardinality(LeadsOf(d))}

\* The possible answers.
GetDistributorsAnalytics(range) ==
    {[top |-> [d \in T |-> Cardinality(LeadsOf(d))],
      funnelPath |-> ByStatus(Within({u \in Clients : HasLead(u) /\ leadOf[u].distributor # Nobody}, range))] :
        T \in TopDistributors}

GetFunnelAnalytics ==
    [phoneVerified |-> Cardinality(verified), paymentDone |-> Cardinality(paid),
     decisionYes |-> Cardinality({u \in Clients : answer[u] = "YES"})]

GetAdminUtmAnalytics ==
    LET users == {u \in Clients : HasLead(u)}
    IN  [total |-> Cardinality(users),
         bySource |-> [s \in Sources \cup {Null} |->
                          Cardinality({u \in users : Acquired(u) /\ acquisition[u].source = s})]]

----------------------------------------------------------------------------
(* The cached reports: what each of the two reads of one finds *)

Kinds == {"dashboard", "leads", "revenue"}

Revenue(range) == {p \in payments : p.day \in range[1]..range[2]}

\* Mutant: the last day of the range ends at its midnight.
LeadsByStatusBefore(range) ==
    Total(ByStatus(Within({u \in Clients : HasLead(u)}, <<range[1], range[2] - 1>>)))

LeadsByStatus(range) == Total(ByStatus(Within({u \in Clients : HasLead(u)}, range)))

LeadsBySource(range) ==
    LET all == Within({u \in Clients : HasLead(u)}, range)
    IN  [direct |-> Cardinality({u \in all : leadOf[u].distributor = Nobody}),
         viaDistributor |-> Cardinality({u \in all : leadOf[u].distributor # Nobody})]

RevenueByType(range) ==
    [t \in PaymentTypes |-> Cardinality({p \in Revenue(range) : p.type = t})]

RevenueChart(range) ==
    LET g == AutoGranularity(range)
    IN  [p \in GeneratePeriods(range) |->
            Cardinality({r \in Revenue(range) : FormatPeriod(r.day, g) = p})]

\* The leads the dashboard counts of all time, and after that of the period.
PeriodTotals(range) == Cardinality(Within({u \in Clients : HasLead(u)}, range))

LifetimeTotals == Cardinality({u \in Clients : HasLead(u)})

FirstRead(kind, range) ==
    CASE kind = "dashboard" -> LifetimeTotals
      [] kind = "leads" -> LeadsByStatus(range)
      [] kind = "revenue" -> Total(RevenueByType(range))

SecondRead(kind, range) ==
    CASE kind = "dashboard" -> PeriodTotals(range)
      [] kind = "leads" -> Total(LeadsBySource(range))
      [] kind = "revenue" -> Total(RevenueChart(range))

\* The cache has no such report.
BeginReport(h, kind, range) ==
    /\ reports[<<kind, range>>] = Null
    /\ Begin(h, [at |-> "report", kind |-> kind, range |-> range])
    /\ UNCHANGED reportVars

Reading(h, part) ==
    LET c == call[h]
    IN  IF part = "first" THEN FirstRead(c.kind, c.range) ELSE SecondRead(c.kind, c.range)

\* The two reads are under way together, and either may be served first; only the
\* dashboard awaits its first before it sends its second.
ReadOnce(h, part) ==
    LET c == call[h]
    IN  /\ c.at = "report"
        /\ c.kind = "dashboard" => part = "first"
        /\ Then(h, [at |-> "half", kind |-> c.kind, range |-> c.range,
                    earlier |-> part, count |-> Reading(h, part), rows |-> rows])
        /\ UNCHANGED reportVars

\* With the other read the report is complete, and kept for a minute.
StoreReport(h) ==
    LET c == call[h]
        later == IF c.earlier = "first" THEN "second" ELSE "first"
    IN  /\ c.at = "half"
        /\ End(h)
        /\ reports' = [reports EXCEPT ![<<c.kind, c.range>>] =
               [earlier |-> c.count, later |-> Reading(h, later), undisturbed |-> rows = c.rows]]
        /\ UNCHANGED <<tables, rows>>

\* A minute has passed.
ExpireReport(k) ==
    /\ reports[k] # Null
    /\ reports' = [reports EXCEPT ![k] = Null]
    /\ UNCHANGED <<service, tables, rows>>

----------------------------------------------------------------------------
(* How the tables change.  A request of one write, the first of a request   *)
(* of several, and a later one:                                            *)

Wrote == rows' = rows + 1 /\ UNCHANGED reports

Write == AskOnce /\ Wrote

\* The acquisition a client would get from the link: written when there is none; when
\* there is one, only the source.  The first distributor is stored by a second query.
BeginUpsertAcquisition(h, u, d, source) ==
    /\ Begin(h, IF d = Nobody THEN Idle ELSE [at |-> "firstTouch", client |-> u, distributor |-> d])
    /\ Wrote
    /\ acquisition' = [acquisition EXCEPT ![u] =
           IF Acquired(u) THEN [acquisition[u] EXCEPT !.source = IF source = Null THEN @ ELSE source]
                          ELSE [distributor |-> d, source |-> source]]
    /\ UNCHANGED <<leadOf, verified, past, paid, answer, orders, payments, activities, distributors>>

FirstTouch(h) ==
    LET c == call[h]
    IN  /\ c.at = "firstTouch"
        /\ End(h)
        /\ Wrote
        /\ acquisition' = [acquisition EXCEPT ![c.client].distributor =
                               IF @ = Nobody THEN c.distributor ELSE @]
        /\ UNCHANGED <<leadOf, verified, past, paid, answer, orders, payments, activities, distributors>>

\* The code a visitor registers with, whose link was open when it was looked up: it
\* replaces the distributor.
AttachReferralCode(u, d) ==
    /\ Write
    /\ acquisition' = [acquisition EXCEPT ![u] =
           [distributor |-> d, source |-> IF Acquired(u) THEN acquisition[u].source ELSE Null]]
    /\ UNCHANGED <<leadOf, verified, past, paid, answer, orders, payments, activities, distributors>>

\* The lead is looked for and the acquisition read, ...
BeginCreateLead(h, u) ==
    /\ ~HasLead(u)
    /\ Begin(h, [at |-> "insertLead", client |-> u,
                 distributor |-> IF Acquired(u) THEN acquisition[u].distributor ELSE Nobody])
    /\ UNCHANGED reportVars

\* ... and the row is inserted, unless another request has.
InsertLead(h) ==
    LET c == call[h]
        row == [distributor |-> c.distributor, status |-> "NEW", day |-> today,
                assigned |-> IF c.distributor = Nobody THEN SuperAdmin ELSE c.distributor]
    IN  /\ c.at = "insertLead"
        /\ End(h)
        /\ Wrote
        /\ leadOf' = [leadOf EXCEPT ![c.client] = IF HasLead(c.client) THEN @ ELSE row]
        /\ UNCHANGED <<acquisition, verified, past, paid, answer, orders, payments, activities, distributors>>

\* Which status may follow which, and by whom, is in Leads: here any but those that
\* are written in steps.
ChangeStatus(u, status) ==
    /\ Write
    /\ HasLead(u) /\ leadOf[u].status \in OpenStatuses
    /\ leadOf' = [leadOf EXCEPT ![u].status = status]
    /\ UNCHANGED <<acquisition, verified, past, paid, answer, orders, payments, activities, distributors>>

\* Mutant: it does not matter to whom the lead is assigned.
MayScheduleAny(p, u) == p = SuperAdmin => leadOf[u].distributor = Nobody

\* A distributor works on the leads assigned to him, the super administrator on those
\* no distributor brought.
MaySchedule(p, u) ==
    IF p = SuperAdmin THEN leadOf[u].distributor = Nobody ELSE leadOf[u].assigned = p

\* A follow-up: the lead is read, ...
BeginSchedule(h, p, u, day) ==
    /\ HasLead(u) /\ leadOf[u].status \in {"HOT", "CONTACTED"} /\ MaySchedule(p, u)
    /\ Begin(h, [at |-> "status", actor |-> p, client |-> u, day |-> day])
    /\ UNCHANGED reportVars

\* ... its status written, ...
WriteFollowup(h) ==
    LET c == call[h]
    IN  /\ c.at = "status"
        /\ Then(h, [at |-> "activity", actor |-> c.actor, client |-> c.client, day |-> c.day])
        /\ Wrote
        /\ leadOf' = [leadOf EXCEPT ![c.client].status = "FOLLOWUP"]
        /\ UNCHANGED <<acquisition, verified, past, paid, answer, orders, payments, activities, distributors>>

\* ... and the activity that has the day.
InsertActivity(h) ==
    LET c == call[h]
    IN  /\ c.at = "activity"
        /\ End(h)
        /\ Wrote
        /\ activities' = activities \cup {[actor |-> c.actor, client |-> c.client, day |-> c.day]}
        /\ UNCHANGED <<leadOf, acquisition, verified, past, paid, answer, orders, payments, distributors>>

\* The code is right: the profile is written.  The funnel follows by a query of its own.
VerifyPhone(u) ==
    /\ Write
    /\ verified' = verified \cup {u}
    /\ UNCHANGED <<leadOf, acquisition, past, paid, answer, orders, payments, activities, distributors>>

\* The gate is passed after the code, or completed like any other step, with none.
PassPhoneGate(u) ==
    /\ Write
    /\ past' = past \cup {u}
    /\ UNCHANGED <<leadOf, acquisition, verified, paid, answer, orders, payments, activities, distributors>>

\* The commitment fee is ordered past the phone gate, and not when it is paid.
CreateOrder(u, type) ==
    /\ Write
    /\ type = "COMMITMENT_FEE" => u \in past \ paid
    /\ orders' = orders \cup {[user |-> u, type |-> type, day |-> today]}
    /\ UNCHANGED <<leadOf, acquisition, verified, past, paid, answer, payments, activities, distributors>>

\* The gateway's event, for an order that has expired as well.
Capture(p) ==
    /\ Wrote
    /\ orders' = orders \ {p}
    /\ payments' = payments \cup {p}
    /\ paid' = IF p.type = "COMMITMENT_FEE" THEN paid \cup {p.user} ELSE paid
    /\ UNCHANGED <<service, leadOf, acquisition, verified, past, answer, activities, distributors>>

\* The administrator expires a payment he found pending, ...
BeginExpirePayment(h, p) ==
    /\ p \in orders
    /\ Begin(h, [at |-> "expire", payment |-> p])
    /\ UNCHANGED reportVars

\* ... whatever it has become; the funnel is not told.
ExpirePayment(h) ==
    /\ call[h].at = "expire"
    /\ End(h)
    /\ Wrote
    /\ payments' = payments \ {call[h].payment}
    /\ UNCHANGED <<leadOf, acquisition, verified, past, paid, answer, orders, activities, distributors>>

\* Of two answers that look at the earlier one together, the later stays.
SaveDecision(u, yesOrNo) ==
    /\ Write
    /\ u \in paid
    /\ answer' = [answer EXCEPT ![u] = yesOrNo]
    /\ UNCHANGED <<leadOf, acquisition, verified, past, paid, orders, payments, activities, distributors>>

\* By the administrator, by a subscription or its end, or as a lead that is a customer.
ChangeRole(d) ==
    /\ Write
    /\ distributors' = IF d \in distributors THEN distributors \ {d} ELSE distributors \cup {d}
    /\ UNCHANGED <<leadOf, acquisition, verified, past, paid, answer, orders, payments, activities>>

----------------------------------------------------------------------------
(* The leads of a suspended distributor go to the administrator: the open  *)
(* ones are read, then moved, then the acquisitions of those that were     *)
(* read.                                                                   *)

OpenLeads(d) == {u \in AssignedTo(d) : leadOf[u].status \in OpenStatuses}

BeginHandOver(h, d) ==
    /\ d \in distributors
    /\ Begin(h, [at |-> "move", from |-> d, users |-> OpenLeads(d)])
    /\ UNCHANGED reportVars

MoveLeads(h) ==
    LET c == call[h]
        moved == OpenLeads(c.from)
    IN  /\ c.at = "move"
        /\ Then(h, [at |-> "acquire", users |-> c.users])
        /\ Wrote
        /\ leadOf' = [u \in Clients |-> IF u \in moved THEN [leadOf[u] EXCEPT !.assigned = SuperAdmin]
                                                       ELSE leadOf[u]]
        /\ UNCHANGED <<acquisition, verified, past, paid, answer, orders, payments, activities, distributors>>

MoveAcquisitions(h) ==
    LET c == call[h]
    IN  /\ c.at = "acquire"
        /\ End(h)
        /\ Wrote
        /\ acquisition' = [u \in Clients |->
               IF u \in c.users /\ Acquired(u) THEN [acquisition[u] EXCEPT !.distributor = SuperAdmin]
                                               ELSE acquisition[u]]
        /\ UNCHANGED <<leadOf, verified, past, paid, answer, orders, payments, activities, distributors>>

----------------------------------------------------------------------------

\* Clients who came by the link of a distributor have answered yes by now.
ReportsInit ==
    \E came \in Arrivals :
        LET clients == {u \in Clients : came[u] # Nobody}
        IN  /\ leadOf = [u \in Clients |->
                   IF u \in clients THEN [distributor |-> came[u], assigned |-> came[u],
                                          status |-> "HOT", day |-> 0] ELSE NoLeadRow]
            /\ acquisition = [u \in Clients |->
                   IF u \in clients THEN [distributor |-> came[u], source |-> Null] ELSE NoAcquisition]
            /\ verified = clients /\ past = clients /\ paid = clients
            /\ answer = [u \in Clients |-> IF u \in clients THEN "YES" ELSE Null]
            /\ orders = {} /\ activities = {}
            /\ payments = [user : clients, type : {"COMMITMENT_FEE"}, day : {0}]
            /\ distributors = Referrers
            /\ reports = [k \in Kinds \X CachedRanges |-> Null]
            /\ rows = 0

SkipTo(day) ==
    /\ today < day
    /\ today' = day
    /\ UNCHANGED <<call, requests, reportVars>>

ClientGoesOn(h, u) ==
    \/ \E d \in Referrers \cup {Nobody}, source \in Sources \cup {Null} :
           BeginUpsertAcquisition(h, u, d, source)
    \/ BeginCreateLead(h, u)
    \/ \E p \in Referrers \cup {SuperAdmin}, day \in {day \in RowDays : day >= today} :
           BeginSchedule(h, p, u, day)

ClientWrites(u) ==
    \/ \E d \in Referrers : AttachReferralCode(u, d)
    \/ VerifyPhone(u) \/ PassPhoneGate(u)
    \/ \E type \in PaymentTypes : CreateOrder(u, type)
    \/ \E yesOrNo \in {"YES", "NO"} : SaveDecision(u, yesOrNo)
    \/ \E status \in LeadStatuses \ {"NEW", "FOLLOWUP"} : ChangeStatus(u, status)

AnalyticsAdminRoutes(h) == \E kind \in Kinds, range \in CachedRanges : BeginReport(h, kind, range)

SuspendUser(h) == \E d \in Referrers : BeginHandOver(h, d)

ReportsNext ==
    \/ \E h \in Handlers :
           \/ \E u \in Clients : ClientGoesOn(h, u)
           \/ FirstTouch(h) \/ InsertLead(h) \/ WriteFollowup(h) \/ InsertActivity(h)
           \/ AnalyticsAdminRoutes(h)
           \/ \E part \in {"first", "second"} : ReadOnce(h, part)
           \/ StoreReport(h)
           \/ SuspendUser(h) \/ MoveLeads(h) \/ MoveAcquisitions(h)
           \/ \E p \in orders : BeginExpirePayment(h, p)
           \/ ExpirePayment(h)
    \/ \E u \in Clients : ClientWrites(u)
    \/ \E p \in orders : Capture(p)
    \/ \E d \in Referrers : ChangeRole(d)
    \/ \E k \in DOMAIN reports : ExpireReport(k)
    \/ \E day \in RowDays : SkipTo(day)

\* The pages alone.
ReportsSpec ==
    /\ ServiceInit /\ ReportsInit
    /\ [][ReportsNext \/ (Restart /\ UNCHANGED reportVars)]_<<service, reportVars>>

----------------------------------------------------------------------------
(* What should hold *)

\* The number of a distributor's users is the same on all pages, his and the
\* administrator's, whatever was handed over and whoever lost or got the role: on those
\* of all time, on those asked for the same days, and but for the older ones on the
\* sources asked for none and on the chart by months, which goes back a year.  His own
\* list of leads lacks those that were handed over and no other, though he can still
\* open their users.
PagesAgree ==
    /\ \A d \in distributors :
           LET always == GetUtmAnalytics(d, <<0, today>>).total
               own == GetDistributorLeads(d, LeadStatuses)
           IN  /\ {GetDashboard(d).totalLeads, Cardinality(ListUsers(d, "any")),
                   ListDistributors[d].totalLeads, GetDistributorDetail(d).totalLeads,
                   Cardinality(GetLeadsForDistributor(d, LeadStatuses)),
                   Cardinality({u \in Clients : ListAllUsers[u].referredBy = d})} = {always}
               /\ \A range \in Ranges \cup {<<0, today>>} :
                      {GetAnalyticsOverview(d, range).pipeline,
                       GetUsersAnalytics(d, range).totalUsers} = {GetUtmAnalytics(d, range).total}
               /\ always - GetUtmAnalytics(d, LastDays).total =
                      Cardinality({u \in LeadsOf(d) : today - leadOf[u].day > Window})
               /\ always - Total(GetDistributorDetail(d).leadsOverTime) =
                      Cardinality({u \in LeadsOf(d) : today - leadOf[u].day > YearLength})
               /\ GetDashboard(d).customers = GetUsersAnalytics(d, <<0, today>>).customers
               /\ GetLeadStatusHistory(d) = own /\ GetDistributorLead(d) = own
               /\ {u \in Clients : GetUserDetail(d, u)} =
                      own \cup {u \in LeadsOf(d) : leadOf[u].assigned = SuperAdmin}
    /\ \A range \in Ranges : \A report \in GetDistributorsAnalytics(range) :
           /\ Total(report.funnelPath) = LeadsBySource(range).viaDistributor
           /\ \A d \in DOMAIN report.top : report.top[d] = GetDashboard(d).totalLeads

\* A client is listed under the stage that is shown for him, and under no other.  The
\* funnel report grows from one stage to the next by no more than the clients who
\* went past the phone gate without a phone.
StageListsAgree ==
    /\ \A u \in Clients, s \in Stages : u \in BuildFunnelStageFilter(s) <=> ComputeFunnelStage(u) = s
    /\ LET report == GetFunnelAnalytics
       IN  /\ report.phoneVerified + Cardinality(past \ verified) >= report.paymentDone
           /\ report.paymentDone >= report.decisionYes

\* The sources of a distributor's users add up to their number: whoever he referred
\* has an acquisition.  On the administrator's page those who came unseen are missing.
SourcesAddUp ==
    /\ \A d \in distributors, range \in Ranges \cup {LastDays} :
           LET report == GetUtmAnalytics(d, range) IN Total(report.bySource) = report.total
    /\ GetAdminUtmAnalytics.total - Total(GetAdminUtmAnalytics.bySource) =
           Cardinality({u \in GetAllLeads(LeadStatuses) : ~Acquired(u)})

\* A chart counts no row twice, and by day every row of its range.  By week or month
\* it may miss rows of the last period, which the dates it visits need not reach; and
\* by month those of a month that ends before the day of the month it started on, which
\* they pass over.
ChartCovers(d, range) ==
    LET g == AutoGranularity(range)
        all == Within(LeadsOf(d), range)
        charted == Total(BuildTrend(LeadsOf(d), range))
        start == MonthOf(range[1])
        short == {m \in AllMonths \ {LastMonth} :
                     First[m + 1] - First[m] <= range[1] - First[start]}
        missed == {u \in all : \/ FormatPeriod(leadOf[u].day, g) = FormatPeriod(range[2], g)
                               \/ g = "monthly" /\ MonthOf(leadOf[u].day) \in short}
    IN  /\ charted \in Cardinality(all \ missed)..Cardinality(all)
        /\ g = "daily" => charted = Cardinality(all)

\* Every chart is one of those, whatever distributor and range is asked for.
ChartsCover ==
    \A range \in Ranges : \A d \in {d \in distributors : LeadsOf(d) # {}} : ChartCovers(d, range)

\* A cached report adds up when nothing was written between its reads: the leads by
\* status to those by source, the payments by type to those of the chart by day; the
\* leads of the dashboard's period are among those of all time.  If something was
\* written the leads that were read later are no fewer; payments may be.
ReportAddsUp ==
    \A k \in DOMAIN reports : reports[k] # Null =>
        LET r == reports[k]
        IN  CASE k[1] = "dashboard" -> r.undisturbed => r.later <= r.earlier
              [] k[1] = "leads" -> r.earlier <= r.later /\ (r.undisturbed => r.earlier = r.later)
              [] k[1] = "revenue" ->
                     AutoGranularity(k[2]) = "daily" /\ r.undisturbed => r.earlier = r.later

\* The follow-up of today that a distributor planned is in his list of the day as long
\* as the lead is assigned to him.  Once it was handed over it is in no list but the
\* administrator's, and nobody may plan another; his notifications tell him still,
\* and those of nobody else.  That of a lead no distributor brought is told to the
\* administrator alone.  (Told, unless the list is full.)
ToldToTheirOwn(u) ==
    LET d == leadOf[u].distributor
        movedFrom == IF leadOf[u].assigned = SuperAdmin THEN {d} ELSE {}
        about == {a \in activities : a.client = u}
    IN  /\ {e \in Referrers : u \in GetDistributorTodayFollowups(e)} = {d} \ movedFrom
        /\ movedFrom \ {Nobody} # {} => ~\E p \in Referrers \cup {SuperAdmin} : MaySchedule(p, u)
        /\ \A e \in Referrers : \A told \in GetFollowupNotifications(e) :
               IF e = d THEN told \cap about # {} \/ Cardinality(told) = Take
                        ELSE told \cap about = {}
        /\ \A told \in GetAdminNotifications :
               IF d = Nobody
               THEN told.followupsToday \cap about # {} \/ Cardinality(told.followupsToday) = Take
               ELSE (told.followupsToday \cup told.overdueFollowups) \cap about = {}

\* It is so for each that is due, and the administrator is told of none twice.
FollowupsTold ==
    /\ \A u \in Clients : DueToday(u) => ToldToTheirOwn(u)
    /\ \A told \in GetAdminNotifications : told.followupsToday \cap told.overdueFollowups = {}
=============================================================================

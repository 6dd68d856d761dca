---------------------------- MODULE Subscription ----------------------------
(***************************************************************************)
(* The distributor subscription: a customer subscribes at the gateway and  *)
(* becomes a distributor, the gateway's events renew, halt or end the      *)
(* subscription, users and administrators cancel it, deactivating a plan   *)
(* marks its subscribers for migration, and a nightly job expires what is  *)
(* past its grace and cancels what is due for migration.                   *)
(*                                                                         *)
(* No handler here uses a transaction: each is cut at every await that     *)
(* writes or calls the gateway, and consecutive reads are one step.  Time  *)
(* is what it does to a row: its period or its grace is running or over.   *)
(* PAYMENT_PROVIDER is the real gateway, and there is a super admin.       *)
(***************************************************************************)
EXTENDS Integers, Sequences, FiniteSets

CONSTANTS
    Users,          \* users, none of them a super admin
    Subs,           \* subscriptions that may be created at the gateway
    Plans,          \* distributor_plans
    Handlers,       \* requests and callbacks that may run at the same time
    NoSub,          \* the gateway id of an absent row
    Ordered,        \* the gateway sends an event once the last has been dealt with
    MaxEvents,      \* bound on the events after which nothing more is charged
    MaxRequests,    \* bound on the requests of users and administrators
    MaxCrashes      \* bound on the restarts of the server

ASSUME SubscriptionAssumption ==
    /\ NoSub \notin Subs
    /\ Ordered \in BOOLEAN
    /\ MaxEvents \in Nat
    /\ MaxRequests \in Nat
    /\ MaxCrashes \in Nat

VARIABLES
    sub,            \* distributor_subscriptions, per user
    role,           \* users.role: DISTRIBUTOR, or CUSTOMER for any other
    link,           \* users with joinLinkActive
    suspended,      \* users with status SUSPENDED
    leads,          \* who came by a distributor's link: visitors, and open leads assigned
                    \* to the distributor, those made after the link was closed apart
    recorded,       \* payments: charges by their gatewayPaymentId
    active,         \* plans with isActive
    gw,             \* the gateway: the state of each subscription
    log,            \* the gateway: the events of each subscription so far
    acked,          \* the gateway: events it has had a 200 for
    call,           \* what each handler is doing
    cron,           \* what the nightly job is doing
    requests,       \* requests made so far
    crashes         \* restarts so far

people == <<role, link, suspended, leads>>
gateway == <<gw, log, acked>>
bounds == <<requests, crashes>>
vars == <<sub, people, recorded, active, gateway, call, cron, bounds>>

----------------------------------------------------------------------------
(* Rows, the gateway's books and handlers *)

Statuses == {"ACTIVE", "HALTED", "CANCELLED", "EXPIRED"}

\* grace is graceDeadline: null, to come or past.  period is currentPeriodEnd: to
\* come or past.  migrating is migrationPending.
Row == [gid : Subs, plan : Plans, status : Statuses,
        grace : {"none", "running", "over"}, period : {"running", "over"},
        migrating : BOOLEAN]

Absent == [gid |-> NoSub, status |-> "NONE"]

\* The row subscribe writes.
NewRow(g, plan) == [gid |-> g, plan |-> plan, status |-> "ACTIVE", grace |-> "none",
                    period |-> "running", migrating |-> FALSE]

Events == {"charged", "halted", "ended"}

\* A visitor, an open lead, and one made after the link was closed.
LeadStages == {"visitor", "lead", "late"}

Idle == [at |-> "idle"]

SubscribeCall == [at : {"subscribe.create", "subscribe.upsert", "subscribe.role"},
                  user : Users, plan : Plans, gid : Subs \cup {NoSub}]

\* The four ways to cancel, with the gateway id the handler read, and whether it
\* hands the leads over in the end.
CancelCall == [at : {"cancel.gateway", "cancel.write", "cancel.user",
                     "cancel.suspend", "cancel.role", "cancel.leads"},
               why : {"admin", "self", "suspend", "role"}, user : Users,
               gid : Subs \cup {NoSub}, lead : BOOLEAN]

\* An event: number n of a subscription; for a charge, the user it was found to
\* be about and whether that user may be upgraded.
HookCall == [at : {"hook", "charged.write", "charged.role", "charged.pay"},
             gid : Subs, n : Nat, users : SUBSET Users, upgrade : BOOLEAN]

PlanCall == [at : {"plan.read", "plan.flag"}, plan : Plans, todo : SUBSET Users]

\* The job: the rows it read and has still to treat, and the one it is at.
Asleep == [at |-> "idle", todo |-> {}, now |-> <<>>]

CronStates == [at : {"idle", "expire", "expire.user", "expire.leads", "migrate",
                     "migrate.write", "overlap"},
               todo : SUBSET (Users \X Subs), now : (Users \X Subs) \cup {<<>>}]

End(h) == call' = [call EXCEPT ![h] = Idle]
Goto(h, where) == call' = [call EXCEPT ![h].at = where]

\* One of the requests that users and administrators make.
Request ==
    /\ requests < MaxRequests
    /\ requests' = requests + 1
    /\ UNCHANGED crashes

SetStatus(u, status) == sub' = [sub EXCEPT ![u].status = status]

----------------------------------------------------------------------------
(* The gateway (external) *)

\* What the gateway does when it is asked to stop charging: at once, with an
\* event, or at the end of the cycle.
CanStop(g, atCycleEnd) ==
    IF atCycleEnd THEN gw[g] = "live" ELSE gw[g] \notin {"none", "ended"}

Stop(g, atCycleEnd) ==
    IF atCycleEnd
    THEN gw' = [gw EXCEPT ![g] = "ending"] /\ UNCHANGED log
    ELSE /\ gw' = [gw EXCEPT ![g] = "ended"]
         /\ log' = [log EXCEPT ![g] = Append(@, "ended")]

\* The bound on events: only ends come after it.
MoreEvents == Cardinality(UNION {{g} \X DOMAIN log[g] : g \in Subs}) < MaxEvents

\* The link to pay a new subscription is in the answer of subscribe.
Answered(g) == \A h \in Handlers : call[h] \in SubscribeCall => call[h].gid # g

\* A charge succeeds: the first one, one for the next period once the last is
\* over, or one that was outstanding.
Charge(g) ==
    /\ gw[g] \in {"created", "live", "halted"}
    /\ MoreEvents
    /\ Answered(g)
    /\ gw[g] = "live" => \A u \in Users : sub[u].gid = g => sub[u].period = "over"
    /\ gw' = [gw EXCEPT ![g] = "live"]
    /\ log' = [log EXCEPT ![g] = Append(@, "charged")]
    /\ UNCHANGED <<sub, people, recorded, active, acked, call, cron, bounds>>

\* The charges for the next period fail.
Halt(g) ==
    /\ gw[g] = "live"
    /\ MoreEvents
    /\ gw' = [gw EXCEPT ![g] = "halted"]
    /\ log' = [log EXCEPT ![g] = Append(@, "halted")]
    /\ UNCHANGED <<sub, people, recorded, active, acked, call, cron, bounds>>

\* The last cycle is completed, or ended as was asked for.
Complete(g) ==
    /\ gw[g] \in {"live", "ending"}
    /\ Stop(g, FALSE)
    /\ UNCHANGED <<sub, people, recorded, active, acked, call, cron, bounds>>

\* An event reaches the server; it is sent until it has had a 200.
Deliver(h, g, n) ==
    /\ call[h] = Idle
    /\ n \in DOMAIN log[g] \ acked[g]
    /\ Ordered => /\ 1..(n - 1) \subseteq acked[g]
                  /\ \A k \in Handlers : call[k] \in HookCall => call[k].gid # g
    /\ call' = [call EXCEPT ![h] = [at |-> "hook", gid |-> g, n |-> n, users |-> {},
                                    upgrade |-> FALSE]]
    /\ UNCHANGED <<sub, people, recorded, active, gateway, cron, bounds>>

\* The controller answers 200 however the handler ended.
Answer(h) ==
    /\ End(h)
    /\ acked' = [acked EXCEPT ![call[h].gid] = @ \cup {call[h].n}]
    /\ UNCHANGED <<gw, log>>

\* A period is a month and a grace a week: no request and no job is under way for
\* so long, and none reads a deadline after its first step.
Quiet == cron = Asleep /\ \A h \in Handlers : call[h] = Idle

PeriodEnds(u) ==
    /\ Quiet
    /\ sub[u] # Absent
    /\ sub[u].period = "running"
    /\ sub' = [sub EXCEPT ![u].period = "over"]
    /\ UNCHANGED <<people, recorded, active, gateway, call, cron, bounds>>

GraceEnds(u) ==
    /\ Quiet
    /\ sub[u] # Absent
    /\ sub[u].grace = "running"
    /\ sub' = [sub EXCEPT ![u].grace = "over"]
    /\ UNCHANGED <<people, recorded, active, gateway, call, cron, bounds>>

\* Someone comes by u's open link and is recorded as acquired by u.
VisitorComes(u) ==
    /\ Request
    /\ u \in link
    /\ leads' = leads \cup {<<u, "visitor">>}
    /\ UNCHANGED <<sub, role, link, suspended, recorded, active, gateway, call, cron>>

\* The visitor registers and completes the profile, at any time, and gets a lead that
\* is assigned to u whatever has become of u.
LeadArrives(u) ==
    /\ <<u, "visitor">> \in leads
    /\ leads' = (leads \ {<<u, "visitor">>}) \cup {<<u, IF u \in link THEN "lead" ELSE "late">>}
    /\ UNCHANGED <<sub, role, link, suspended, recorded, active, gateway, call, cron, bounds>>

\* Mutant of HandedOver: the leads stay.
HandedOverNot(u) == leads' = leads

\* The open leads of u are given to the super admin.
HandedOver(u) == leads' = leads \ {<<u, "lead">>, <<u, "late">>}

----------------------------------------------------------------------------
(* subscribe *)

\* The route is for customers who are not suspended.  A subscription that was
\* cancelled bars the user until its period is over.
Subscribe(h, u, plan) ==
    /\ Request
    /\ call[h] = Idle
    /\ role[u] = "CUSTOMER" /\ u \notin suspended
    /\ sub[u].status \notin {"ACTIVE", "HALTED"}
    /\ sub[u].status = "CANCELLED" => sub[u].period = "over"
    /\ plan \in active
    /\ call' = [call EXCEPT ![h] = [at |-> "subscribe.create", user |-> u,
                                    plan |-> plan, gid |-> NoSub]]
    /\ UNCHANGED <<sub, people, recorded, active, gateway, cron>>

\* The gateway creates the subscription, or the request ends in an error.
CreateAtGateway(h) ==
    /\ call[h].at = "subscribe.create"
    /\ \/ \E g \in Subs :
             /\ gw[g] = "none"
             /\ gw' = [gw EXCEPT ![g] = "created"]
             /\ call' = [call EXCEPT ![h].at = "subscribe.upsert", ![h].gid = g]
       \/ End(h) /\ UNCHANGED gw
    /\ UNCHANGED <<sub, people, recorded, active, log, acked, cron, bounds>>

Upsert(h) ==
    /\ call[h].at = "subscribe.upsert"
    /\ sub' = [sub EXCEPT ![call[h].user] = NewRow(call[h].gid, call[h].plan)]
    /\ Goto(h, "subscribe.role")
    /\ UNCHANGED <<people, recorded, active, gateway, cron, bounds>>

\* The role, the code and the link, in one update.
Upgrade(U) ==
    /\ role' = [u \in Users |-> IF u \in U THEN "DISTRIBUTOR" ELSE role[u]]
    /\ link' = link \cup U

Downgrade(u) ==
    /\ role' = [role EXCEPT ![u] = "CUSTOMER"]
    /\ link' = link \ {u}

BecomeDistributor(h) ==
    /\ call[h].at = "subscribe.role"
    /\ Upgrade({call[h].user})
    /\ End(h)
    /\ UNCHANGED <<sub, suspended, leads, recorded, active, gateway, cron, bounds>>

----------------------------------------------------------------------------
(* The events: handleCharged, handleHalted, handleCancelledOrCompleted *)

\* The rows with a gateway id: one or none.
OwnersOf(g) == {u \in Users : sub[u].gid = g}

\* An update where razorpaySubscriptionId = g; it finds nothing when the row has
\* been given another id since (P2025), and the handler returns.
UpdateWhere(g, new(_)) ==
    sub' = [u \in Users |-> IF sub[u].gid = g THEN new(sub[u]) ELSE sub[u]]

Event(h) == log[call[h].gid][call[h].n]

\* The subscription with its user, and whether the payment was recorded already.
ReadCharged(h) ==
    LET g == call[h].gid
        owners == OwnersOf(g)
    IN  /\ call[h].at = "hook" /\ Event(h) = "charged"
        /\ IF owners = {} \/ <<g, call[h].n>> \in recorded
           THEN Answer(h)
           ELSE /\ call' = [call EXCEPT ![h].at = "charged.write", ![h].users = owners,
                                        ![h].upgrade = (owners \cap suspended = {})]
                /\ UNCHANGED gateway
        /\ UNCHANGED <<sub, people, recorded, active, cron, bounds>>

\* Mutant of Renewed: the deadline of an earlier failure stays.
RenewedKeepsGrace(r) == [r EXCEPT !.status = "ACTIVE", !.period = "running"]

Renewed(r) == [r EXCEPT !.status = "ACTIVE", !.period = "running", !.grace = "none"]

\* Mutant of WriteCharged: the row is updated by the user who was read.
WriteChargedByUser(h) ==
    /\ call[h].at = "charged.write"
    /\ sub' = [u \in Users |-> IF u \in call[h].users THEN Renewed(sub[u]) ELSE sub[u]]
    /\ Goto(h, "charged.role") /\ UNCHANGED gateway
    /\ UNCHANGED <<people, recorded, active, cron, bounds>>

WriteCharged(h) ==
    /\ call[h].at = "charged.write"
    /\ UpdateWhere(call[h].gid, Renewed)
    /\ IF OwnersOf(call[h].gid) = {}
       THEN Answer(h)
       ELSE Goto(h, "charged.role") /\ UNCHANGED gateway
    /\ UNCHANGED <<people, recorded, active, cron, bounds>>

\* A user who was suspended when the event was read keeps the role.
UpgradeRole(h) ==
    /\ call[h].at = "charged.role"
    /\ IF call[h].upgrade THEN Upgrade(call[h].users) ELSE UNCHANGED <<role, link>>
    /\ Goto(h, "charged.pay")
    /\ UNCHANGED <<sub, suspended, leads, recorded, active, gateway, cron, bounds>>

\* The payment is recorded, unless another payment has taken its invoice number.
RecordCharge(h) ==
    /\ call[h].at = "charged.pay"
    /\ \/ recorded' = recorded \cup {<<call[h].gid, call[h].n>>}
       \/ UNCHANGED recorded
    /\ Answer(h)
    /\ UNCHANGED <<sub, people, active, cron, bounds>>

Halted(r) == [r EXCEPT !.status = "HALTED", !.grace = "running"]

\* Mutant of HandleHalted: no deadline is set.
HandleHaltedForever(h) ==
    /\ call[h].at = "hook" /\ Event(h) = "halted"
    /\ UpdateWhere(call[h].gid, LAMBDA r : [r EXCEPT !.status = "HALTED"])
    /\ Answer(h)
    /\ UNCHANGED <<people, recorded, active, cron, bounds>>

HandleHalted(h) ==
    /\ call[h].at = "hook" /\ Event(h) = "halted"
    /\ UpdateWhere(call[h].gid, Halted)
    /\ Answer(h)
    /\ UNCHANGED <<people, recorded, active, cron, bounds>>

\* Mutant of CancelledByGateway: no deadline is set.
CancelledForever(r) == [r EXCEPT !.status = "CANCELLED"]

CancelledByGateway(r) == [r EXCEPT !.status = "CANCELLED", !.grace = "running"]

\* The role is left to the nightly job.
HandleEnded(h) ==
    /\ call[h].at = "hook" /\ Event(h) = "ended"
    /\ UpdateWhere(call[h].gid, CancelledByGateway)
    /\ Answer(h)
    /\ UNCHANGED <<people, recorded, active, cron, bounds>>

----------------------------------------------------------------------------
(* cancelSubscription, selfCancelSubscription, suspendUser, updateUserRole *)

Chargeable(u) == sub[u].status \in {"ACTIVE", "HALTED"}

Begin(h, where, why, u, lead) ==
    /\ Request
    /\ call[h] = Idle
    /\ call' = [call EXCEPT ![h] = [at |-> where, why |-> why, user |-> u,
                                    gid |-> sub[u].gid, lead |-> lead]]
    /\ UNCHANGED <<sub, people, recorded, active, gateway, cron>>

\* An administrator cancels a subscription, whatever its status.
CancelSubscription(h, u) ==
    /\ sub[u] # Absent
    /\ Begin(h, "cancel.gateway", "admin", u, TRUE)

SelfCancel(h, u) ==
    /\ role[u] = "DISTRIBUTOR" /\ u \notin suspended
    /\ sub[u].status = "ACTIVE"
    /\ Begin(h, "cancel.gateway", "self", u, FALSE)

\* Suspending a distributor and changing the role of one cancel first what the
\* gateway may still charge.
SuspendUser(h, u) ==
    /\ u \notin suspended
    /\ Begin(h, IF role[u] = "DISTRIBUTOR" /\ Chargeable(u)
                THEN "cancel.gateway" ELSE "cancel.suspend",
             "suspend", u, role[u] = "DISTRIBUTOR")

UpdateUserRole(h, u) ==
    /\ role[u] = "DISTRIBUTOR"
    /\ Begin(h, IF Chargeable(u) THEN "cancel.gateway" ELSE "cancel.role",
             "role", u, FALSE)

\* The gateway stops charging; its answer may be lost, which the handler takes
\* for a refusal.
StopAtGateway(h) ==
    LET atCycleEnd == call[h].why = "self"
    IN  /\ call[h].at = "cancel.gateway"
        /\ CanStop(call[h].gid, atCycleEnd)
        /\ Stop(call[h].gid, atCycleEnd)
        /\ Goto(h, "cancel.write") \/ End(h)
        /\ UNCHANGED <<sub, people, recorded, active, acked, cron, bounds>>

\* Mutant of Refused: the handler goes on without the gateway.
RefusedIgnored(h) ==
    /\ call[h].at = "cancel.gateway"
    /\ Goto(h, "cancel.write")
    /\ UNCHANGED <<sub, people, recorded, active, gateway, cron, bounds>>

\* The gateway refuses or cannot be reached, and the handler stops.
Refused(h) ==
    /\ call[h].at = "cancel.gateway"
    /\ End(h)
    /\ UNCHANGED <<sub, people, recorded, active, gateway, cron, bounds>>

\* The row is updated by its own uuid, whichever subscription it holds by now.
WriteCancelled(h) ==
    /\ call[h].at = "cancel.write"
    /\ SetStatus(call[h].user, "CANCELLED")
    /\ IF call[h].why = "self" THEN End(h) ELSE Goto(h, "cancel.user")
    /\ UNCHANGED <<people, recorded, active, gateway, cron, bounds>>

\* The role and the link go; a change of role takes the link first.
LeaveRole(h) ==
    /\ call[h].at = "cancel.user"
    /\ IF call[h].why = "role"
       THEN link' = link \ {call[h].user} /\ UNCHANGED role
       ELSE Downgrade(call[h].user)
    /\ Goto(h, CASE call[h].why = "admin" -> "cancel.leads"
                 [] call[h].why = "suspend" -> "cancel.suspend"
                 [] OTHER -> "cancel.role")
    /\ UNCHANGED <<sub, suspended, leads, recorded, active, gateway, cron, bounds>>

Suspend(h) ==
    /\ call[h].at = "cancel.suspend"
    /\ suspended' = suspended \cup {call[h].user}
    /\ IF call[h].lead THEN Goto(h, "cancel.leads") ELSE End(h)
    /\ UNCHANGED <<sub, role, link, leads, recorded, active, gateway, cron, bounds>>

SetRole(h) ==
    /\ call[h].at = "cancel.role"
    /\ role' = [role EXCEPT ![call[h].user] = "CUSTOMER"]
    /\ End(h)
    /\ UNCHANGED <<sub, link, suspended, leads, recorded, active, gateway, cron, bounds>>

HandOver(h) ==
    /\ call[h].at = "cancel.leads"
    /\ HandedOver(call[h].user)
    /\ End(h)
    /\ UNCHANGED <<sub, role, link, suspended, recorded, active, gateway, cron, bounds>>

Reactivate(u) ==
    /\ Request
    /\ u \in suspended
    /\ suspended' = suspended \ {u}
    /\ UNCHANGED <<sub, role, link, leads, recorded, active, gateway, call, cron>>

----------------------------------------------------------------------------
(* deactivatePlan with triggerMigrationForPlan, and activatePlan *)

DeactivatePlan(h, plan) ==
    /\ Request
    /\ call[h] = Idle
    /\ active' = active \ {plan}
    /\ call' = [call EXCEPT ![h] = [at |-> "plan.read", plan |-> plan, todo |-> {}]]
    /\ UNCHANGED <<sub, people, recorded, gateway, cron>>

ReadSubscribers(h) ==
    /\ call[h].at = "plan.read"
    /\ call' = [call EXCEPT ![h].at = "plan.flag",
                            ![h].todo = {u \in Users : /\ sub[u].status = "ACTIVE"
                                                       /\ sub[u].plan = call[h].plan}]
    /\ UNCHANGED <<sub, people, recorded, active, gateway, cron, bounds>>

FlagSubscriber(h) ==
    /\ call[h].at = "plan.flag"
    /\ IF call[h].todo = {}
       THEN End(h) /\ UNCHANGED sub
       ELSE \E u \in call[h].todo :
               /\ sub' = [sub EXCEPT ![u].migrating = TRUE]
               /\ call' = [call EXCEPT ![h].todo = @ \ {u}]
    /\ UNCHANGED <<people, recorded, active, gateway, cron, bounds>>

\* One transaction; the plan that was active is deactivated without a migration.
ActivatePlan(plan) ==
    /\ Request
    /\ plan \notin active
    /\ \/ active = {} /\ active' = {plan}
       \/ \E old \in active : active' = (active \ {old}) \cup {plan}
    /\ UNCHANGED <<sub, people, recorded, gateway, call, cron>>

----------------------------------------------------------------------------
(* The nightly job *)

\* The rows of a query, as the job remembers them.
Found(Wanted(_)) ==
    {<<u, sub[u].gid>> : u \in {v \in Users : sub[v] # Absent /\ Wanted(sub[v])}}

PastGrace == Found(LAMBDA r : r.status \in {"HALTED", "CANCELLED"} /\ r.grace = "over")
DueToMigrate == Found(LAMBDA r : r.migrating /\ r.status = "ACTIVE" /\ r.period = "over")
HaltedInMigration ==
    Found(LAMBDA r : r.migrating /\ r.status = "HALTED" /\ r.period = "over")

\* The three parts of the job run one after the other; a part whose query finds
\* nothing does nothing, and is no step.
StartPart(part, found) ==
    /\ cron.at = "idle"
    /\ found # {}
    /\ cron' = [at |-> part, todo |-> found, now |-> <<>>]
    /\ UNCHANGED <<sub, people, recorded, active, gateway, call, bounds>>

CronStart ==
    \/ StartPart("expire", PastGrace)
    \/ StartPart("migrate", DueToMigrate)
    \/ StartPart("overlap", HaltedInMigration)

\* On with the row, and when it is done with the rest of the part.
Treat(row, where) == cron' = [cron EXCEPT !.at = where, !.now = row]
Done(row, part) ==
    cron' = IF cron.todo = {row} THEN Asleep
            ELSE [at |-> part, todo |-> cron.todo \ {row}, now |-> <<>>]

\* Nothing is read again before a row is expired.
CronExpire ==
    /\ cron.at = "expire"
    /\ \E row \in cron.todo :
          /\ SetStatus(row[1], "EXPIRED")
          /\ Treat(row, "expire.user")
    /\ UNCHANGED <<people, recorded, active, gateway, call, bounds>>

CronDowngrade ==
    /\ cron.at = "expire.user"
    /\ Downgrade(cron.now[1])
    /\ Treat(cron.now, "expire.leads")
    /\ UNCHANGED <<sub, suspended, leads, recorded, active, gateway, call, bounds>>

CronHandOver ==
    /\ cron.at = "expire.leads"
    /\ HandedOver(cron.now[1])
    /\ Done(cron.now, "expire")
    /\ UNCHANGED <<sub, role, link, suspended, recorded, active, gateway, call, bounds>>

\* processMigrationExecution: an error of the gateway leaves the row to the next
\* night.
CronStop ==
    /\ cron.at = "migrate"
    /\ \E row \in cron.todo :
          \/ /\ CanStop(row[2], FALSE)
             /\ Stop(row[2], FALSE)
             /\ Treat(row, "migrate.write") \/ Done(row, "migrate")
          \/ Done(row, "migrate") /\ UNCHANGED <<gw, log>>
    /\ UNCHANGED <<sub, people, recorded, active, acked, call, bounds>>

CronCancel ==
    /\ cron.at = "migrate.write"
    /\ sub' = [sub EXCEPT ![cron.now[1]].status = "CANCELLED",
                          ![cron.now[1]].grace = "running",
                          ![cron.now[1]].migrating = FALSE]
    /\ Done(cron.now, "migrate")
    /\ UNCHANGED <<people, recorded, active, gateway, call, bounds>>

\* processMigrationHaltedOverlap
CronClear ==
    /\ cron.at = "overlap"
    /\ \E row \in cron.todo :
          /\ sub' = [sub EXCEPT ![row[1]].migrating = FALSE]
          /\ Done(row, "overlap")
    /\ UNCHANGED <<people, recorded, active, gateway, call, bounds>>

\* The server restarts; what was being done is not taken up again.
Crash ==
    /\ crashes < MaxCrashes
    /\ crashes' = crashes + 1
    /\ call' = [h \in Handlers |-> Idle]
    /\ cron' = Asleep
    /\ UNCHANGED <<sub, people, recorded, active, gateway, requests>>

----------------------------------------------------------------------------
Init ==
    /\ sub = [u \in Users |-> Absent]
    /\ role = [u \in Users |-> "CUSTOMER"]
    /\ link = {}
    /\ suspended = {}
    /\ leads = {}
    /\ recorded = {}
    /\ \E plan \in Plans : active = {plan}
    /\ gw = [g \in Subs |-> "none"]
    /\ log = [g \in Subs |-> <<>>]
    /\ acked = [g \in Subs |-> {}]
    /\ call = [h \in Handlers |-> Idle]
    /\ cron = Asleep
    /\ requests = 0
    /\ crashes = 0

\* The steps a started handler takes by itself.
Continue(h) ==
    \/ CreateAtGateway(h) \/ Upsert(h) \/ BecomeDistributor(h)
    \/ ReadCharged(h) \/ WriteCharged(h) \/ UpgradeRole(h) \/ RecordCharge(h)
    \/ HandleHalted(h) \/ HandleEnded(h)
    \/ StopAtGateway(h) \/ Refused(h) \/ WriteCancelled(h) \/ LeaveRole(h)
    \/ Suspend(h) \/ SetRole(h) \/ HandOver(h)
    \/ ReadSubscribers(h) \/ FlagSubscriber(h)

RunCron ==
    CronExpire \/ CronDowngrade \/ CronHandOver \/ CronStop \/ CronCancel \/ CronClear

Next ==
    \/ \E h \in Handlers :
          \/ \E u \in Users, plan \in Plans : Subscribe(h, u, plan)
          \/ \E u \in Users :
                \/ CancelSubscription(h, u) \/ SelfCancel(h, u)
                \/ SuspendUser(h, u) \/ UpdateUserRole(h, u)
          \/ \E plan \in Plans : DeactivatePlan(h, plan)
          \/ \E g \in Subs : \E n \in DOMAIN log[g] : Deliver(h, g, n)
          \/ Continue(h)
    \/ \E u \in Users :
          \/ PeriodEnds(u) \/ GraceEnds(u) \/ VisitorComes(u) \/ LeadArrives(u) \/ Reactivate(u)
    \/ \E g \in Subs : Charge(g) \/ Halt(g) \/ Complete(g)
    \/ \E plan \in Plans : ActivatePlan(plan)
    \/ CronStart \/ RunCron
    \/ Crash

Spec == Init /\ [][Next]_vars

\* A started handler and a started job run to their end, what is past its grace
\* is looked for every night, a grace runs out, and the gateway repeats an event until it is answered.
Fairness ==
    /\ \A h \in Handlers : WF_vars(Continue(h))
    /\ WF_vars(RunCron)
    /\ WF_vars(StartPart("expire", PastGrace))
    /\ \A u \in Users : WF_vars(GraceEnds(u))
    /\ \A g \in Subs : SF_vars(\E h \in Handlers : \E n \in DOMAIN log[g] : Deliver(h, g, n))

FairSpec == Spec /\ Fairness

----------------------------------------------------------------------------
(* Properties *)

\* Every row, book, handler and job has the shape the schema and the code give it.
TypeOK ==
    /\ sub \in [Users -> Row \cup {Absent}]
    /\ role \in [Users -> {"CUSTOMER", "DISTRIBUTOR"}]
    /\ link \subseteq Users /\ suspended \subseteq Users
    /\ leads \subseteq Users \X LeadStages
    /\ recorded \subseteq Subs \X Nat
    /\ active \subseteq Plans
    /\ gw \in [Subs -> {"none", "created", "live", "halted", "ending", "ended"}]
    /\ log \in [Subs -> Seq(Events)]
    /\ acked \in [Subs -> SUBSET Nat]
    /\ \A g \in Subs : acked[g] \subseteq DOMAIN log[g]
    /\ call \in [Handlers -> {Idle} \cup SubscribeCall \cup CancelCall
                                    \cup HookCall \cup PlanCall]
    /\ cron \in CronStates
    /\ requests \in Nat
    /\ crashes \in Nat

\* The job finds whoever has to be expired by the deadline: a halted subscription
\* has one, whatever wrote to the row before, and a renewed one has none left from
\* an earlier failure (handleCharged, handleHalted, subscribe).
DeadlineMatchesStatus ==
    \A u \in Users :
        /\ sub[u].status = "HALTED" => sub[u].grace # "none"
        /\ sub[u].status = "ACTIVE" => sub[u].grace = "none"

\* An event about a subscription that the user has replaced changes no row: it may
\* be late, repeated, or overtaken while its handler is under way (handleCharged,
\* handleHalted, handleCancelledOrCompleted).
StaleEventsIgnored ==
    [][\A h \in Handlers, u \in Users :
          call[h] \in HookCall /\ call'[h] # call[h] /\ sub[u].gid # call[h].gid
              => sub'[u] = sub[u]]_vars

\* A subscription that is marked as cancelled is one the gateway has stopped
\* charging, or will at the end of the cycle.  The exception is a handler or a job
\* that stopped an earlier subscription of the user (cancelSubscription,
\* selfCancelSubscription, suspendUser, updateUserRole, processMigrationExecution,
\* handleCancelledOrCompleted).
StoppedBeforeCancelled ==
    [][\A u \in Users :
          sub'[u].status = "CANCELLED" /\ sub[u].status # "CANCELLED" =>
              \/ gw[sub[u].gid] \in {"ending", "ended"}
              \/ \E h \in Handlers : /\ call[h].at = "cancel.write"
                                     /\ call[h].user = u /\ call[h].gid # sub[u].gid
              \/ /\ cron.at = "migrate.write"
                 /\ cron.now[1] = u /\ cron.now[2] # sub[u].gid]_vars

\* When the gateway sends its events in turn and the server does not restart, a
\* subscription it has ended costs its user the role, the link and the open leads that
\* came while the link was open, unless the user subscribes again
\* (handleCancelledOrCompleted, processExpiredSubscriptions).  A visitor acquired
\* before may still become a lead of the user afterwards, and stays one.
EndedIsDowngraded ==
    \A g \in Subs, u \in Users :
        (gw[g] = "ended" /\ sub[u].gid = g)
            ~> \/ sub[u].gid # g
               \/ role[u] = "CUSTOMER" /\ u \notin link /\ <<u, "lead">> \notin leads

\* Nobody stays halted: the failed payment is made up for, or the subscription is
\* cancelled or expires (handleHalted, processExpiredSubscriptions).
HaltedIsResolved ==
    \A u \in Users : sub[u].status = "HALTED" ~> sub[u].status # "HALTED"
=============================================================================

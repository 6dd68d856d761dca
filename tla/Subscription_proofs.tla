------------------------ MODULE Subscription_proofs ------------------------
(***************************************************************************)
(* Proofs about Subscription, for any number of users, subscriptions,      *)
(* plans and handlers, any bounds, and events in any order.                *)
(***************************************************************************)
EXTENDS Subscription, TLAPS

Calls == {Idle} \cup SubscribeCall \cup CancelCall \cup HookCall \cup PlanCall

\* The users who have a row.
Known == {u \in Users : sub[u] # Absent}

\* What a handler holds is there: the row it is to write by its uuid, the
\* subscription it created or is to stop, the event it is about.
Holds(v) ==
    /\ v.at = "subscribe.upsert" => v.gid \in Subs
    /\ v.at \in {"cancel.gateway", "cancel.write"} => v.user \in Known
    /\ v.at = "cancel.gateway" => v.gid \in Subs
    /\ v \in HookCall => v.n \in DOMAIN log[v.gid]
    /\ v \in PlanCall => v.todo \subseteq Known

\* So are the rows of the job.
CronHolds ==
    /\ \A row \in cron.todo : row[1] \in Known
    /\ cron.at \in {"expire.user", "expire.leads", "migrate.write"} =>
          cron.now \in Known \X Subs

TypeInv == TypeOK /\ (\A h \in Handlers : Holds(call[h])) /\ CronHolds

\* Rows and events stay.
Growing ==
    /\ Known \subseteq Known'
    /\ \A g \in Subs : DOMAIN log[g] \subseteq DOMAIN log'[g]

----------------------------------------------------------------------------
(* Rows, events, handlers *)

\* A row that is there is one, with a subscription; an absent row has none.
LEMMA RowFacts ==
    ASSUME TypeOK, NEW u \in Users
    PROVE  /\ u \in Known => sub[u] \in Row /\ sub[u].gid \in Subs
           /\ u \notin Known => sub[u].gid = NoSub /\ sub[u].status = "NONE"
           /\ sub[u].status \in Statuses => u \in Known
           /\ sub[u].gid \in Subs => u \in Known
           /\ sub[u].gid \in Subs \cup {NoSub}
BY SubscriptionAssumption DEF TypeOK, Known, Row, Absent, Statuses

\* Every update of a row leaves a row of the same subscription.
LEMMA RowUpdates ==
    ASSUME NEW r \in Row
    PROVE  /\ Renewed(r) \in Row /\ Renewed(r).gid = r.gid
           /\ Halted(r) \in Row /\ Halted(r).gid = r.gid
           /\ CancelledByGateway(r) \in Row /\ CancelledByGateway(r).gid = r.gid
           /\ [r EXCEPT !.status = "CANCELLED"] \in Row
           /\ [r EXCEPT !.status = "EXPIRED"] \in Row
           /\ [r EXCEPT !.period = "over"] \in Row
           /\ [r EXCEPT !.grace = "over"] \in Row
           /\ [r EXCEPT !.migrating = TRUE] \in Row
           /\ [r EXCEPT !.migrating = FALSE] \in Row
           /\ [r EXCEPT !.status = "CANCELLED", !.grace = "running",
                        !.migrating = FALSE] \in Row
BY DEF Row, Statuses, Renewed, Halted, CancelledByGateway

\* Rows that are replaced by rows are typed, and none goes.
LEMMA RowsReplaced ==
    ASSUME TypeOK, sub' = [u \in Users |-> sub'[u]],
           \A u \in Users : sub'[u] = sub[u] \/ sub'[u] \in Row
    PROVE  /\ sub' \in [Users -> Row \cup {Absent}]
           /\ Known \subseteq Known'
<1>1. Absent \notin Row
  BY SubscriptionAssumption DEF Absent, Row
<1> QED
  BY <1>1 DEF TypeOK, Known

\* An update where razorpaySubscriptionId = g, by any of the three handlers.
LEMMA RowsWhere ==
    ASSUME TypeOK, NEW g \in Subs,
           \/ UpdateWhere(g, Renewed) \/ UpdateWhere(g, Halted)
           \/ UpdateWhere(g, CancelledByGateway)
    PROVE  /\ sub' \in [Users -> Row \cup {Absent}]
           /\ Known \subseteq Known'
           /\ \A u \in Users : sub[u].gid # g => sub'[u] = sub[u]
<1>1. \A u \in Users : sub[u].gid = g => sub[u] \in Row
  BY RowFacts
<1>2. CASE UpdateWhere(g, Renewed)
  BY <1>1, <1>2, RowUpdates, RowsReplaced DEF UpdateWhere
<1>3. CASE UpdateWhere(g, Halted)
  BY <1>1, <1>3, RowUpdates, RowsReplaced DEF UpdateWhere
<1>4. CASE UpdateWhere(g, CancelledByGateway)
  BY <1>1, <1>4, RowUpdates, RowsReplaced DEF UpdateWhere
<1> QED
  BY <1>2, <1>3, <1>4

\* One row is written.
LEMMA RowWritten ==
    ASSUME TypeOK, NEW u \in Users, NEW r \in Row, sub' = [sub EXCEPT ![u] = r]
    PROVE  /\ sub' \in [Users -> Row \cup {Absent}]
           /\ Known \subseteq Known'
BY RowsReplaced DEF TypeOK

\* An event is added to those of a subscription.
LEMMA EventAdded ==
    ASSUME TypeOK, NEW g \in Subs, NEW e \in Events,
           log' = [log EXCEPT ![g] = Append(@, e)]
    PROVE  /\ log' \in [Subs -> Seq(Events)]
           /\ \A k \in Subs : DOMAIN log[k] \subseteq DOMAIN log'[k]
           /\ \A k \in Subs : \A n \in DOMAIN log'[k] :
                 \/ n \in DOMAIN log[k] /\ log'[k][n] = log[k][n]
                 \/ k = g /\ log'[k][n] = e
<1>1. log \in [Subs -> Seq(Events)] /\ log[g] \in Seq(Events)
  BY DEF TypeOK
<1>2. Append(log[g], e) \in Seq(Events)
  BY <1>1
<1>3. \A n \in DOMAIN Append(log[g], e) :
         \/ n \in DOMAIN log[g] /\ Append(log[g], e)[n] = log[g][n]
         \/ Append(log[g], e)[n] = e
  BY <1>1
<1>4. DOMAIN log[g] \subseteq DOMAIN Append(log[g], e)
  BY <1>1
<1>5. \A k \in Subs : log'[k] = IF k = g THEN Append(log[g], e) ELSE log[k]
  BY <1>1
<1> QED
  BY <1>1, <1>2, <1>3, <1>4, <1>5

\* The gateway stops a subscription.
LEMMA StopFacts ==
    ASSUME TypeOK, NEW g \in Subs, NEW atCycleEnd \in BOOLEAN,
           CanStop(g, atCycleEnd), Stop(g, atCycleEnd)
    PROVE  /\ gw' \in [Subs -> {"none", "created", "live", "halted", "ending", "ended"}]
           /\ log' \in [Subs -> Seq(Events)]
           /\ \A k \in Subs : DOMAIN log[k] \subseteq DOMAIN log'[k]
           /\ \A k \in Subs : \A n \in DOMAIN log'[k] :
                 \/ n \in DOMAIN log[k] /\ log'[k][n] = log[k][n]
                 \/ k = g /\ gw'[g] = "ended"
           /\ gw'[g] \in {"ending", "ended"}
           /\ ~atCycleEnd => gw'[g] = "ended"
           /\ gw[g] # "ended"
           /\ \A k \in Subs \ {g} : gw'[k] = gw[k]
<1>1. "ended" \in Events
  BY DEF Events
<1>2. CASE atCycleEnd
  BY <1>2 DEF CanStop, Stop, TypeOK
<1>3. CASE ~atCycleEnd
  <2>1. /\ gw' = [gw EXCEPT ![g] = "ended"]
        /\ log' = [log EXCEPT ![g] = Append(@, "ended")]
        /\ gw[g] \notin {"none", "ended"}
    BY <1>3 DEF CanStop, Stop
  <2> QED
    BY <1>1, <1>3, <2>1, EventAdded DEF TypeOK
<1> QED
  BY <1>2, <1>3

\* The kinds of calls are told apart by their stages.
LEMMA Stages ==
    ASSUME NEW v \in Calls
    PROVE  /\ v.at \in {"subscribe.create", "subscribe.upsert", "subscribe.role"} =>
                 v \in SubscribeCall
           /\ v.at \in {"cancel.gateway", "cancel.write", "cancel.user",
                        "cancel.suspend", "cancel.role", "cancel.leads"} => v \in CancelCall
           /\ v.at \in {"hook", "charged.write", "charged.role", "charged.pay"} =>
                 v \in HookCall
           /\ v.at \in {"plan.read", "plan.flag"} => v \in PlanCall
<1>1. CASE v = Idle
  BY <1>1 DEF Idle
<1>2. CASE v \in SubscribeCall
  BY <1>2 DEF SubscribeCall
<1>3. CASE v \in CancelCall
  BY <1>3 DEF CancelCall
<1>4. CASE v \in HookCall
  BY <1>4 DEF HookCall
<1>5. CASE v \in PlanCall
  BY <1>5 DEF PlanCall
<1> QED
  BY <1>1, <1>2, <1>3, <1>4, <1>5 DEF Calls

\* A handler at a stage of a request or an event is one.
LEMMA SubscribeFacts ==
    ASSUME TypeOK, NEW h \in Handlers,
           call[h].at \in {"subscribe.create", "subscribe.upsert", "subscribe.role"}
    PROVE  /\ call[h] \in SubscribeCall
           /\ call[h].user \in Users /\ call[h].plan \in Plans
<1>1. call[h] \in Calls
  BY DEF TypeOK, Calls
<1>2. call[h] \in SubscribeCall
  BY <1>1, Stages
<1> QED
  BY <1>2 DEF SubscribeCall

LEMMA CancelFacts ==
    ASSUME TypeOK, NEW h \in Handlers,
           call[h].at \in {"cancel.gateway", "cancel.write", "cancel.user",
                           "cancel.suspend", "cancel.role", "cancel.leads"}
    PROVE  call[h] \in CancelCall /\ call[h].user \in Users
<1>1. call[h] \in Calls
  BY DEF TypeOK, Calls
<1>2. call[h] \in CancelCall
  BY <1>1, Stages
<1> QED
  BY <1>2 DEF CancelCall

LEMMA HookFacts ==
    ASSUME TypeInv, NEW h \in Handlers,
           call[h].at \in {"hook", "charged.write", "charged.role", "charged.pay"}
    PROVE  /\ call[h] \in HookCall /\ call[h].gid \in Subs /\ call[h].users \subseteq Users
           /\ call[h].n \in DOMAIN log[call[h].gid] /\ call[h].n \in Nat
<1>1. call[h] \in Calls /\ Holds(call[h])
  BY DEF TypeInv, TypeOK, Calls
<1>2. call[h] \in HookCall
  BY <1>1, Stages
<1> QED
  BY <1>1, <1>2 DEF Holds, HookCall

LEMMA PlanFacts ==
    ASSUME TypeOK, NEW h \in Handlers, call[h].at \in {"plan.read", "plan.flag"}
    PROVE  call[h] \in PlanCall /\ call[h].plan \in Plans /\ call[h].todo \subseteq Users
<1>1. call[h] \in Calls
  BY DEF TypeOK, Calls
<1>2. call[h] \in PlanCall
  BY <1>1, Stages
<1> QED
  BY <1>2 DEF PlanCall

\* An event or a plan is no other kind of call.
LEMMA KindsApart ==
    /\ \A v \in {Idle} \cup SubscribeCall \cup CancelCall : v \notin HookCall \cup PlanCall
    /\ \A v \in HookCall : v \notin PlanCall
BY DEF Idle, SubscribeCall, CancelCall, HookCall, PlanCall

\* When one handler moves on, and what it holds then is there, every handler is
\* typed and holds what is there.
LEMMA CallMoves ==
    ASSUME TypeInv, Growing, NEW h \in Handlers, NEW v \in Calls,
           call' = [call EXCEPT ![h] = v], Holds(v)'
    PROVE  call' \in [Handlers -> Calls] /\ (\A k \in Handlers : Holds(call[k]))'
<1>1. call \in [Handlers -> Calls]
  BY DEF TypeInv, TypeOK, Calls
<1>2. ASSUME NEW k \in Handlers, k # h
      PROVE  Holds(call[k])'
  <2>1. call'[k] = call[k] /\ Holds(call[k])
    BY <1>1, <1>2 DEF TypeInv
  <2>2. call[k] \in HookCall => call[k].gid \in Subs
    BY DEF HookCall
  <2> QED
    BY <2>1, <2>2 DEF Holds, Growing
<1>3. Holds(call[h])'
  BY <1>1
<1> QED
  BY <1>1, <1>2, <1>3

\* A handler that ends.
LEMMA CallEnds ==
    ASSUME TypeInv, Growing, NEW h \in Handlers, End(h)
    PROVE  call' \in [Handlers -> Calls] /\ (\A k \in Handlers : Holds(call[k]))'
<1>1. Idle \in Calls /\ Holds(Idle)'
  BY KindsApart DEF Calls, Holds, Idle
<1> QED
  BY <1>1, CallMoves DEF End

\* Handlers that stand still go on holding what is there.
LEMMA CallsStand ==
    ASSUME TypeInv, Growing, call' = call
    PROVE  call' \in [Handlers -> Calls] /\ (\A k \in Handlers : Holds(call[k]))'
<1>1. \A k \in Handlers : call[k] \in HookCall => call[k].gid \in Subs
  BY DEF HookCall
<1> QED
  BY <1>1 DEF TypeInv, TypeOK, Calls, Holds, Growing

\* The job that stands still goes on holding its rows.
LEMMA CronStands ==
    ASSUME TypeInv, Growing, cron' = cron
    PROVE  cron' \in CronStates /\ CronHolds'
BY DEF TypeInv, TypeOK, CronHolds, Growing

\* Rows and events that stand still are there.
LEMMA StandStill ==
    ASSUME sub' = sub, log' = log
    PROVE  Growing
BY DEF Growing, Known

\* An event that is answered was delivered.
LEMMA AnswerFacts ==
    ASSUME TypeInv, Growing, NEW h \in Handlers,
           call[h].at \in {"hook", "charged.write", "charged.role", "charged.pay"},
           Answer(h)
    PROVE  /\ acked' \in [Subs -> SUBSET Nat]
           /\ \A g \in Subs : acked'[g] \subseteq DOMAIN log'[g]
           /\ call' \in [Handlers -> Calls]
           /\ \A k \in Handlers : Holds(call[k])'
<1>1. call[h].gid \in Subs /\ call[h].n \in DOMAIN log[call[h].gid] /\ call[h].n \in Nat
  BY HookFacts
<1>2. log' = log /\ acked' = [acked EXCEPT ![call[h].gid] = @ \cup {call[h].n}]
  BY DEF Answer
<1>3. acked \in [Subs -> SUBSET Nat] /\ \A g \in Subs : acked[g] \subseteq DOMAIN log[g]
  BY DEF TypeInv, TypeOK
<1>4. /\ acked' \in [Subs -> SUBSET Nat]
      /\ \A g \in Subs : acked'[g] \subseteq DOMAIN log'[g]
  BY <1>1, <1>2, <1>3
<1> QED
  BY <1>4, CallEnds DEF Answer

\* The rows a query finds are rows.
LEMMA FoundRows ==
    ASSUME TypeOK
    PROVE  PastGrace \cup DueToMigrate \cup HaltedInMigration \subseteq Known \X Subs
BY RowFacts DEF PastGrace, DueToMigrate, HaltedInMigration, Found, Known

\* The job goes on with a row or is done with it.
LEMMA CronMoves ==
    ASSUME TypeInv, Growing, NEW row \in Known \X Subs,
           NEW where \in {"expire", "expire.user", "expire.leads", "migrate",
                          "migrate.write", "overlap"},
           \/ Treat(row, where)
           \/ where \in {"expire", "migrate", "overlap"} /\ Done(row, where)
    PROVE  cron' \in CronStates /\ CronHolds'
<1>1. cron \in CronStates /\ \A r \in cron.todo : r[1] \in Known
  BY DEF TypeInv, TypeOK, CronHolds
<1>2. row \in Users \X Subs /\ row \in Known' \X Subs
  BY DEF Growing, Known
<1>3. CASE Treat(row, where)
  <2>1. cron' \in CronStates /\ cron'.todo = cron.todo /\ cron'.now = row
    BY <1>1, <1>2, <1>3 DEF Treat, CronStates
  <2> QED
    BY <1>1, <1>2, <2>1 DEF CronHolds, Growing
<1>4. CASE where \in {"expire", "migrate", "overlap"} /\ Done(row, where)
  <2>1. cron' \in CronStates /\ cron'.todo \subseteq cron.todo
    BY <1>1, <1>4 DEF Done, CronStates, Asleep
  <2>2. cron'.at \in {"idle", "expire", "migrate", "overlap"}
    BY <1>1, <1>4 DEF Done, CronStates, Asleep
  <2> QED
    BY <1>1, <2>1, <2>2 DEF CronHolds, Growing
<1> QED
  BY <1>3, <1>4

----------------------------------------------------------------------------
(* Types *)

\* A request to cancel starts typed; it goes to the gateway only for a row.
LEMMA BeginType ==
    ASSUME TypeInv, NEW h \in Handlers, NEW u \in Users, NEW lead \in BOOLEAN,
           NEW where \in {"cancel.gateway", "cancel.suspend", "cancel.role"},
           NEW why \in {"admin", "self", "suspend", "role"},
           where = "cancel.gateway" => u \in Known, Begin(h, where, why, u, lead)
    PROVE  TypeInv'
<1>1. Growing
  BY StandStill DEF Begin, gateway
<1>2. [at |-> where, why |-> why, user |-> u, gid |-> sub[u].gid, lead |-> lead] \in CancelCall
  BY RowFacts DEF CancelCall, TypeInv
<1>3. PICK v \in CancelCall :
         v = [at |-> where, why |-> why, user |-> u, gid |-> sub[u].gid, lead |-> lead]
  BY <1>2
<1>4. /\ v.at = "cancel.gateway" => v.user \in Known' /\ v.gid \in Subs
      /\ v.at \notin {"subscribe.upsert", "cancel.write"}
  BY <1>1, <1>3, RowFacts DEF TypeInv, Growing
<1>5. call' \in [Handlers -> Calls] /\ (\A k \in Handlers : Holds(call[k]))'
  <2>1. call' = [call EXCEPT ![h] = v]
    BY <1>3 DEF Begin
  <2>2. Holds(v)'
    BY <1>4, KindsApart DEF Holds
  <2> QED
    BY <1>1, <2>1, <2>2, CallMoves DEF Calls
<1>6. cron' \in CronStates /\ CronHolds'
  BY <1>1, CronStands DEF Begin
<1> QED
  BY <1>5, <1>6 DEF Begin, Request, people, gateway, TypeInv, TypeOK, Calls

\* The gateway and time.
LEMMA WorldType ==
    ASSUME TypeInv,
           \/ \E g \in Subs : Charge(g) \/ Halt(g) \/ Complete(g)
           \/ \E h \in Handlers, g \in Subs : \E n \in DOMAIN log[g] : Deliver(h, g, n)
           \/ \E u \in Users : PeriodEnds(u) \/ GraceEnds(u) \/ VisitorComes(u) \/ LeadArrives(u) \/ Reactivate(u)
           \/ \E plan \in Plans : ActivatePlan(plan)
           \/ CronStart
           \/ Crash
    PROVE  TypeInv'
<1> USE DEF people, gateway, bounds
<1>1. ASSUME NEW g \in Subs, Charge(g) \/ Halt(g)
      PROVE  TypeInv'
  <2>1. PICK e \in Events : log' = [log EXCEPT ![g] = Append(@, e)]
    BY <1>1 DEF Charge, Halt, Events
  <2>2. /\ log' \in [Subs -> Seq(Events)]
        /\ \A k \in Subs : DOMAIN log[k] \subseteq DOMAIN log'[k]
    BY <2>1, EventAdded DEF TypeInv
  <2>3. sub' = sub /\ call' = call /\ cron' = cron
    BY <1>1 DEF Charge, Halt
  <2>4. Growing
    BY <2>2, <2>3 DEF Growing, Known
  <2>5. gw' \in [Subs -> {"none", "created", "live", "halted", "ending", "ended"}]
    BY <1>1 DEF Charge, Halt, TypeInv, TypeOK
  <2>6. \A k \in Subs : acked'[k] \subseteq DOMAIN log'[k]
    BY <1>1, <2>2 DEF Charge, Halt, TypeInv, TypeOK
  <2>7. /\ UNCHANGED <<role, link, suspended, leads, recorded, active, acked, requests, crashes>>
    BY <1>1 DEF Charge, Halt
  <2>8. call' \in [Handlers -> Calls] /\ (\A k \in Handlers : Holds(call[k]))'
    BY <2>3, <2>4, CallsStand
  <2>9. cron' \in CronStates /\ CronHolds'
    BY <2>3, <2>4, CronStands
  <2> QED
    BY <2>2, <2>3, <2>5, <2>6, <2>7, <2>8, <2>9 DEF TypeInv, TypeOK, Calls
<1>2. ASSUME NEW g \in Subs, Complete(g)
      PROVE  TypeInv'
  <2>1. CanStop(g, FALSE) /\ Stop(g, FALSE)
    BY <1>2 DEF Complete, CanStop
  <2>2. /\ gw' \in [Subs -> {"none", "created", "live", "halted", "ending", "ended"}]
        /\ log' \in [Subs -> Seq(Events)]
        /\ \A k \in Subs : DOMAIN log[k] \subseteq DOMAIN log'[k]
    BY <2>1, StopFacts DEF TypeInv
  <2>3. /\ UNCHANGED <<sub, role, link, suspended, leads, recorded, active, acked, call, cron,
                       requests, crashes>>
    BY <1>2 DEF Complete
  <2>4. Growing
    BY <2>2, <2>3 DEF Growing, Known
  <2>5. \A k \in Subs : acked'[k] \subseteq DOMAIN log'[k]
    BY <2>2, <2>3 DEF TypeInv, TypeOK
  <2>6. call' \in [Handlers -> Calls] /\ (\A k \in Handlers : Holds(call[k]))'
    BY <2>3, <2>4, CallsStand
  <2>7. cron' \in CronStates /\ CronHolds'
    BY <2>3, <2>4, CronStands
  <2> QED
    BY <2>2, <2>3, <2>5, <2>6, <2>7 DEF TypeInv, TypeOK, Calls
<1>3. ASSUME NEW h \in Handlers, NEW g \in Subs, NEW n \in DOMAIN log[g], Deliver(h, g, n)
      PROVE  TypeInv'
  <2> DEFINE v == [at |-> "hook", gid |-> g, n |-> n, users |-> {}, upgrade |-> FALSE]
  <2>1. Growing
    BY <1>3, StandStill DEF Deliver
  <2>2. n \in Nat
    BY DEF TypeInv, TypeOK
  <2>3. v \in HookCall
    BY <2>2 DEF HookCall
  <2>4. Holds(v)'
    BY <1>3, <2>3, KindsApart DEF Holds, Deliver
  <2>5. call' = [call EXCEPT ![h] = v]
    BY <1>3 DEF Deliver
  <2>6. call' \in [Handlers -> Calls] /\ (\A k \in Handlers : Holds(call[k]))'
    <3> HIDE DEF v
    <3> QED
      BY <2>1, <2>3, <2>4, <2>5, CallMoves DEF Calls
  <2>7. cron' \in CronStates /\ CronHolds'
    BY <1>3, <2>1, CronStands DEF Deliver
  <2> QED
    BY <1>3, <2>6, <2>7 DEF Deliver, TypeInv, TypeOK, Calls
<1>4. ASSUME NEW u \in Users, PeriodEnds(u) \/ GraceEnds(u)
      PROVE  TypeInv'
  <2>1. sub[u] \in Row
    BY <1>4, RowFacts DEF PeriodEnds, GraceEnds, TypeInv, Known
  <2>2. PICK r \in Row : sub' = [sub EXCEPT ![u] = r]
    BY <1>4, <2>1, RowUpdates DEF PeriodEnds, GraceEnds
  <2>3. sub' \in [Users -> Row \cup {Absent}] /\ Known \subseteq Known'
    BY <2>2, RowWritten DEF TypeInv
  <2>4. UNCHANGED <<role, link, suspended, leads, recorded, active, gw, log, acked, call, cron,
                    requests, crashes>>
    BY <1>4 DEF PeriodEnds, GraceEnds
  <2>5. Growing
    BY <2>3, <2>4 DEF Growing
  <2>6. call' \in [Handlers -> Calls] /\ (\A k \in Handlers : Holds(call[k]))'
    BY <2>4, <2>5, CallsStand
  <2>7. cron' \in CronStates /\ CronHolds'
    BY <2>4, <2>5, CronStands
  <2> QED
    BY <2>3, <2>4, <2>6, <2>7 DEF TypeInv, TypeOK, Calls
<1>5. ASSUME \/ \E u \in Users : VisitorComes(u) \/ LeadArrives(u) \/ Reactivate(u)
             \/ \E plan \in Plans : ActivatePlan(plan)
      PROVE  TypeInv'
  <2>1. UNCHANGED <<sub, role, link, recorded, gw, log, acked, call, cron, crashes>>
    BY <1>5 DEF VisitorComes, LeadArrives, Reactivate, ActivatePlan, Request, bounds
  <2>2. requests' \in Nat
    <3>1. requests' \in {requests, requests + 1}
      BY <1>5 DEF VisitorComes, LeadArrives, Reactivate, ActivatePlan, Request, bounds
    <3>. QED
      BY <3>1 DEF TypeInv, TypeOK
  <2>3. suspended' \subseteq Users /\ leads' \subseteq Users \X LeadStages /\ active' \subseteq Plans
    <3>1. \A u \in Users, at \in LeadStages : <<u, at>> \in Users \X LeadStages
      OBVIOUS
    <3>2. "visitor" \in LeadStages /\ "lead" \in LeadStages /\ "late" \in LeadStages
      BY DEF LeadStages
    <3>3. leads' \subseteq Users \X LeadStages
      BY <1>5, <3>1, <3>2 DEF VisitorComes, LeadArrives, Reactivate, ActivatePlan, TypeInv, TypeOK
    <3>4. suspended' \subseteq Users /\ active' \subseteq Plans
      BY <1>5 DEF VisitorComes, LeadArrives, Reactivate, ActivatePlan, TypeInv, TypeOK
    <3>. QED
      BY <3>3, <3>4
  <2>4. Growing
    BY <2>1, StandStill
  <2>5. call' \in [Handlers -> Calls] /\ (\A k \in Handlers : Holds(call[k]))'
    BY <2>1, <2>4, CallsStand
  <2>6. cron' \in CronStates /\ CronHolds'
    BY <2>1, <2>4, CronStands
  <2> QED
    BY <2>1, <2>2, <2>3, <2>5, <2>6 DEF TypeInv, TypeOK, Calls
<1>6. ASSUME CronStart
      PROVE  TypeInv'
  <2>1. UNCHANGED <<sub, role, link, suspended, leads, recorded, active, gw, log, acked, call,
                    requests, crashes>>
    BY <1>6 DEF CronStart, StartPart
  <2>2. Growing
    BY <2>1, StandStill
  <2>3. call' \in [Handlers -> Calls] /\ (\A k \in Handlers : Holds(call[k]))'
    BY <2>1, <2>2, CallsStand
  <2>4. /\ cron'.at \in {"expire", "migrate", "overlap"}
        /\ cron'.todo \subseteq Known \X Subs
        /\ cron' = [at |-> cron'.at, todo |-> cron'.todo, now |-> <<>>]
    BY <1>6, FoundRows DEF CronStart, StartPart, TypeInv
  <2>5. cron' \in CronStates
    BY <2>4 DEF CronStates, Known
  <2>6. CronHolds'
    BY <2>1, <2>4 DEF CronHolds, Known
  <2> QED
    BY <2>1, <2>3, <2>5, <2>6 DEF TypeInv, TypeOK, Calls
<1>7. ASSUME Crash
      PROVE  TypeInv'
  <2>1. UNCHANGED <<sub, role, link, suspended, leads, recorded, active, gw, log, acked, requests>>
    BY <1>7 DEF Crash
  <2>2. crashes' \in Nat
    BY <1>7 DEF Crash, TypeInv, TypeOK
  <2>3. Idle \in Calls /\ Holds(Idle)'
    BY KindsApart DEF Calls, Holds, Idle
  <2>4. call' \in [Handlers -> Calls] /\ (\A k \in Handlers : Holds(call[k]))'
    BY <1>7, <2>3 DEF Crash
  <2>5. cron' \in CronStates /\ CronHolds'
    BY <1>7 DEF Crash, Asleep, CronStates, CronHolds
  <2> QED
    BY <2>1, <2>2, <2>4, <2>5 DEF TypeInv, TypeOK, Calls
<1> QED
  BY <1>1, <1>2, <1>3, <1>4, <1>5, <1>6, <1>7

\* subscribe.
LEMMA SubscribeType ==
    ASSUME TypeInv, NEW h \in Handlers,
           \/ \E u \in Users, plan \in Plans : Subscribe(h, u, plan)
           \/ CreateAtGateway(h) \/ Upsert(h) \/ BecomeDistributor(h)
    PROVE  TypeInv'
<1> USE DEF people, gateway, bounds
<1>1. ASSUME NEW u \in Users, NEW plan \in Plans, Subscribe(h, u, plan)
      PROVE  TypeInv'
  <2>1. PICK v \in SubscribeCall :
           v = [at |-> "subscribe.create", user |-> u, plan |-> plan, gid |-> NoSub]
    BY DEF SubscribeCall
  <2>2. Growing
    BY <1>1, StandStill DEF Subscribe
  <2>3. call' = [call EXCEPT ![h] = v] /\ Holds(v)'
    BY <1>1, <2>1, KindsApart DEF Subscribe, Holds
  <2>4. call' \in [Handlers -> Calls] /\ (\A k \in Handlers : Holds(call[k]))'
    BY <2>2, <2>3, CallMoves DEF Calls
  <2>5. cron' \in CronStates /\ CronHolds'
    BY <1>1, <2>2, CronStands DEF Subscribe
  <2> QED
    BY <1>1, <2>4, <2>5 DEF Subscribe, Request, TypeInv, TypeOK, Calls
<1>2. ASSUME CreateAtGateway(h)
      PROVE  TypeInv'
  <2>1. call[h] \in SubscribeCall
    BY <1>2, SubscribeFacts DEF CreateAtGateway, TypeInv
  <2>2. Growing
    BY <1>2, StandStill DEF CreateAtGateway
  <2>3. CASE End(h) /\ UNCHANGED gw
    <3>1. call' \in [Handlers -> Calls] /\ (\A k \in Handlers : Holds(call[k]))'
      BY <2>2, <2>3, CallEnds
    <3>2. cron' \in CronStates /\ CronHolds'
      BY <1>2, <2>2, CronStands DEF CreateAtGateway
    <3> QED
      BY <1>2, <2>3, <3>1, <3>2 DEF CreateAtGateway, TypeInv, TypeOK, Calls
  <2>4. ASSUME NEW g \in Subs, gw' = [gw EXCEPT ![g] = "created"],
               call' = [call EXCEPT ![h].at = "subscribe.upsert", ![h].gid = g]
        PROVE  TypeInv'
    <3>1. PICK v \in SubscribeCall :
             v = [call[h] EXCEPT !.at = "subscribe.upsert", !.gid = g]
      BY <2>1 DEF SubscribeCall
    <3>2. v.at = "subscribe.upsert" /\ v.gid = g
      BY <2>1, <3>1 DEF SubscribeCall
    <3>3. call' = [call EXCEPT ![h] = v] /\ Holds(v)'
      BY <2>4, <3>1, <3>2, KindsApart DEF Holds
    <3>4. call' \in [Handlers -> Calls] /\ (\A k \in Handlers : Holds(call[k]))'
      BY <2>2, <3>3, CallMoves DEF Calls
    <3>5. cron' \in CronStates /\ CronHolds'
      BY <1>2, <2>2, CronStands DEF CreateAtGateway
    <3> QED
      BY <1>2, <2>4, <3>4, <3>5 DEF CreateAtGateway, TypeInv, TypeOK, Calls
  <2> QED
    BY <1>2, <2>3, <2>4 DEF CreateAtGateway
<1>3. ASSUME Upsert(h)
      PROVE  TypeInv'
  <2>1. call[h] \in SubscribeCall /\ call[h].user \in Users /\ call[h].plan \in Plans
    BY <1>3, SubscribeFacts DEF Upsert, TypeInv
  <2>2. call[h].gid \in Subs
    BY <1>3 DEF Upsert, TypeInv, Holds
  <2>3. NewRow(call[h].gid, call[h].plan) \in Row
    BY <2>1, <2>2 DEF NewRow, Row, Statuses
  <2>4. sub' \in [Users -> Row \cup {Absent}] /\ Known \subseteq Known'
    BY <1>3, <2>1, <2>3, RowWritten DEF Upsert, TypeInv
  <2>5. Growing
    BY <1>3, <2>4 DEF Upsert, Growing
  <2>6. PICK v \in SubscribeCall : v = [call[h] EXCEPT !.at = "subscribe.role"]
    BY <2>1 DEF SubscribeCall
  <2>7. v.at = "subscribe.role"
    BY <2>1, <2>6 DEF SubscribeCall
  <2>8. call' = [call EXCEPT ![h] = v] /\ Holds(v)'
    BY <1>3, <2>6, <2>7, KindsApart DEF Upsert, Goto, Holds
  <2>9. call' \in [Handlers -> Calls] /\ (\A k \in Handlers : Holds(call[k]))'
    BY <2>5, <2>8, CallMoves DEF Calls
  <2>10. cron' \in CronStates /\ CronHolds'
    BY <1>3, <2>5, CronStands DEF Upsert
  <2> QED
    BY <1>3, <2>4, <2>9, <2>10 DEF Upsert, TypeInv, TypeOK, Calls
<1>4. ASSUME BecomeDistributor(h)
      PROVE  TypeInv'
  <2>1. call[h].user \in Users
    BY <1>4, SubscribeFacts DEF BecomeDistributor, TypeInv
  <2>2. Growing
    BY <1>4, StandStill DEF BecomeDistributor
  <2>3. call' \in [Handlers -> Calls] /\ (\A k \in Handlers : Holds(call[k]))'
    BY <1>4, <2>2, CallEnds DEF BecomeDistributor
  <2>4. cron' \in CronStates /\ CronHolds'
    BY <1>4, <2>2, CronStands DEF BecomeDistributor
  <2>5. role' \in [Users -> {"CUSTOMER", "DISTRIBUTOR"}] /\ link' \subseteq Users
    BY <1>4, <2>1 DEF BecomeDistributor, Upgrade, TypeInv, TypeOK
  <2> QED
    BY <1>4, <2>3, <2>4, <2>5 DEF BecomeDistributor, TypeInv, TypeOK, Calls
<1> QED
  BY <1>1, <1>2, <1>3, <1>4

\* The events.
LEMMA HookType ==
    ASSUME TypeInv, NEW h \in Handlers,
           \/ ReadCharged(h) \/ WriteCharged(h) \/ UpgradeRole(h) \/ RecordCharge(h)
           \/ HandleHalted(h) \/ HandleEnded(h)
    PROVE  TypeInv'
<1> USE DEF people, gateway, bounds
<1>1. /\ call[h] \in HookCall /\ call[h].gid \in Subs /\ call[h].users \subseteq Users
      /\ call[h].n \in DOMAIN log[call[h].gid] /\ call[h].n \in Nat
  BY HookFacts DEF ReadCharged, WriteCharged, UpgradeRole, RecordCharge, HandleHalted,
                   HandleEnded
<1>2. call[h].at \in {"hook", "charged.write", "charged.role", "charged.pay"}
  BY <1>1 DEF HookCall
<1>3. ASSUME NEW v \in HookCall, v.gid = call[h].gid, v.n = call[h].n,
             call' = [call EXCEPT ![h] = v], Growing
      PROVE  call' \in [Handlers -> Calls] /\ (\A k \in Handlers : Holds(call[k]))'
  <2>1. v.at \in {"hook", "charged.write", "charged.role", "charged.pay"}
    BY DEF HookCall
  <2>2. Holds(v)'
    BY <1>1, <1>3, <2>1, KindsApart DEF Holds, Growing
  <2> QED
    BY <1>3, <2>2, CallMoves DEF Calls
<1>4. ASSUME ReadCharged(h)
      PROVE  TypeInv'
  <2>1. Growing
    BY <1>4, StandStill DEF ReadCharged, Answer
  <2>2. cron' \in CronStates /\ CronHolds'
    BY <1>4, <2>1, CronStands DEF ReadCharged
  <2>3. CASE Answer(h)
    <3>1. /\ acked' \in [Subs -> SUBSET Nat]
          /\ \A g \in Subs : acked'[g] \subseteq DOMAIN log'[g]
          /\ call' \in [Handlers -> Calls]
          /\ \A k \in Handlers : Holds(call[k])'
      BY <1>2, <2>1, <2>3, AnswerFacts
    <3>2. gw' = gw /\ log' = log
      BY <2>3 DEF Answer
    <3> QED
      BY <1>4, <2>2, <3>1, <3>2 DEF ReadCharged, TypeInv, TypeOK, Calls
  <2>4. CASE ~Answer(h)
    <3> DEFINE w == [call[h] EXCEPT !.at = "charged.write", !.users = OwnersOf(call[h].gid),
                              !.upgrade = (OwnersOf(call[h].gid) \cap suspended = {})]
    <3>1. call' = [call EXCEPT ![h] = w] /\ UNCHANGED gateway
      BY <1>4, <2>4, Zenon DEF ReadCharged
    <3>2. w \in HookCall /\ w.gid = call[h].gid /\ w.n = call[h].n
      <4>1. OwnersOf(call[h].gid) \subseteq Users
        BY DEF OwnersOf
      <4>2. (OwnersOf(call[h].gid) \cap suspended = {}) \in BOOLEAN
        OBVIOUS
      <4> QED
        BY <1>1, <4>1, <4>2 DEF HookCall
    <3> HIDE DEF w
    <3>3. PICK v \in HookCall : v = w
      BY <3>2
    <3>4. call' \in [Handlers -> Calls] /\ (\A k \in Handlers : Holds(call[k]))'
      BY <1>3, <2>1, <3>1, <3>2, <3>3
    <3> QED
      BY <1>4, <2>2, <3>1, <3>4 DEF ReadCharged, TypeInv, TypeOK, Calls
  <2> QED
    BY <2>3, <2>4
<1>5. ASSUME WriteCharged(h)
      PROVE  TypeInv'
  <2>1. sub' \in [Users -> Row \cup {Absent}] /\ Known \subseteq Known'
    BY <1>1, <1>5, RowsWhere DEF WriteCharged, TypeInv
  <2>2. Growing
    BY <1>5, <2>1 DEF WriteCharged, Answer, Growing
  <2>3. cron' \in CronStates /\ CronHolds'
    BY <1>5, <2>2, CronStands DEF WriteCharged
  <2>4. CASE Answer(h)
    <3>1. /\ acked' \in [Subs -> SUBSET Nat]
          /\ \A g \in Subs : acked'[g] \subseteq DOMAIN log'[g]
          /\ call' \in [Handlers -> Calls]
          /\ \A k \in Handlers : Holds(call[k])'
      BY <1>2, <2>2, <2>4, AnswerFacts
    <3>2. gw' = gw /\ log' = log
      BY <2>4 DEF Answer
    <3> QED
      BY <1>5, <2>1, <2>3, <3>1, <3>2 DEF WriteCharged, TypeInv, TypeOK, Calls
  <2>5. CASE Goto(h, "charged.role") /\ UNCHANGED gateway
    <3>1. PICK v \in HookCall : v = [call[h] EXCEPT !.at = "charged.role"]
      BY <1>1 DEF HookCall
    <3>2. v.gid = call[h].gid /\ v.n = call[h].n
      BY <1>1, <3>1 DEF HookCall
    <3>3. call' \in [Handlers -> Calls] /\ (\A k \in Handlers : Holds(call[k]))'
      BY <1>3, <2>2, <2>5, <3>1, <3>2 DEF Goto
    <3> QED
      BY <1>5, <2>1, <2>3, <2>5, <3>3 DEF WriteCharged, TypeInv, TypeOK, Calls
  <2> QED
    BY <1>5, <2>4, <2>5 DEF WriteCharged
<1>6. ASSUME UpgradeRole(h)
      PROVE  TypeInv'
  <2>1. Growing
    BY <1>6, StandStill DEF UpgradeRole
  <2>2. cron' \in CronStates /\ CronHolds'
    BY <1>6, <2>1, CronStands DEF UpgradeRole
  <2>3. PICK v \in HookCall : v = [call[h] EXCEPT !.at = "charged.pay"]
    BY <1>1 DEF HookCall
  <2>4. v.gid = call[h].gid /\ v.n = call[h].n
    BY <1>1, <2>3 DEF HookCall
  <2>5. call' \in [Handlers -> Calls] /\ (\A k \in Handlers : Holds(call[k]))'
    BY <1>3, <1>6, <2>1, <2>3, <2>4 DEF Goto, UpgradeRole
  <2>6. role' \in [Users -> {"CUSTOMER", "DISTRIBUTOR"}] /\ link' \subseteq Users
    BY <1>1, <1>6 DEF UpgradeRole, Upgrade, TypeInv, TypeOK
  <2> QED
    BY <1>6, <2>2, <2>5, <2>6 DEF UpgradeRole, TypeInv, TypeOK, Calls
<1>7. ASSUME RecordCharge(h)
      PROVE  TypeInv'
  <2>1. Answer(h) /\ UNCHANGED <<sub, log, gw, cron>>
    BY <1>7 DEF RecordCharge, Answer
  <2>2. Growing
    BY <2>1, StandStill
  <2>3. cron' \in CronStates /\ CronHolds'
    BY <2>1, <2>2, CronStands
  <2>4. /\ acked' \in [Subs -> SUBSET Nat]
        /\ \A g \in Subs : acked'[g] \subseteq DOMAIN log'[g]
        /\ call' \in [Handlers -> Calls]
        /\ \A k \in Handlers : Holds(call[k])'
    BY <1>2, <2>1, <2>2, AnswerFacts
  <2>5. recorded' \subseteq Subs \X Nat
    BY <1>1, <1>7 DEF RecordCharge, TypeInv, TypeOK
  <2> QED
    BY <1>7, <2>1, <2>3, <2>4, <2>5 DEF RecordCharge, TypeInv, TypeOK, Calls
<1>8. ASSUME HandleHalted(h) \/ HandleEnded(h)
      PROVE  TypeInv'
  <2>1. /\ Answer(h)
        /\ UpdateWhere(call[h].gid, Halted) \/ UpdateWhere(call[h].gid, CancelledByGateway)
        /\ UNCHANGED <<log, gw, role, link, suspended, leads, recorded, active, cron,
                       requests, crashes>>
    BY <1>8 DEF HandleHalted, HandleEnded, Answer
  <2>2. sub' \in [Users -> Row \cup {Absent}] /\ Known \subseteq Known'
    BY <1>1, <2>1, RowsWhere DEF TypeInv
  <2>3. Growing
    BY <2>1, <2>2 DEF Growing
  <2>4. cron' \in CronStates /\ CronHolds'
    BY <2>1, <2>3, CronStands
  <2>5. /\ acked' \in [Subs -> SUBSET Nat]
        /\ \A g \in Subs : acked'[g] \subseteq DOMAIN log'[g]
        /\ call' \in [Handlers -> Calls]
        /\ \A k \in Handlers : Holds(call[k])'
    BY <1>2, <2>1, <2>3, AnswerFacts
  <2> QED
    BY <2>1, <2>2, <2>4, <2>5 DEF TypeInv, TypeOK, Calls
<1> QED
  BY <1>4, <1>5, <1>6, <1>7, <1>8

\* Cancelling, and plans.
LEMMA CancelType ==
    ASSUME TypeInv, NEW h \in Handlers,
           \/ \E u \in Users : \/ CancelSubscription(h, u) \/ SelfCancel(h, u)
                               \/ SuspendUser(h, u) \/ UpdateUserRole(h, u)
           \/ StopAtGateway(h) \/ Refused(h) \/ WriteCancelled(h) \/ LeaveRole(h)
           \/ Suspend(h) \/ SetRole(h) \/ HandOver(h)
    PROVE  TypeInv'
<1> USE DEF people, gateway, bounds
<1>1. ASSUME NEW u \in Users,
             \/ CancelSubscription(h, u) \/ SelfCancel(h, u)
             \/ SuspendUser(h, u) \/ UpdateUserRole(h, u)
      PROVE  TypeInv'
  <2>1. sub[u].status \in {"ACTIVE", "HALTED"} => u \in Known
    BY RowFacts DEF TypeInv, Statuses
  <2>2. CASE CancelSubscription(h, u)
    BY <2>2, BeginType DEF CancelSubscription, Known
  <2>3. CASE SelfCancel(h, u)
    BY <2>1, <2>3, BeginType DEF SelfCancel
  <2>4. CASE SuspendUser(h, u)
    <3>1. (role[u] = "DISTRIBUTOR") \in BOOLEAN
      OBVIOUS
    <3> QED
      BY <2>1, <2>4, <3>1, BeginType DEF SuspendUser, Chargeable
  <2>5. CASE UpdateUserRole(h, u)
    BY <2>1, <2>5, BeginType DEF UpdateUserRole, Chargeable
  <2> QED
    BY <1>1, <2>2, <2>3, <2>4, <2>5
<1>2. ASSUME NEW where \in {"cancel.write", "cancel.user", "cancel.suspend", "cancel.role",
                            "cancel.leads"},
             call[h] \in CancelCall, where = "cancel.write" => call[h].user \in Known',
             Goto(h, where), Growing
      PROVE  call' \in [Handlers -> Calls] /\ (\A k \in Handlers : Holds(call[k]))'
  <2>1. PICK v \in CancelCall : v = [call[h] EXCEPT !.at = where]
    BY <1>2 DEF CancelCall
  <2>2. v.at = where /\ v.user = call[h].user
    BY <1>2, <2>1 DEF CancelCall
  <2>3. Holds(v)'
    BY <1>2, <2>2, KindsApart DEF Holds
  <2> QED
    BY <1>2, <2>1, <2>3, CallMoves DEF Goto, Calls
<1>3. ASSUME StopAtGateway(h)
      PROVE  TypeInv'
  <2> DEFINE atCycleEnd == call[h].why = "self"
  <2>1. call[h] \in CancelCall
    BY <1>3, CancelFacts DEF StopAtGateway, TypeInv
  <2>2. call[h].gid \in Subs /\ call[h].user \in Known
    BY <1>3 DEF StopAtGateway, TypeInv, Holds
  <2>3. CanStop(call[h].gid, atCycleEnd) /\ Stop(call[h].gid, atCycleEnd)
    BY <1>3 DEF StopAtGateway
  <2>4. /\ gw' \in [Subs -> {"none", "created", "live", "halted", "ending", "ended"}]
        /\ log' \in [Subs -> Seq(Events)]
        /\ \A k \in Subs : DOMAIN log[k] \subseteq DOMAIN log'[k]
    <3>1. atCycleEnd \in BOOLEAN
      OBVIOUS
    <3> HIDE DEF atCycleEnd
    <3> QED
      BY <2>2, <2>3, <3>1, StopFacts DEF TypeInv
  <2>5. UNCHANGED <<sub, role, link, suspended, leads, recorded, active, acked, cron,
                    requests, crashes>>
    BY <1>3 DEF StopAtGateway
  <2>6. Growing
    BY <2>4, <2>5 DEF Growing, Known
  <2>7. call' \in [Handlers -> Calls] /\ (\A k \in Handlers : Holds(call[k]))'
    <3>1. CASE Goto(h, "cancel.write")
      BY <1>2, <2>1, <2>2, <2>6, <3>1 DEF Growing
    <3>2. CASE End(h)
      BY <2>6, <3>2, CallEnds
    <3> QED
      BY <1>3, <3>1, <3>2 DEF StopAtGateway
  <2>8. cron' \in CronStates /\ CronHolds'
    BY <2>5, <2>6, CronStands
  <2>9. \A k \in Subs : acked'[k] \subseteq DOMAIN log'[k]
    BY <2>4, <2>5 DEF TypeInv, TypeOK
  <2> HIDE DEF atCycleEnd
  <2> QED
    BY <2>4, <2>5, <2>7, <2>8, <2>9 DEF TypeInv, TypeOK, Calls
<1>4. ASSUME Refused(h)
      PROVE  TypeInv'
  <2>1. Growing
    BY <1>4, StandStill DEF Refused
  <2>2. call' \in [Handlers -> Calls] /\ (\A k \in Handlers : Holds(call[k]))'
    BY <1>4, <2>1, CallEnds DEF Refused
  <2>3. cron' \in CronStates /\ CronHolds'
    BY <1>4, <2>1, CronStands DEF Refused
  <2> QED
    BY <1>4, <2>2, <2>3 DEF Refused, TypeInv, TypeOK, Calls
<1>5. ASSUME WriteCancelled(h)
      PROVE  TypeInv'
  <2>1. call[h] \in CancelCall /\ call[h].user \in Known /\ call[h].user \in Users
    BY <1>5, CancelFacts DEF WriteCancelled, TypeInv, Holds
  <2>2. sub[call[h].user] \in Row
    BY <2>1, RowFacts DEF TypeInv
  <2>3. sub' \in [Users -> Row \cup {Absent}] /\ Known \subseteq Known'
    BY <1>5, <2>1, <2>2, RowUpdates, RowWritten DEF WriteCancelled, SetStatus, TypeInv
  <2>4. Growing
    BY <1>5, <2>3 DEF WriteCancelled, Growing
  <2>5. call' \in [Handlers -> Calls] /\ (\A k \in Handlers : Holds(call[k]))'
    BY <1>2, <1>5, <2>1, <2>4, CallEnds DEF WriteCancelled
  <2>6. cron' \in CronStates /\ CronHolds'
    BY <1>5, <2>4, CronStands DEF WriteCancelled
  <2> QED
    BY <1>5, <2>3, <2>5, <2>6 DEF WriteCancelled, TypeInv, TypeOK, Calls
<1>6. ASSUME LeaveRole(h) \/ Suspend(h) \/ SetRole(h) \/ HandOver(h)
      PROVE  TypeInv'
  <2>1. call[h] \in CancelCall /\ call[h].user \in Users
    BY <1>6, CancelFacts DEF LeaveRole, Suspend, SetRole, HandOver, TypeInv
  <2>2. UNCHANGED <<sub, recorded, active, gw, log, acked, cron, requests, crashes>>
    BY <1>6 DEF LeaveRole, Suspend, SetRole, HandOver
  <2>3. Growing
    BY <2>2, StandStill
  <2>4. /\ role' \in [Users -> {"CUSTOMER", "DISTRIBUTOR"}]
        /\ link' \subseteq Users /\ suspended' \subseteq Users /\ leads' \subseteq Users \X LeadStages
    BY <1>6, <2>1 DEF LeaveRole, Suspend, SetRole, HandOver, HandedOver, Downgrade, TypeInv, TypeOK
  <2>5. End(h) \/ \E where \in {"cancel.suspend", "cancel.role", "cancel.leads"} : Goto(h, where)
    BY <1>6 DEF LeaveRole, Suspend, SetRole, HandOver
  <2>6. call' \in [Handlers -> Calls] /\ (\A k \in Handlers : Holds(call[k]))'
    BY <1>2, <2>1, <2>3, <2>5, CallEnds
  <2>7. cron' \in CronStates /\ CronHolds'
    BY <2>2, <2>3, CronStands
  <2> QED
    BY <2>2, <2>4, <2>6, <2>7 DEF TypeInv, TypeOK, Calls
<1> QED
  BY <1>1, <1>3, <1>4, <1>5, <1>6

LEMMA PlanType ==
    ASSUME TypeInv, NEW h \in Handlers,
           \/ \E plan \in Plans : DeactivatePlan(h, plan)
           \/ ReadSubscribers(h) \/ FlagSubscriber(h)
    PROVE  TypeInv'
<1> USE DEF people, gateway, bounds
<1>1. ASSUME NEW v \in PlanCall, v.todo \subseteq Known', call' = [call EXCEPT ![h] = v],
             Growing
      PROVE  call' \in [Handlers -> Calls] /\ (\A k \in Handlers : Holds(call[k]))'
  <2>1. v.at \in {"plan.read", "plan.flag"}
    BY DEF PlanCall
  <2>2. Holds(v)'
    BY <1>1, <2>1, KindsApart DEF Holds
  <2> QED
    BY <1>1, <2>2, CallMoves DEF Calls
<1>2. ASSUME NEW plan \in Plans, DeactivatePlan(h, plan)
      PROVE  TypeInv'
  <2>1. PICK v \in PlanCall : v = [at |-> "plan.read", plan |-> plan, todo |-> {}]
    BY DEF PlanCall
  <2>2. Growing
    BY <1>2, StandStill DEF DeactivatePlan
  <2>3. call' \in [Handlers -> Calls] /\ (\A k \in Handlers : Holds(call[k]))'
    BY <1>1, <1>2, <2>1, <2>2 DEF DeactivatePlan
  <2>4. cron' \in CronStates /\ CronHolds'
    BY <1>2, <2>2, CronStands DEF DeactivatePlan
  <2>5. /\ UNCHANGED <<sub, role, link, suspended, leads, recorded, gw, log, acked, crashes>>
        /\ active' \subseteq active /\ requests' = requests + 1
    BY <1>2 DEF DeactivatePlan, Request
  <2> QED
    BY <2>3, <2>4, <2>5 DEF TypeInv, TypeOK, Calls
<1>3. ASSUME ReadSubscribers(h)
      PROVE  TypeInv'
  <2> DEFINE T == {u \in Users : sub[u].status = "ACTIVE" /\ sub[u].plan = call[h].plan}
  <2>1. call[h] \in PlanCall
    BY <1>3, PlanFacts DEF ReadSubscribers, TypeInv
  <2>2. T \subseteq Known
    BY RowFacts DEF TypeInv, Statuses
  <2>3. Growing
    BY <1>3, StandStill DEF ReadSubscribers
  <2>4. call' = [call EXCEPT ![h] = [call[h] EXCEPT !.at = "plan.flag", !.todo = T]]
    BY <1>3 DEF ReadSubscribers
  <2>5. T \subseteq Users
    OBVIOUS
  <2> HIDE DEF T
  <2>6. PICK v \in PlanCall : v = [call[h] EXCEPT !.at = "plan.flag", !.todo = T]
    BY <2>1, <2>5 DEF PlanCall
  <2>7. v.todo = T
    BY <2>1, <2>6 DEF PlanCall
  <2>8. call' \in [Handlers -> Calls] /\ (\A k \in Handlers : Holds(call[k]))'
    BY <1>1, <2>2, <2>3, <2>4, <2>6, <2>7 DEF Growing
  <2>9. cron' \in CronStates /\ CronHolds'
    BY <1>3, <2>3, CronStands DEF ReadSubscribers
  <2> QED
    BY <1>3, <2>8, <2>9 DEF ReadSubscribers, TypeInv, TypeOK, Calls
<1>4. ASSUME FlagSubscriber(h)
      PROVE  TypeInv'
  <2>1. call[h] \in PlanCall
    BY <1>4, PlanFacts DEF FlagSubscriber, TypeInv
  <2>2. call[h].todo \subseteq Known
    BY <2>1 DEF TypeInv, Holds
  <2>3. UNCHANGED <<role, link, suspended, leads, recorded, active, gw, log, acked, cron,
                    requests, crashes>>
    BY <1>4 DEF FlagSubscriber
  <2>4. CASE End(h) /\ UNCHANGED sub
    <3>1. Growing
      BY <2>3, <2>4, StandStill
    <3>2. call' \in [Handlers -> Calls] /\ (\A k \in Handlers : Holds(call[k]))'
      BY <2>4, <3>1, CallEnds
    <3>3. cron' \in CronStates /\ CronHolds'
      BY <2>3, <3>1, CronStands
    <3> QED
      BY <2>3, <2>4, <3>2, <3>3 DEF TypeInv, TypeOK, Calls
  <2>5. ASSUME NEW u \in call[h].todo, sub' = [sub EXCEPT ![u].migrating = TRUE],
               call' = [call EXCEPT ![h].todo = @ \ {u}]
        PROVE  TypeInv'
    <3>1. u \in Users /\ sub[u] \in Row
      BY <2>2, RowFacts DEF TypeInv, Known
    <3>2. sub' \in [Users -> Row \cup {Absent}] /\ Known \subseteq Known'
      BY <2>5, <3>1, RowUpdates, RowWritten DEF TypeInv
    <3>3. Growing
      BY <2>3, <3>2 DEF Growing
    <3>4. PICK v \in PlanCall : v = [call[h] EXCEPT !.todo = @ \ {u}]
      BY <2>1 DEF PlanCall
    <3>5. v.todo \subseteq call[h].todo
      BY <2>1, <3>4 DEF PlanCall
    <3>6. call' \in [Handlers -> Calls] /\ (\A k \in Handlers : Holds(call[k]))'
      BY <1>1, <2>2, <2>5, <3>2, <3>3, <3>4, <3>5
    <3>7. cron' \in CronStates /\ CronHolds'
      BY <2>3, <3>3, CronStands
    <3> QED
      BY <2>3, <3>2, <3>6, <3>7 DEF TypeInv, TypeOK, Calls
  <2> QED
    BY <1>4, <2>4, <2>5 DEF FlagSubscriber
<1> QED
  BY <1>2, <1>3, <1>4

\* The nightly job.
LEMMA CronType ==
    ASSUME TypeInv, RunCron
    PROVE  TypeInv'
<1> USE DEF people, gateway, bounds
<1>0. cron.todo \subseteq Known \X Subs
  BY DEF TypeInv, TypeOK, CronStates, CronHolds
<1>1. cron.at \in {"expire.user", "expire.leads", "migrate.write"} =>
         /\ cron.now \in Known \X Subs
         /\ cron.now[1] \in Users /\ sub[cron.now[1]] \in Row
  BY RowFacts DEF TypeInv, CronHolds, Known
<1>2. ASSUME CronExpire
      PROVE  TypeInv'
  <2>1. PICK row \in cron.todo : SetStatus(row[1], "EXPIRED") /\ Treat(row, "expire.user")
    BY <1>2 DEF CronExpire
  <2>2. row \in Known \X Subs /\ row[1] \in Users /\ sub[row[1]] \in Row
    BY <1>0, RowFacts DEF TypeInv, Known
  <2>3. sub' \in [Users -> Row \cup {Absent}] /\ Known \subseteq Known'
    BY <2>1, <2>2, RowUpdates, RowWritten DEF SetStatus, TypeInv
  <2>4. Growing
    BY <1>2, <2>3 DEF CronExpire, Growing
  <2>5. call' \in [Handlers -> Calls] /\ (\A k \in Handlers : Holds(call[k]))'
    BY <1>2, <2>4, CallsStand DEF CronExpire
  <2>6. cron' \in CronStates /\ CronHolds'
    BY <2>1, <2>2, <2>4, CronMoves
  <2> QED
    BY <1>2, <2>3, <2>5, <2>6 DEF CronExpire, TypeInv, TypeOK, Calls
<1>3. ASSUME CronDowngrade \/ CronHandOver
      PROVE  TypeInv'
  <2>1. UNCHANGED <<sub, suspended, recorded, active, gw, log, acked, call, requests, crashes>>
    BY <1>3 DEF CronDowngrade, CronHandOver
  <2>2. Growing
    BY <2>1, StandStill
  <2>3. call' \in [Handlers -> Calls] /\ (\A k \in Handlers : Holds(call[k]))'
    BY <2>1, <2>2, CallsStand
  <2>4. cron' \in CronStates /\ CronHolds'
    BY <1>1, <1>3, <2>2, CronMoves DEF CronDowngrade, CronHandOver
  <2>5. /\ role' \in [Users -> {"CUSTOMER", "DISTRIBUTOR"}]
        /\ link' \subseteq Users /\ leads' \subseteq Users \X LeadStages
    BY <1>3 DEF CronDowngrade, CronHandOver, HandedOver, Downgrade, TypeInv, TypeOK
  <2> QED
    BY <2>1, <2>3, <2>4, <2>5 DEF TypeInv, TypeOK, Calls
<1>4. ASSUME CronStop
      PROVE  TypeInv'
  <2>1. PICK row \in cron.todo :
           \/ /\ CanStop(row[2], FALSE) /\ Stop(row[2], FALSE)
              /\ Treat(row, "migrate.write") \/ Done(row, "migrate")
           \/ Done(row, "migrate") /\ UNCHANGED <<gw, log>>
    BY <1>4 DEF CronStop
  <2>2. row \in Known \X Subs
    BY <1>0
  <2>3. /\ gw' \in [Subs -> {"none", "created", "live", "halted", "ending", "ended"}]
        /\ log' \in [Subs -> Seq(Events)]
        /\ \A k \in Subs : DOMAIN log[k] \subseteq DOMAIN log'[k]
    <3>1. CASE UNCHANGED <<gw, log>>
      BY <3>1 DEF TypeInv, TypeOK
    <3>2. CASE CanStop(row[2], FALSE) /\ Stop(row[2], FALSE)
      BY <2>2, <3>2, StopFacts DEF TypeInv
    <3> QED
      BY <2>1, <3>1, <3>2
  <2>4. UNCHANGED <<sub, role, link, suspended, leads, recorded, active, acked, call,
                    requests, crashes>>
    BY <1>4 DEF CronStop
  <2>5. Growing
    BY <2>3, <2>4 DEF Growing, Known
  <2>6. call' \in [Handlers -> Calls] /\ (\A k \in Handlers : Holds(call[k]))'
    BY <2>4, <2>5, CallsStand
  <2>7. cron' \in CronStates /\ CronHolds'
    BY <2>1, <2>2, <2>5, CronMoves
  <2>8. \A k \in Subs : acked'[k] \subseteq DOMAIN log'[k]
    BY <2>3, <2>4 DEF TypeInv, TypeOK
  <2> QED
    BY <2>3, <2>4, <2>6, <2>7, <2>8 DEF TypeInv, TypeOK, Calls
<1>5. ASSUME CronCancel
      PROVE  TypeInv'
  <2>1. /\ cron.now \in Known \X Subs
        /\ cron.now[1] \in Users /\ sub[cron.now[1]] \in Row
    BY <1>1, <1>5 DEF CronCancel
  <2>2. sub' \in [Users -> Row \cup {Absent}] /\ Known \subseteq Known'
    <3>1. PICK r \in Row : r = [sub[cron.now[1]] EXCEPT !.status = "CANCELLED",
                               !.grace = "running", !.migrating = FALSE]
      BY <2>1, RowUpdates
    <3>2. sub' = [sub EXCEPT ![cron.now[1]] = r]
      BY <1>5, <2>1, <3>1 DEF CronCancel, TypeInv, TypeOK
    <3> QED
      BY <2>1, <3>2, RowWritten DEF TypeInv
  <2>3. Growing
    BY <1>5, <2>2 DEF CronCancel, Growing
  <2>4. call' \in [Handlers -> Calls] /\ (\A k \in Handlers : Holds(call[k]))'
    BY <1>5, <2>3, CallsStand DEF CronCancel
  <2>5. cron' \in CronStates /\ CronHolds'
    BY <1>5, <2>1, <2>3, CronMoves DEF CronCancel
  <2> QED
    BY <1>5, <2>2, <2>4, <2>5 DEF CronCancel, TypeInv, TypeOK, Calls
<1>6. ASSUME CronClear
      PROVE  TypeInv'
  <2>1. PICK row \in cron.todo : /\ sub' = [sub EXCEPT ![row[1]].migrating = FALSE]
                                 /\ Done(row, "overlap")
    BY <1>6 DEF CronClear
  <2>2. row \in Known \X Subs /\ row[1] \in Users /\ sub[row[1]] \in Row
    BY <1>0, RowFacts DEF TypeInv, Known
  <2>3. sub' \in [Users -> Row \cup {Absent}] /\ Known \subseteq Known'
    BY <2>1, <2>2, RowUpdates, RowWritten DEF TypeInv
  <2>4. Growing
    BY <1>6, <2>3 DEF CronClear, Growing
  <2>5. call' \in [Handlers -> Calls] /\ (\A k \in Handlers : Holds(call[k]))'
    BY <1>6, <2>4, CallsStand DEF CronClear
  <2>6. cron' \in CronStates /\ CronHolds'
    BY <2>1, <2>2, <2>4, CronMoves
  <2> QED
    BY <1>6, <2>3, <2>5, <2>6 DEF CronClear, TypeInv, TypeOK, Calls
<1> QED
  BY <1>2, <1>3, <1>4, <1>5, <1>6 DEF RunCron

LEMMA TypeStep == TypeInv /\ [Next]_vars => TypeInv'
<1> SUFFICES ASSUME TypeInv, [Next]_vars
             PROVE  TypeInv'
  OBVIOUS
<1>1. CASE UNCHANGED vars
  <2>1. Growing /\ call' = call /\ cron' = cron
    BY <1>1, StandStill DEF vars, gateway
  <2>2. /\ call' \in [Handlers -> Calls] /\ (\A k \in Handlers : Holds(call[k]))'
        /\ cron' \in CronStates /\ CronHolds'
    BY <2>1, CallsStand, CronStands
  <2> QED
    BY <1>1, <2>2 DEF vars, people, gateway, bounds, TypeInv, TypeOK
<1>2. CASE Next
  BY <1>2, WorldType, SubscribeType, HookType, CancelType, PlanType, CronType
     DEF Next, Continue
<1> QED
  BY <1>1, <1>2

LEMMA TypeInit == Init => TypeInv
<1> SUFFICES ASSUME Init
             PROVE  TypeInv
  OBVIOUS
<1>1. Holds(Idle) /\ CronHolds
  BY KindsApart DEF Init, Holds, Idle, CronHolds, Asleep
<1>2. Asleep \in CronStates
  BY DEF Asleep, CronStates
<1> QED
  BY <1>1, <1>2 DEF Init, TypeInv, TypeOK

\* Every row, book, handler and job keeps its shape, for any number of users,
\* subscriptions, plans and handlers, and events in any order.
THEOREM TypeCorrect == Spec => []TypeOK
<1>1. TypeInv => TypeOK
  BY DEF TypeInv
<1> QED
  BY TypeInit, TypeStep, <1>1, PTL DEF Spec

----------------------------------------------------------------------------
(* What a step does to a row, and which handler does it *)

\* h alone acts.
Acts(h) == \A j \in Handlers \ {h} : call'[j] = call[j]

\* subscribe puts a new row in the place of u's.
Replaced(u) ==
    \E h \in Handlers :
        /\ Acts(h) /\ call[h].at = "subscribe.upsert"
        /\ sub'[u] = NewRow(call[h].gid, call[h].plan)

\* An event writes to u's row.
WrittenByEvent(u) ==
    \E h \in Handlers :
        /\ Acts(h) /\ call[h].gid = sub[u].gid
        /\ \/ call[h].at = "charged.write" /\ sub'[u] = Renewed(sub[u])
           \/ call[h].at = "hook" /\ Event(h) = "halted" /\ sub'[u] = Halted(sub[u])
           \/ /\ call[h].at = "hook" /\ Event(h) = "ended"
              /\ sub'[u] = CancelledByGateway(sub[u])

\* A request to cancel writes to u's row.
WrittenByRequest(u) ==
    \E h \in Handlers :
        /\ Acts(h) /\ call[h].at = "cancel.write" /\ call[h].user = u
        /\ sub'[u] = [sub[u] EXCEPT !.status = "CANCELLED"]

\* Time, a plan or the job touches u's row.
Touched(u) ==
    /\ \A j \in Handlers : call'[j] = call[j] \/ call[j].at = "plan.flag"
    /\ sub'[u].status = sub[u].status \/ sub'[u].status = "EXPIRED"
    /\ sub'[u].grace = sub[u].grace \/ (sub[u].grace = "running" /\ sub'[u].grace = "over")

\* The job cancels u's row.
WrittenByJob(u) ==
    /\ call' = call
    /\ cron.at = "migrate.write" /\ cron.now[1] = u
    /\ sub'[u] = [sub[u] EXCEPT !.status = "CANCELLED", !.grace = "running",
                                !.migrating = FALSE]

\* Every write of the program to a row is one of these.
LEMMA RowChanges ==
    ASSUME TypeInv, [Next]_vars, NEW u \in Users, sub'[u] # sub[u]
    PROVE  /\ u \in Known \/ Replaced(u)
           /\ \/ Replaced(u) \/ WrittenByEvent(u) \/ WrittenByRequest(u)
              \/ Touched(u) \/ WrittenByJob(u)
<1> USE DEF gateway
<1>0. sub \in [Users -> Row \cup {Absent}] /\ call \in [Handlers -> Calls]
  BY DEF TypeInv, TypeOK, Calls
<1>1. ASSUME NEW h \in Handlers, Upsert(h)
      PROVE  Replaced(u)
  BY <1>0, <1>1 DEF Upsert, Goto, Replaced, Acts
<1>2. ASSUME NEW h \in Handlers, WriteCharged(h) \/ HandleHalted(h) \/ HandleEnded(h)
      PROVE  u \in Known /\ WrittenByEvent(u)
  <2>1. call[h].gid \in Subs
    BY <1>2, HookFacts DEF WriteCharged, HandleHalted, HandleEnded
  <2>2. sub[u].gid = call[h].gid
    BY <1>2 DEF WriteCharged, HandleHalted, HandleEnded, UpdateWhere
  <2>3. u \in Known
    BY <2>1, <2>2, RowFacts DEF TypeInv
  <2>4. Acts(h)
    BY <1>0, <1>2 DEF WriteCharged, HandleHalted, HandleEnded, Answer, End, Goto, Acts
  <2> QED
    BY <1>2, <2>2, <2>3, <2>4
       DEF WriteCharged, HandleHalted, HandleEnded, UpdateWhere, WrittenByEvent
<1>3. ASSUME NEW h \in Handlers, WriteCancelled(h)
      PROVE  u \in Known /\ WrittenByRequest(u)
  <2>1. call[h].user = u
    BY <1>0, <1>3 DEF WriteCancelled, SetStatus
  <2>2. Acts(h)
    BY <1>0, <1>3 DEF WriteCancelled, End, Goto, Acts
  <2>3. u \in Known
    BY <1>3, <2>1 DEF WriteCancelled, TypeInv, Holds
  <2> QED
    BY <1>0, <1>3, <2>1, <2>2, <2>3 DEF WriteCancelled, SetStatus, WrittenByRequest
<1>4. ASSUME NEW h \in Handlers, FlagSubscriber(h)
      PROVE  u \in Known /\ Touched(u)
  <2>1. call[h] \in PlanCall /\ call[h].todo \subseteq Known
    BY <1>4, PlanFacts DEF FlagSubscriber, TypeInv, Holds
  <2>2. PICK v \in call[h].todo : /\ sub' = [sub EXCEPT ![v].migrating = TRUE]
                                  /\ call' = [call EXCEPT ![h].todo = @ \ {v}]
    BY <1>4 DEF FlagSubscriber
  <2>3. v = u /\ u \in Known /\ sub[u] \in Row
    BY <1>0, <2>1, <2>2, RowFacts DEF TypeInv
  <2>4. sub'[u] = [sub[u] EXCEPT !.migrating = TRUE]
    BY <1>0, <2>2, <2>3
  <2>5. call[h].at = "plan.flag" /\ \A j \in Handlers \ {h} : call'[j] = call[j]
    BY <1>0, <1>4, <2>2 DEF FlagSubscriber
  <2> QED
    BY <2>3, <2>4, <2>5 DEF Touched, Row
<1>5. ASSUME NEW v \in Users, PeriodEnds(v) \/ GraceEnds(v)
      PROVE  u \in Known /\ Touched(u)
  <2>1. v = u
    BY <1>0, <1>5 DEF PeriodEnds, GraceEnds
  <2>2. u \in Known /\ sub[u] \in Row
    BY <1>5, <2>1, RowFacts DEF PeriodEnds, GraceEnds, Known, TypeInv
  <2>3. \/ sub'[u] = [sub[u] EXCEPT !.period = "over"]
        \/ sub[u].grace = "running" /\ sub'[u] = [sub[u] EXCEPT !.grace = "over"]
    BY <1>0, <1>5, <2>1 DEF PeriodEnds, GraceEnds
  <2>4. call' = call
    BY <1>5 DEF PeriodEnds, GraceEnds
  <2> QED
    BY <2>2, <2>3, <2>4 DEF Touched, Row
<1>6. ASSUME CronExpire \/ CronClear
      PROVE  u \in Known /\ Touched(u)
  <2>1. PICK row \in cron.todo : \/ sub' = [sub EXCEPT ![row[1]].status = "EXPIRED"]
                                 \/ sub' = [sub EXCEPT ![row[1]].migrating = FALSE]
    BY <1>6 DEF CronExpire, CronClear, SetStatus
  <2>2. row[1] = u
    BY <1>0, <2>1
  <2>3. u \in Known /\ sub[u] \in Row
    BY <2>2, RowFacts DEF TypeInv, CronHolds
  <2>4. \/ sub'[u] = [sub[u] EXCEPT !.status = "EXPIRED"]
        \/ sub'[u] = [sub[u] EXCEPT !.migrating = FALSE]
    BY <1>0, <2>1, <2>2
  <2>5. call' = call
    BY <1>6 DEF CronExpire, CronClear
  <2> QED
    BY <2>3, <2>4, <2>5 DEF Touched, Row
<1>7. ASSUME CronCancel
      PROVE  u \in Known /\ WrittenByJob(u)
  <2>1. cron.now \in Known \X Subs
    BY <1>7 DEF CronCancel, TypeInv, CronHolds
  <2>2. cron.now[1] = u
    BY <1>0, <1>7 DEF CronCancel
  <2> QED
    BY <1>0, <1>7, <2>1, <2>2 DEF CronCancel, WrittenByJob
<1>8. \/ \E h \in Handlers : \/ Upsert(h) \/ WriteCharged(h) \/ HandleHalted(h) \/ HandleEnded(h)
                             \/ WriteCancelled(h) \/ FlagSubscriber(h)
      \/ \E v \in Users : PeriodEnds(v) \/ GraceEnds(v)
      \/ CronExpire \/ CronClear \/ CronCancel
  <2>1. CASE UNCHANGED vars
    BY <2>1 DEF vars
  <2>2. CASE \E h \in Handlers :
                \/ \E v \in Users, plan \in Plans : Subscribe(h, v, plan)
                \/ \E v \in Users :
                      \/ CancelSubscription(h, v) \/ SelfCancel(h, v)
                      \/ SuspendUser(h, v) \/ UpdateUserRole(h, v)
                \/ \E plan \in Plans : DeactivatePlan(h, plan)
                \/ \E g \in Subs : \E n \in DOMAIN log[g] : Deliver(h, g, n)
    BY <2>2 DEF Subscribe, CancelSubscription, SelfCancel, SuspendUser, UpdateUserRole, Begin,
                DeactivatePlan, Deliver
  <2>3. ASSUME NEW h \in Handlers, Continue(h)
        PROVE  \/ Upsert(h) \/ WriteCharged(h) \/ HandleHalted(h) \/ HandleEnded(h)
               \/ WriteCancelled(h) \/ FlagSubscriber(h)
    BY <2>3 DEF Continue, CreateAtGateway, BecomeDistributor, ReadCharged, UpgradeRole,
                RecordCharge, StopAtGateway, Refused, LeaveRole, Suspend, SetRole, HandOver,
                ReadSubscribers
  <2>4. CASE \/ \E v \in Users : VisitorComes(v) \/ LeadArrives(v) \/ Reactivate(v)
             \/ \E g \in Subs : Charge(g) \/ Halt(g) \/ Complete(g)
             \/ \E plan \in Plans : ActivatePlan(plan)
             \/ CronStart \/ Crash
    BY <2>4 DEF VisitorComes, LeadArrives, Reactivate, Charge, Halt, Complete, ActivatePlan, CronStart,
                StartPart, Crash
  <2>5. CASE CronDowngrade \/ CronHandOver \/ CronStop
    BY <2>5 DEF CronDowngrade, CronHandOver, CronStop
  <2> QED
    BY <2>1, <2>2, <2>3, <2>4, <2>5 DEF Next, RunCron
<1> QED
  BY <1>1, <1>2, <1>3, <1>4, <1>5, <1>6, <1>7, <1>8

----------------------------------------------------------------------------
(* Deadlines *)

LEMMA DeadlineStep ==
    TypeInv /\ DeadlineMatchesStatus /\ [Next]_vars => DeadlineMatchesStatus'
<1> SUFFICES ASSUME TypeInv, DeadlineMatchesStatus, [Next]_vars, NEW u \in Users
             PROVE  /\ sub'[u].status = "HALTED" => sub'[u].grace # "none"
                    /\ sub'[u].status = "ACTIVE" => sub'[u].grace = "none"
  BY DEF DeadlineMatchesStatus
<1>0. /\ sub[u].status = "HALTED" => sub[u].grace # "none"
      /\ sub[u].status = "ACTIVE" => sub[u].grace = "none"
  BY DEF DeadlineMatchesStatus
<1>1. CASE sub'[u] = sub[u]
  BY <1>0, <1>1
<1>2. CASE Replaced(u)
  BY <1>2 DEF Replaced, NewRow
<1>3. CASE sub'[u] # sub[u] /\ ~Replaced(u)
  <2>1. sub[u] \in Row
    BY <1>3, RowChanges, RowFacts DEF TypeInv
  <2>2. CASE WrittenByEvent(u)
    BY <2>1, <2>2 DEF WrittenByEvent, Renewed, Halted, CancelledByGateway, Row
  <2>3. CASE WrittenByRequest(u)
    BY <2>1, <2>3 DEF WrittenByRequest, Row
  <2>4. CASE Touched(u)
    BY <1>0, <2>4 DEF Touched
  <2>5. CASE WrittenByJob(u)
    BY <2>1, <2>5 DEF WrittenByJob, Row
  <2> QED
    BY <1>3, <2>2, <2>3, <2>4, <2>5, RowChanges
<1> QED
  BY <1>1, <1>2, <1>3

\* A halted subscription always has a deadline, and an active one never has one
\* left, for any number of users and handlers and events in any order: the job
\* that expires by deadline misses no halted row and hits no active one.
THEOREM DeadlinesKept == Spec => []DeadlineMatchesStatus
<1>1. Init => DeadlineMatchesStatus
  BY DEF Init, DeadlineMatchesStatus, Absent
<1> QED
  BY TypeInit, TypeStep, DeadlineStep, <1>1, PTL DEF Spec

----------------------------------------------------------------------------
(* Events of a subscription that was replaced *)

\* Whatever the gateway still sends about a subscription the user has replaced,
\* no handler of it changes a row, in any interleaving.
THEOREM StaleEventsChangeNothing == Spec => StaleEventsIgnored
<1>1. TypeInv /\ [Next]_vars =>
         [\A h \in Handlers, u \in Users :
             call[h] \in HookCall /\ call'[h] # call[h] /\ sub[u].gid # call[h].gid
                 => sub'[u] = sub[u]]_vars
  <2> SUFFICES ASSUME TypeInv, [Next]_vars, NEW h \in Handlers, NEW u \in Users,
                      call[h] \in HookCall, call'[h] # call[h], sub[u].gid # call[h].gid,
                      sub'[u] # sub[u]
               PROVE  FALSE
    OBVIOUS
  <2>1. call[h].at \in {"hook", "charged.write", "charged.role", "charged.pay"}
    BY DEF HookCall
  <2>2. \A j \in Handlers : Acts(j) => j = h
    BY DEF Acts
  <2>3. ~Replaced(u) /\ ~WrittenByRequest(u)
    BY <2>1, <2>2 DEF Replaced, WrittenByRequest
  <2>4. ~WrittenByEvent(u)
    BY <2>2 DEF WrittenByEvent
  <2>5. ~Touched(u) /\ ~WrittenByJob(u)
    BY <2>1 DEF Touched, WrittenByJob
  <2> QED
    BY <2>3, <2>4, <2>5, RowChanges
<1> QED
  BY TypeInit, TypeStep, <1>1, PTL DEF Spec, StaleEventsIgnored

----------------------------------------------------------------------------
(* What the gateway has stopped stays stopped *)

\* The last event of a subscription is the end of it.
EndsAreFinal ==
    \A g \in Subs : \A n \in DOMAIN log[g] : log[g][n] = "ended" => gw[g] = "ended"

\* A handler marks a row as cancelled after the gateway was asked to stop, and so
\* does the job.
StoppedByRequest ==
    \A h \in Handlers :
        call[h].at = "cancel.write" =>
            call[h].gid \in Subs /\ gw[call[h].gid] \in {"ending", "ended"}
StoppedByJob == cron.at = "migrate.write" => gw[cron.now[2]] = "ended"

GatewayInv == EndsAreFinal /\ StoppedByRequest /\ StoppedByJob

\* No subscription comes back.
Stays ==
    \A g \in Subs : /\ gw[g] = "ended" => gw'[g] = "ended"
                    /\ gw[g] = "ending" => gw'[g] \in {"ending", "ended"}

\* The gateway stops a subscription at once or at the end of the cycle.
LEMMA StopStays ==
    ASSUME TypeInv, EndsAreFinal, NEW g \in Subs, NEW atCycleEnd \in BOOLEAN,
           CanStop(g, atCycleEnd), Stop(g, atCycleEnd)
    PROVE  Stays /\ EndsAreFinal'
<1>1. /\ gw'[g] \in {"ending", "ended"} /\ gw[g] # "ended"
      /\ \A k \in Subs \ {g} : gw'[k] = gw[k]
      /\ \A k \in Subs : \A n \in DOMAIN log'[k] :
            \/ n \in DOMAIN log[k] /\ log'[k][n] = log[k][n]
            \/ k = g /\ gw'[g] = "ended"
  BY StopFacts DEF TypeInv
<1>2. Stays
  BY <1>1 DEF Stays
<1> QED
  BY <1>1, <1>2 DEF Stays, EndsAreFinal

LEMMA GatewayStep ==
    ASSUME TypeInv, EndsAreFinal, [Next]_vars
    PROVE  Stays /\ EndsAreFinal'
<1> USE DEF gateway
<1>0. gw \in [Subs -> {"none", "created", "live", "halted", "ending", "ended"}]
  BY DEF TypeInv, TypeOK
<1>1. CASE UNCHANGED <<gw, log>>
  BY <1>1 DEF Stays, EndsAreFinal
<1>2. ASSUME NEW g \in Subs, Charge(g) \/ Halt(g)
      PROVE  Stays /\ EndsAreFinal'
  <2>1. /\ gw[g] \notin {"ending", "ended"}
        /\ \A k \in Subs \ {g} : gw'[k] = gw[k]
    BY <1>0, <1>2 DEF Charge, Halt
  <2>2. PICK e \in {"charged", "halted"} : log' = [log EXCEPT ![g] = Append(@, e)]
    BY <1>2 DEF Charge, Halt
  <2>3. \A k \in Subs : \A n \in DOMAIN log'[k] :
           log'[k][n] = "ended" => n \in DOMAIN log[k] /\ log[k][n] = "ended"
    BY <2>2, EventAdded DEF Events, TypeInv
  <2> QED
    BY <2>1, <2>3 DEF Stays, EndsAreFinal
<1>3. ASSUME NEW g \in Subs, Complete(g)
      PROVE  Stays /\ EndsAreFinal'
  BY <1>3, StopStays DEF Complete, CanStop
<1>4. ASSUME NEW h \in Handlers, StopAtGateway(h)
      PROVE  Stays /\ EndsAreFinal'
  <2> DEFINE atCycleEnd == call[h].why = "self"
  <2>1. call[h].gid \in Subs
    BY <1>4 DEF StopAtGateway, TypeInv, Holds
  <2>2. CanStop(call[h].gid, atCycleEnd) /\ Stop(call[h].gid, atCycleEnd)
    BY <1>4 DEF StopAtGateway
  <2>3. atCycleEnd \in BOOLEAN
    OBVIOUS
  <2> HIDE DEF atCycleEnd
  <2> QED
    BY <2>1, <2>2, <2>3, StopStays
<1>5. ASSUME CronStop
      PROVE  Stays /\ EndsAreFinal'
  <2>1. \A row \in cron.todo : row[2] \in Subs
    BY DEF TypeInv, TypeOK, CronStates
  <2>2. \/ UNCHANGED <<gw, log>>
        \/ \E row \in cron.todo : CanStop(row[2], FALSE) /\ Stop(row[2], FALSE)
    BY <1>5 DEF CronStop
  <2> QED
    BY <1>1, <2>1, <2>2, StopStays
<1>6. ASSUME NEW h \in Handlers, CreateAtGateway(h)
      PROVE  Stays /\ EndsAreFinal'
  <2>1. log' = log /\ \A g \in Subs : gw[g] # "none" => gw'[g] = gw[g]
    BY <1>0, <1>6 DEF CreateAtGateway
  <2> QED
    BY <2>1 DEF Stays, EndsAreFinal
<1>7. \/ UNCHANGED <<gw, log>>
      \/ \E g \in Subs : Charge(g) \/ Halt(g) \/ Complete(g)
      \/ \E h \in Handlers : StopAtGateway(h) \/ CreateAtGateway(h)
      \/ CronStop
  <2>1. CASE UNCHANGED vars
    BY <2>1 DEF vars
  <2>2. CASE \E h \in Handlers :
                \/ \E v \in Users, plan \in Plans : Subscribe(h, v, plan)
                \/ \E v \in Users :
                      \/ CancelSubscription(h, v) \/ SelfCancel(h, v)
                      \/ SuspendUser(h, v) \/ UpdateUserRole(h, v)
                \/ \E plan \in Plans : DeactivatePlan(h, plan)
                \/ \E g \in Subs : \E n \in DOMAIN log[g] : Deliver(h, g, n)
    BY <2>2 DEF Subscribe, CancelSubscription, SelfCancel, SuspendUser, UpdateUserRole, Begin,
                DeactivatePlan, Deliver
  <2>3. ASSUME NEW h \in Handlers, Continue(h), ~StopAtGateway(h), ~CreateAtGateway(h)
        PROVE  UNCHANGED <<gw, log>>
    BY <2>3 DEF Continue, Upsert, BecomeDistributor, ReadCharged, WriteCharged, UpgradeRole,
                RecordCharge, HandleHalted, HandleEnded, Answer, Refused, WriteCancelled,
                LeaveRole, Suspend, SetRole, HandOver, ReadSubscribers, FlagSubscriber
  <2>4. CASE \/ \E v \in Users : PeriodEnds(v) \/ GraceEnds(v) \/ VisitorComes(v) \/ LeadArrives(v) \/ Reactivate(v)
             \/ \E plan \in Plans : ActivatePlan(plan)
             \/ CronStart \/ Crash
    BY <2>4 DEF PeriodEnds, GraceEnds, VisitorComes, LeadArrives, Reactivate, ActivatePlan, CronStart,
                StartPart, Crash
  <2>5. CASE CronExpire \/ CronDowngrade \/ CronHandOver \/ CronCancel \/ CronClear
    BY <2>5 DEF CronExpire, CronDowngrade, CronHandOver, CronCancel, CronClear
  <2> QED
    BY <2>1, <2>2, <2>3, <2>4, <2>5 DEF Next, RunCron
<1> QED
  BY <1>1, <1>2, <1>3, <1>4, <1>5, <1>6, <1>7

\* A handler comes to mark a row as cancelled when the gateway has just stopped.
LEMMA RequestStops ==
    ASSUME TypeInv, [Next]_vars, NEW j \in Handlers, call'[j].at = "cancel.write"
    PROVE  \/ call'[j] = call[j]
           \/ call'[j].gid \in Subs /\ gw'[call'[j].gid] \in {"ending", "ended"}
<1> USE DEF gateway
<1>0. call \in [Handlers -> Calls]
  BY DEF TypeInv, TypeOK, Calls
<1>1. CASE call' = call
  BY <1>1
<1>2. CASE Crash
  BY <1>0, <1>2 DEF Crash, Idle
<1>3. ASSUME NEW h \in Handlers, NEW v, call' = [call EXCEPT ![h] = v], v.at # "cancel.write"
      PROVE  call'[j] = call[j]
  BY <1>0, <1>3
<1>4. ASSUME NEW h \in Handlers,
             \/ \E v \in Users, plan \in Plans : Subscribe(h, v, plan)
             \/ \E v \in Users :
                   \/ CancelSubscription(h, v) \/ SelfCancel(h, v)
                   \/ SuspendUser(h, v) \/ UpdateUserRole(h, v)
             \/ \E plan \in Plans : DeactivatePlan(h, plan)
             \/ \E g \in Subs : \E n \in DOMAIN log[g] : Deliver(h, g, n)
      PROVE  call'[j] = call[j]
  <2>1. CASE \/ \E v \in Users, plan \in Plans : Subscribe(h, v, plan)
             \/ \E plan \in Plans : DeactivatePlan(h, plan)
             \/ \E g \in Subs : \E n \in DOMAIN log[g] : Deliver(h, g, n)
    <3>1. ASSUME NEW v \in Users, NEW plan \in Plans, Subscribe(h, v, plan)
          PROVE  call'[j] = call[j]
      <4> DEFINE c == [at |-> "subscribe.create", user |-> v, plan |-> plan, gid |-> NoSub]
      <4>1. call' = [call EXCEPT ![h] = c] /\ c.at # "cancel.write"
        BY <3>1 DEF Subscribe
      <4> QED
        BY <1>3, <4>1
    <3>2. ASSUME NEW plan \in Plans, DeactivatePlan(h, plan)
          PROVE  call'[j] = call[j]
      <4> DEFINE c == [at |-> "plan.read", plan |-> plan, todo |-> {}]
      <4>1. call' = [call EXCEPT ![h] = c] /\ c.at # "cancel.write"
        BY <3>2 DEF DeactivatePlan
      <4> QED
        BY <1>3, <4>1
    <3>3. ASSUME NEW g \in Subs, NEW n \in DOMAIN log[g], Deliver(h, g, n)
          PROVE  call'[j] = call[j]
      <4> DEFINE c == [at |-> "hook", gid |-> g, n |-> n, users |-> {}, upgrade |-> FALSE]
      <4>1. call' = [call EXCEPT ![h] = c] /\ c.at # "cancel.write"
        BY <3>3 DEF Deliver
      <4> QED
        BY <1>3, <4>1
    <3> QED
      BY <2>1, <3>1, <3>2, <3>3
  <2>2. ASSUME NEW v \in Users, NEW where \in {"cancel.gateway", "cancel.suspend", "cancel.role"},
               NEW why, NEW lead, Begin(h, where, why, v, lead)
        PROVE  call'[j] = call[j]
    BY <1>3, <2>2 DEF Begin
  <2> QED
    BY <1>4, <2>1, <2>2 DEF CancelSubscription, SelfCancel, SuspendUser, UpdateUserRole
<1>5. ASSUME NEW h \in Handlers, End(h)
      PROVE  call'[j] = call[j]
  BY <1>3, <1>5 DEF End, Idle
<1>6. ASSUME NEW h \in Handlers, NEW where, Goto(h, where), where # "cancel.write",
             call[h] \in SubscribeCall \cup CancelCall \cup HookCall \cup PlanCall
      PROVE  call'[j] = call[j]
  <2>1. [call[h] EXCEPT !.at = where].at = where
    BY <1>6 DEF SubscribeCall, CancelCall, HookCall, PlanCall
  <2> QED
    BY <1>3, <1>6, <2>1 DEF Goto
<1>7. ASSUME NEW h \in Handlers,
             \/ Upsert(h) \/ BecomeDistributor(h) \/ CreateAtGateway(h)
      PROVE  call'[j] = call[j]
  <2>1. call[h] \in SubscribeCall
    BY <1>7, SubscribeFacts DEF Upsert, BecomeDistributor, CreateAtGateway, TypeInv
  <2>2. ASSUME NEW g \in Subs,
               call' = [call EXCEPT ![h].at = "subscribe.upsert", ![h].gid = g]
        PROVE  call'[j] = call[j]
    <3>1. PICK v \in SubscribeCall : v = [call[h] EXCEPT !.at = "subscribe.upsert", !.gid = g]
      BY <2>1 DEF SubscribeCall
    <3>2. v.at # "cancel.write"
      BY DEF SubscribeCall
    <3>3. call' = [call EXCEPT ![h] = v]
      BY <1>0, <2>2, <3>1
    <3> QED
      BY <1>3, <3>2, <3>3
  <2> QED
    BY <1>5, <1>6, <1>7, <2>1, <2>2 DEF Upsert, BecomeDistributor, CreateAtGateway
<1>8. ASSUME NEW h \in Handlers,
             \/ ReadCharged(h) \/ WriteCharged(h) \/ UpgradeRole(h) \/ RecordCharge(h)
             \/ HandleHalted(h) \/ HandleEnded(h)
      PROVE  call'[j] = call[j]
  <2>1. call[h] \in HookCall
    BY <1>8, HookFacts DEF ReadCharged, WriteCharged, UpgradeRole, RecordCharge, HandleHalted,
                           HandleEnded, TypeInv
  <2>2. ASSUME NEW U, NEW up \in BOOLEAN,
               call' = [call EXCEPT ![h].at = "charged.write", ![h].users = U, ![h].upgrade = up]
        PROVE  call'[j] = call[j]
    <3>1. [call[h] EXCEPT !.at = "charged.write", !.users = U, !.upgrade = up].at # "cancel.write"
      BY <2>1 DEF HookCall
    <3>2. call' = [call EXCEPT ![h] = [call[h] EXCEPT !.at = "charged.write", !.users = U,
                                                      !.upgrade = up]]
      BY <1>0, <2>2
    <3> QED
      BY <1>3, <3>1, <3>2
  <2>3. CASE ReadCharged(h)
    BY <1>5, <2>2, <2>3 DEF ReadCharged, Answer
  <2>4. CASE WriteCharged(h) \/ UpgradeRole(h) \/ RecordCharge(h) \/ HandleHalted(h) \/ HandleEnded(h)
    BY <1>5, <1>6, <2>1, <2>4 DEF WriteCharged, UpgradeRole, RecordCharge, HandleHalted,
                                  HandleEnded, Answer
  <2> QED
    BY <1>8, <2>3, <2>4
<1>9. ASSUME NEW h \in Handlers,
             \/ Refused(h) \/ WriteCancelled(h) \/ LeaveRole(h) \/ Suspend(h) \/ SetRole(h)
             \/ HandOver(h)
      PROVE  call'[j] = call[j]
  <2>1. call[h] \in CancelCall
    BY <1>9, CancelFacts DEF Refused, WriteCancelled, LeaveRole, Suspend, SetRole, HandOver, TypeInv
  <2>2. \/ End(h)
        \/ \E where \in {"cancel.user", "cancel.leads", "cancel.suspend", "cancel.role"} :
              Goto(h, where)
    BY <1>9 DEF Refused, WriteCancelled, LeaveRole, Suspend, SetRole, HandOver
  <2> QED
    BY <1>5, <1>6, <2>1, <2>2
<1>10. ASSUME NEW h \in Handlers, StopAtGateway(h)
       PROVE  \/ call'[j] = call[j]
              \/ call'[j].gid \in Subs /\ gw'[call'[j].gid] \in {"ending", "ended"}
  <2> DEFINE atCycleEnd == call[h].why = "self"
  <2>1. call[h].gid \in Subs /\ call[h] \in CancelCall
    BY <1>10, CancelFacts DEF StopAtGateway, TypeInv, Holds
  <2>2. CanStop(call[h].gid, atCycleEnd) /\ Stop(call[h].gid, atCycleEnd)
    BY <1>10 DEF StopAtGateway
  <2>3. gw'[call[h].gid] \in {"ending", "ended"}
    <3>1. atCycleEnd \in BOOLEAN
      OBVIOUS
    <3> HIDE DEF atCycleEnd
    <3> QED
      BY <2>1, <2>2, <3>1, StopFacts DEF TypeInv
  <2>4. CASE End(h)
    BY <1>5, <2>4
  <2>5. CASE Goto(h, "cancel.write")
    BY <1>0, <2>1, <2>3, <2>5 DEF Goto, CancelCall
  <2> QED
    BY <1>10, <2>4, <2>5 DEF StopAtGateway
<1>11. ASSUME NEW h \in Handlers, ReadSubscribers(h) \/ FlagSubscriber(h)
       PROVE  call'[j] = call[j]
  <2>1. call[h] \in PlanCall
    BY <1>11, PlanFacts DEF ReadSubscribers, FlagSubscriber, TypeInv
  <2>2. ASSUME NEW T, NEW where \in {"plan.read", "plan.flag"},
               call' = [call EXCEPT ![h] = [call[h] EXCEPT !.at = where, !.todo = T]]
        PROVE  call'[j] = call[j]
    <3>1. [call[h] EXCEPT !.at = where, !.todo = T].at # "cancel.write"
      BY <2>1 DEF PlanCall
    <3> QED
      BY <1>3, <2>2, <3>1
  <2>3. CASE ReadSubscribers(h)
    BY <1>0, <2>2, <2>3 DEF ReadSubscribers
  <2>4. CASE FlagSubscriber(h) /\ ~End(h)
    <3>1. PICK u \in call[h].todo : call' = [call EXCEPT ![h].todo = @ \ {u}]
      BY <2>4 DEF FlagSubscriber
    <3>2. call'[h].at = "plan.flag" /\ \A k \in Handlers \ {h} : call'[k] = call[k]
      BY <1>0, <2>1, <2>4, <3>1 DEF FlagSubscriber, PlanCall
    <3> QED
      BY <3>2
  <2> QED
    BY <1>5, <1>11, <2>3, <2>4
<1>12. CASE Next
  <2>1. CASE \/ \E v \in Users : PeriodEnds(v) \/ GraceEnds(v) \/ VisitorComes(v) \/ LeadArrives(v) \/ Reactivate(v)
             \/ \E g \in Subs : Charge(g) \/ Halt(g) \/ Complete(g)
             \/ \E plan \in Plans : ActivatePlan(plan)
             \/ CronStart \/ RunCron
    BY <1>1, <2>1 DEF PeriodEnds, GraceEnds, VisitorComes, LeadArrives, Reactivate, Charge, Halt, Complete,
                      ActivatePlan, CronStart, StartPart, RunCron, CronExpire, CronDowngrade,
                      CronHandOver, CronStop, CronCancel, CronClear
  <2>2. ASSUME NEW h \in Handlers, Continue(h)
        PROVE  \/ call'[j] = call[j]
               \/ call'[j].gid \in Subs /\ gw'[call'[j].gid] \in {"ending", "ended"}
    BY <2>2, <1>7, <1>8, <1>9, <1>10, <1>11 DEF Continue
  <2> QED
    BY <1>2, <1>4, <1>12, <2>1, <2>2 DEF Next
<1> QED
  BY <1>1, <1>12 DEF vars

\* The job comes to cancel a row when the gateway has just stopped.
LEMMA JobStops ==
    ASSUME TypeInv, [Next]_vars, cron'.at = "migrate.write"
    PROVE  cron' = cron \/ gw'[cron'.now[2]] = "ended"
<1> USE DEF gateway
<1>0. cron \in CronStates
  BY DEF TypeInv, TypeOK
<1>1. ASSUME NEW row, NEW part \in {"expire", "migrate", "overlap"}, Done(row, part)
      PROVE  FALSE
  BY <1>1 DEF Done, Asleep
<1>2. ASSUME NEW row, NEW where, Treat(row, where)
      PROVE  cron'.at = where /\ cron'.now = row
  BY <1>0, <1>2 DEF Treat, CronStates
<1>3. CASE CronStop
  <2>1. \A row \in cron.todo : row[2] \in Subs
    BY <1>0 DEF CronStates
  <2>2. PICK row \in cron.todo :
           CanStop(row[2], FALSE) /\ Stop(row[2], FALSE) /\ Treat(row, "migrate.write")
    BY <1>1, <1>3 DEF CronStop
  <2>3. gw'[row[2]] = "ended"
    BY <2>1, <2>2, StopFacts DEF TypeInv
  <2> QED
    BY <1>2, <2>2, <2>3
<1>4. CASE CronExpire \/ CronDowngrade \/ CronHandOver \/ CronCancel \/ CronClear
  <2>1. CASE CronExpire
    BY <1>2, <2>1 DEF CronExpire
  <2>2. CASE CronDowngrade
    BY <1>2, <2>2 DEF CronDowngrade
  <2>3. CASE CronHandOver \/ CronCancel \/ CronClear
    BY <1>1, <2>3 DEF CronHandOver, CronCancel, CronClear
  <2> QED
    BY <1>4, <2>1, <2>2, <2>3
<1>5. CASE CronStart \/ Crash
  BY <1>5 DEF CronStart, StartPart, Crash, Asleep
<1>6. CASE cron' = cron
  BY <1>6
<1>7. \/ CronStop \/ CronStart \/ Crash \/ cron' = cron
      \/ CronExpire \/ CronDowngrade \/ CronHandOver \/ CronCancel \/ CronClear
  <2>1. CASE UNCHANGED vars
    BY <2>1 DEF vars
  <2>2. CASE \E h \in Handlers :
                \/ \E v \in Users, plan \in Plans : Subscribe(h, v, plan)
                \/ \E v \in Users :
                      \/ CancelSubscription(h, v) \/ SelfCancel(h, v)
                      \/ SuspendUser(h, v) \/ UpdateUserRole(h, v)
                \/ \E plan \in Plans : DeactivatePlan(h, plan)
                \/ \E g \in Subs : \E n \in DOMAIN log[g] : Deliver(h, g, n)
    BY <2>2 DEF Subscribe, CancelSubscription, SelfCancel, SuspendUser, UpdateUserRole, Begin,
                DeactivatePlan, Deliver
  <2>3. ASSUME NEW h \in Handlers, Continue(h)
        PROVE  cron' = cron
    BY <2>3 DEF Continue, CreateAtGateway, Upsert, BecomeDistributor, ReadCharged, WriteCharged,
                UpgradeRole, RecordCharge, HandleHalted, HandleEnded, StopAtGateway, Refused,
                WriteCancelled, LeaveRole, Suspend, SetRole, HandOver, ReadSubscribers,
                FlagSubscriber
  <2>4. CASE \/ \E v \in Users : PeriodEnds(v) \/ GraceEnds(v) \/ VisitorComes(v) \/ LeadArrives(v) \/ Reactivate(v)
             \/ \E g \in Subs : Charge(g) \/ Halt(g) \/ Complete(g)
             \/ \E plan \in Plans : ActivatePlan(plan)
    BY <2>4 DEF PeriodEnds, GraceEnds, VisitorComes, LeadArrives, Reactivate, Charge, Halt, Complete,
                ActivatePlan
  <2> QED
    BY <2>1, <2>2, <2>3, <2>4 DEF Next, RunCron
<1> QED
  BY <1>3, <1>4, <1>5, <1>6, <1>7

LEMMA GatewayInvStep == TypeInv /\ GatewayInv /\ [Next]_vars => GatewayInv'
<1> SUFFICES ASSUME TypeInv, GatewayInv, [Next]_vars
             PROVE  GatewayInv'
  OBVIOUS
<1>1. Stays /\ EndsAreFinal'
  BY GatewayStep DEF GatewayInv
<1>2. StoppedByRequest'
  <2> SUFFICES ASSUME NEW h \in Handlers, call'[h].at = "cancel.write", call'[h] = call[h]
               PROVE  call'[h].gid \in Subs /\ gw'[call'[h].gid] \in {"ending", "ended"}
    BY RequestStops DEF StoppedByRequest
  <2>1. call[h].gid \in Subs /\ gw[call[h].gid] \in {"ending", "ended"}
    BY DEF GatewayInv, StoppedByRequest
  <2> QED
    BY <1>1, <2>1 DEF Stays
<1>3. StoppedByJob'
  <2> SUFFICES ASSUME cron'.at = "migrate.write", cron' = cron
               PROVE  gw'[cron'.now[2]] = "ended"
    BY JobStops DEF StoppedByJob
  <2>1. gw[cron.now[2]] = "ended"
    BY DEF GatewayInv, StoppedByJob
  <2>2. cron.now[2] \in Subs
    BY DEF TypeInv, CronHolds
  <2> QED
    BY <1>1, <2>1, <2>2 DEF Stays
<1> QED
  BY <1>1, <1>2, <1>3 DEF GatewayInv

\* Whoever marks a subscription as cancelled, in any interleaving of requests,
\* events and the job: the gateway has stopped charging it or will at the end of
\* the cycle, unless a stop of an earlier subscription is written to a newer row.
THEOREM StoppedFirst == Spec => StoppedBeforeCancelled
<1>1. TypeInv /\ GatewayInv /\ [Next]_vars =>
         [\A u \in Users :
             sub'[u].status = "CANCELLED" /\ sub[u].status # "CANCELLED" =>
                 \/ gw[sub[u].gid] \in {"ending", "ended"}
                 \/ \E h \in Handlers : /\ call[h].at = "cancel.write"
                                        /\ call[h].user = u /\ call[h].gid # sub[u].gid
                 \/ /\ cron.at = "migrate.write"
                    /\ cron.now[1] = u /\ cron.now[2] # sub[u].gid]_vars
  <2> SUFFICES ASSUME TypeInv, GatewayInv, [Next]_vars, NEW u \in Users,
                      sub'[u].status = "CANCELLED", sub[u].status # "CANCELLED"
               PROVE  \/ gw[sub[u].gid] \in {"ending", "ended"}
                      \/ \E h \in Handlers : /\ call[h].at = "cancel.write"
                                             /\ call[h].user = u /\ call[h].gid # sub[u].gid
                      \/ /\ cron.at = "migrate.write"
                         /\ cron.now[1] = u /\ cron.now[2] # sub[u].gid
    OBVIOUS
  <2>1. ~Replaced(u) /\ ~Touched(u)
    <3>1. \A g, plan : NewRow(g, plan).status = "ACTIVE"
      BY DEF NewRow
    <3> QED
      BY <3>1 DEF Replaced, Touched
  <2>2. u \in Known /\ sub[u] \in Row /\ sub[u].gid \in Subs
    BY <2>1, RowChanges, RowFacts DEF TypeInv
  <2>3. CASE WrittenByEvent(u)
    <3>1. PICK h \in Handlers :
             /\ call[h].gid = sub[u].gid
             /\ \/ sub'[u] = Renewed(sub[u]) \/ sub'[u] = Halted(sub[u])
                \/ call[h].at = "hook" /\ Event(h) = "ended"
      BY <2>3 DEF WrittenByEvent
    <3>2. call[h].at = "hook" /\ Event(h) = "ended"
      BY <2>2, <3>1 DEF Renewed, Halted, Row
    <3>3. call[h].n \in DOMAIN log[call[h].gid]
      BY <3>2, HookFacts
    <3> QED
      BY <2>2, <3>1, <3>2, <3>3 DEF Event, GatewayInv, EndsAreFinal
  <2>4. CASE WrittenByRequest(u)
    BY <2>4 DEF WrittenByRequest, GatewayInv, StoppedByRequest
  <2>5. CASE WrittenByJob(u)
    BY <2>5 DEF WrittenByJob, GatewayInv, StoppedByJob
  <2> QED
    BY <2>1, <2>3, <2>4, <2>5, RowChanges
<1>2. Init => GatewayInv
  BY DEF Init, GatewayInv, EndsAreFinal, StoppedByRequest, StoppedByJob, Idle, Asleep
<1> QED
  BY TypeInit, TypeStep, GatewayInvStep, <1>1, <1>2, PTL DEF Spec, StoppedBeforeCancelled
=============================================================================

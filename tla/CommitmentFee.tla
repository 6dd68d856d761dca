--------------------------- MODULE CommitmentFee ---------------------------
(***************************************************************************)
(* The commitment fee: a user at the PAYMENT_GATE step opens an order, the *)
(* gateway captures the money and calls back, and the callback marks the   *)
(* payment as successful and moves the user past the gate.                 *)
(*                                                                         *)
(* A handler runs concurrently with every other handler and is cut at its  *)
(* awaits.  A PostgreSQL transaction is one step when everything it reads  *)
(* is also what it locks; the check for a pending order locks nothing      *)
(* (READ COMMITTED, no unique constraint), so it is a step of its own.     *)
(***************************************************************************)
EXTENDS FunnelSteps

CONSTANTS
    Payments,       \* payment rows that may be created
    Coupons,        \* coupons that are active and in scope
    NoCoupon,       \* an order without a coupon
    Prices,         \* amounts PaymentGateConfig may be set to
    Discount,       \* what a coupon takes off the price
    UsageLimit,     \* Coupon.usageLimit
    Unlimited,      \* a null usageLimit
    Handlers,       \* requests and callbacks that may run at the same time
    MockWebhook,    \* PAYMENT_PROVIDER or SMS_PROVIDER is 'mock'
    MaxCrashes      \* bound on the restarts of the server

ASSUME CouponAssumption ==
    /\ NoCoupon \notin Coupons
    /\ Prices \subseteq Nat
    /\ Discount \in [Coupons -> Nat]
    /\ Unlimited \notin Nat
    /\ UsageLimit \in [Coupons -> Nat \cup {Unlimited}]
    /\ MockWebhook \in BOOLEAN
    /\ MaxCrashes \in Nat

Gates == {s \in Steps : StepType[s] = "PAYMENT_GATE"}

\* The funnel has one payment gate: processSuccessfulPayment looks for "the" gate.
ASSUME OneGateAssumption == \A g1, g2 \in Gates : g1 = g2

ASSUME FiniteTablesAssumption == IsFiniteSet(Users) /\ IsFiniteSet(Payments)

VARIABLES
    progress,       \* funnel_progress and step_progress, per user
    payment,        \* payments, per row
    couponUse,      \* coupon_uses: pairs of a coupon and a user
    usedCount,      \* coupons.usedCount
    call,           \* what each handler is doing
    timers,         \* mock webhooks scheduled by setTimeout
    captured,       \* orders whose money the gateway holds
    acked,          \* captures the gateway has had a 200 for
    crashes         \* restarts so far

vars == <<progress, payment, couponUse, usedCount, call, timers, captured,
          acked, crashes>>

coupons == <<couponUse, usedCount>>
database == <<progress, payment, coupons>>
gateway == <<captured, acked>>

----------------------------------------------------------------------------
(* Rows and handlers *)

Statuses == {"PENDING", "SUCCESS", "FAILED"}

NoId == "none"
GatewayIds == {NoId, "gateway", "mock"}

\* A payment row.  due is finalAmount.  gpid is gatewayPaymentId, as the source it
\* came from: ids of two payments never coincide.  invoice = 0 is a null one.
PaymentRow == [status : Statuses, user : Users, coupon : Coupons \cup {NoCoupon},
               due : Nat, gpid : GatewayIds, invoice : Nat]

Absent == [status |-> "NONE"]

Rows == {p \in Payments : payment[p].status # "NONE"}

Idle == [at |-> "idle"]

\* createOrder with the user, the step and the amount it read, and the coupon
\* asked for.
OrderCall == [at : {"order", "order.tx"}, user : Users, step : Steps,
              coupon : Coupons \cup {NoCoupon}, amount : Prices]

\* A capture callback: the payment, the id it reports, the step it read, and
\* the invoice number it generated.
CaptureCall == [at : {"hook", "process", "commit", "invoice", "invoice.write"},
                pay : Payments, gpid : {"gateway", "mock"},
                step : Steps \cup {NoStep}, number : Nat]

\* expirePendingPayment between its check and its write.
ExpireCall == [at : {"expire"}, pay : Payments]

\* calculateDiscount floors what is left to pay at zero.
Final(c, amount) ==
    IF c = NoCoupon THEN amount
    ELSE IF Discount[c] >= amount THEN 0 ELSE amount - Discount[c]

\* Mutant of CanConsume: the increment does not look at the limit.
CanConsumeUnlimited(c, u) == <<c, u>> \notin couponUse

\* The row validateCouponInTx inserts is not there yet, and its conditional
\* increment of usedCount finds room.
CanConsume(c, u) ==
    /\ <<c, u>> \notin couponUse
    /\ UsageLimit[c] # Unlimited => usedCount[c] < UsageLimit[c]

\* Mutant of Consumed: the use of the coupon is counted but not recorded.
ConsumedUnrecorded(c, u) == couponUse

Consumed(c, u) == IF c = NoCoupon THEN couponUse ELSE couponUse \cup {<<c, u>>}

Counted(c) ==
    IF c = NoCoupon \/ UsageLimit[c] = Unlimited THEN usedCount
    ELSE [usedCount EXCEPT ![c] = @ + 1]

\* Mutants of PaidRow: the step is not marked as completed; paymentCompleted is
\* not set.
PaidRowStepOpen(r, s) ==
    [r EXCEPT !.paid = TRUE, !.step = IF s = NoStep THEN NoStep ELSE NextStep(s)]

PaidRowUnpaid(r, s) ==
    [r EXCEPT !.step = IF s = NoStep THEN NoStep ELSE NextStep(s),
              !.done = IF s = NoStep THEN @ ELSE @ \cup {s}]

\* The row of a user who pays at step s: past the gate, step s completed.
PaidRow(r, s) ==
    [r EXCEPT !.paid = TRUE,
              !.step = IF s = NoStep THEN NoStep ELSE NextStep(s),
              !.done = IF s = NoStep THEN @ ELSE @ \cup {s}]

End(h) == call' = [call EXCEPT ![h] = Idle]

----------------------------------------------------------------------------
(* createOrder *)

\* The reads before the transaction: phone verified, fee not yet paid, and the
\* current step is the payment gate, whose amount may change before the next order.
CreateOrder(h, u, c, amount) ==
    /\ call[h] = Idle
    /\ progress[u].phone /\ ~progress[u].paid
    /\ progress[u].step # NoStep
    /\ StepType[progress[u].step] = "PAYMENT_GATE"
    /\ call' = [call EXCEPT ![h] = [at |-> "order", user |-> u,
                                    step |-> progress[u].step, coupon |-> c,
                                    amount |-> amount]]
    /\ UNCHANGED <<database, gateway, timers, crashes>>

HasPending(u) ==
    \E p \in Rows : payment[p].user = u /\ payment[p].status = "PENDING"

\* The transaction starts with the check for a pending order.
CheckPending(h) ==
    /\ call[h].at = "order"
    /\ IF HasPending(call[h].user)
       THEN End(h)
       ELSE call' = [call EXCEPT ![h].at = "order.tx"]
    /\ UNCHANGED <<database, gateway, timers, crashes>>

\* Mutant of ScheduleMock: every order gets a mock webhook.
ScheduleMockAlways(p) == timers \cup {p}

\* The mock webhook is scheduled after the transaction.
ScheduleMock(p) == IF MockWebhook THEN timers \cup {p} ELSE timers

\* The rest of the transaction when there is something to pay: consume the
\* coupon, insert the PENDING row, have the gateway open the order.
OpenOrder(h) ==
    LET u == call[h].user
        c == call[h].coupon
        due == Final(c, call[h].amount)
    IN  /\ call[h].at = "order.tx"
        /\ due # 0
        /\ c # NoCoupon => CanConsume(c, u)
        /\ \E p \in Payments \ Rows :
              /\ payment' = [payment EXCEPT ![p] =
                     [status |-> "PENDING", user |-> u, coupon |-> c,
                      due |-> due, gpid |-> NoId, invoice |-> 0]]
              /\ timers' = ScheduleMock(p)
        /\ couponUse' = Consumed(c, u)
        /\ usedCount' = Counted(c)
        /\ End(h)
        /\ UNCHANGED <<gateway, progress, crashes>>

\* The rest of the transaction when nothing is left to pay.  The grant inserts
\* the coupon_uses row that validateCouponInTx has just inserted: the insert
\* breaks the unique constraint and rolls the whole transaction back.
GrantFree(h) ==
    LET u == call[h].user
        c == call[h].coupon
    IN  /\ call[h].at = "order.tx"
        /\ Final(c, call[h].amount) = 0
        /\ c # NoCoupon => CanConsume(c, u)
        /\ IF c # NoCoupon /\ <<c, u>> \in Consumed(c, u)
           THEN UNCHANGED <<progress, payment>>
           ELSE /\ \E p \in Payments \ Rows :
                      payment' = [payment EXCEPT ![p] =
                          [status |-> "SUCCESS", user |-> u, coupon |-> c,
                           due |-> 0, gpid |-> NoId, invoice |-> 0]]
                /\ progress' = [progress EXCEPT ![u] = PaidRow(@, call[h].step)]
        /\ End(h)
        /\ UNCHANGED <<coupons, gateway, timers, crashes>>

\* The transaction fails and leaves nothing: the coupon is refused, or the
\* gateway does not open the order; or the bound on the payments is reached.
RejectOrder(h) ==
    /\ call[h].at = "order.tx"
    /\ \/ Final(call[h].coupon, call[h].amount) # 0
       \/ call[h].coupon # NoCoupon /\ ~CanConsume(call[h].coupon, call[h].user)
       \/ Rows = Payments
    /\ End(h)
    /\ UNCHANGED <<database, gateway, timers, crashes>>

----------------------------------------------------------------------------
(* The gateway (external) and the user in the funnel *)

\* The client pays an order.  The gateway does not know what the database made
\* of the order since: one that the server has expired can still be paid.
Pay(p) ==
    /\ p \in Rows \ captured
    /\ payment[p].due # 0
    /\ captured' = captured \cup {p}
    /\ UNCHANGED <<database, call, timers, acked, crashes>>

\* A payment.captured event reaches the server.  The gateway sends it again
\* until it has had a 200, so two of them can be in progress at once.
DeliverCaptured(h, p) ==
    /\ call[h] = Idle
    /\ p \in captured \ acked
    /\ call' = [call EXCEPT ![h] = [at |-> "hook", pay |-> p, gpid |-> "gateway",
                                    step |-> NoStep, number |-> 0]]
    /\ UNCHANGED <<database, gateway, timers, crashes>>

\* The row of a user who completes the current step.
MovedRow(r) ==
    [r EXCEPT !.done = @ \cup {r.step},
              !.step = NextStep(r.step),
              !.phone = (r.phone \/ StepType[r.step] = "PHONE_GATE"),
              !.finished = (r.finished \/ NextStep(r.step) = NoStep)]

\* A user works through the current step by other means than this module's.
FunnelMove(u) ==
    /\ progress[u].step # NoStep
    /\ progress[u].step \notin progress[u].done
    /\ progress' = [progress EXCEPT ![u] = MovedRow(@)]
    /\ UNCHANGED <<coupons, gateway, payment, call, timers, crashes>>

----------------------------------------------------------------------------
(* handleWebhook and processSuccessfulPayment *)

\* The controller answers 200 however the handler ended.
Answer(h) ==
    /\ End(h)
    /\ acked' = IF call[h].gpid = "gateway" THEN acked \cup {call[h].pay} ELSE acked

\* Mutant of CheckProcessed: a payment that was expired is not revived.
CheckProcessedOrFailed(h) ==
    /\ call[h].at = "hook"
    /\ IF payment[call[h].pay].gpid = "gateway" \/ payment[call[h].pay].status = "FAILED"
       THEN Answer(h)
       ELSE call' = [call EXCEPT ![h].at = "process"] /\ UNCHANGED acked
    /\ UNCHANGED <<database, timers, captured, crashes>>

\* The idempotency check: some payment has this gatewayPaymentId already.
CheckProcessed(h) ==
    /\ call[h].at = "hook"
    /\ IF payment[call[h].pay].gpid = "gateway"
       THEN Answer(h)
       ELSE call' = [call EXCEPT ![h].at = "process"] /\ UNCHANGED acked
    /\ UNCHANGED <<database, timers, captured, crashes>>

\* The timer that createOrder set fires and skips the webhook's checks.
MockFires(h, p) ==
    /\ call[h] = Idle
    /\ p \in timers
    /\ timers' = timers \ {p}
    /\ call' = [call EXCEPT ![h] = [at |-> "process", pay |-> p, gpid |-> "mock",
                                    step |-> NoStep, number |-> 0]]
    /\ UNCHANGED <<database, gateway, crashes>>

\* The step to complete is the one the user is on now or, when there is none,
\* the payment gate.
StepToComplete(u) ==
    IF progress[u].step # NoStep THEN progress[u].step
    ELSE IF Gates # {} THEN CHOOSE s \in Gates : TRUE ELSE NoStep

ReadProgress(h) ==
    /\ call[h].at = "process"
    /\ call' = [call EXCEPT ![h].at = "commit",
                            ![h].step = StepToComplete(payment[call[h].pay].user)]
    /\ UNCHANGED <<database, gateway, timers, crashes>>

\* The coupon_uses row exists, so inserting it fails.  The code catches the
\* error and goes on, but PostgreSQL has aborted the transaction.
UseConflict(row) ==
    row.coupon # NoCoupon /\ <<row.coupon, row.user>> \in couponUse

CommitCapture(h) ==
    LET p == call[h].pay
        row == payment[p]
    IN  /\ call[h].at = "commit"
        /\ ~UseConflict(row)
        /\ payment' = [payment EXCEPT ![p].status = "SUCCESS",
                                      ![p].gpid = call[h].gpid]
        /\ couponUse' = Consumed(row.coupon, row.user)
        /\ usedCount' = IF row.coupon = NoCoupon THEN usedCount
                        ELSE [usedCount EXCEPT ![row.coupon] = @ + 1]
        /\ progress' = [progress EXCEPT ![row.user] = PaidRow(@, call[h].step)]
        /\ call' = [call EXCEPT ![h].at = "invoice"]
        /\ UNCHANGED <<gateway, timers, crashes>>

AbortCapture(h) ==
    /\ call[h].at = "commit"
    /\ UseConflict(payment[call[h].pay])
    /\ Answer(h)
    /\ UNCHANGED <<database, timers, captured, crashes>>

\* generateInvoiceNumber reads the highest number given out and adds one.
Invoices == {payment[p].invoice : p \in Rows}
LastInvoice ==
    IF Invoices = {} THEN 0
    ELSE CHOOSE n \in Invoices : \A m \in Invoices : m <= n

ReadInvoice(h) ==
    /\ call[h].at = "invoice"
    /\ call' = [call EXCEPT ![h].at = "invoice.write", ![h].number = LastInvoice + 1]
    /\ UNCHANGED <<database, gateway, timers, crashes>>

\* The number is stored unless another row has taken it: the unique constraint
\* fails, the error is logged, and the payment stays without an invoice.
WriteInvoice(h) ==
    LET p == call[h].pay
        n == call[h].number
    IN  /\ call[h].at = "invoice.write"
        /\ payment' = IF \E q \in Rows \ {p} : payment[q].invoice = n
                      THEN payment
                      ELSE [payment EXCEPT ![p].invoice = n]
        /\ Answer(h)
        /\ UNCHANGED <<coupons, progress, timers, captured, crashes>>

\* Mutant of FailedWebhook: the update does not ask for PENDING.
FailedWebhookAlways(p) ==
    /\ p \in Rows
    /\ payment' = [payment EXCEPT ![p].status = "FAILED"]
    /\ UNCHANGED <<coupons, gateway, progress, call, timers, crashes>>

\* payment.failed: one conditional update.
FailedWebhook(p) ==
    /\ p \in Rows
    /\ payment[p].status = "PENDING"
    /\ payment' = [payment EXCEPT ![p].status = "FAILED"]
    /\ UNCHANGED <<coupons, gateway, progress, call, timers, crashes>>

----------------------------------------------------------------------------
(* Expiry of pending payments *)

\* The nightly job fails the pending rows older than a day, whichever these are.
ExpireStalePayments ==
    \E old \in SUBSET {p \in Rows : payment[p].status = "PENDING"} :
        /\ old # {}
        /\ payment' = [p \in Payments |->
               IF p \in old THEN [payment[p] EXCEPT !.status = "FAILED"]
               ELSE payment[p]]
        /\ UNCHANGED <<coupons, gateway, progress, call, timers, crashes>>

\* An administrator expires a pending payment: a check, then an update that no
\* longer asks for the status.
AdminExpire(h, p) ==
    /\ call[h] = Idle
    /\ p \in Rows
    /\ payment[p].status = "PENDING"
    /\ call' = [call EXCEPT ![h] = [at |-> "expire", pay |-> p]]
    /\ UNCHANGED <<database, gateway, timers, crashes>>

\* Mutant of WriteExpired: the update also clears gatewayPaymentId.
WriteExpiredForgets(h) ==
    /\ call[h].at = "expire"
    /\ payment' = [payment EXCEPT ![call[h].pay].status = "FAILED",
                                  ![call[h].pay].gpid = NoId]
    /\ End(h)
    /\ UNCHANGED <<coupons, gateway, progress, timers, crashes>>

WriteExpired(h) ==
    /\ call[h].at = "expire"
    /\ payment' = [payment EXCEPT ![call[h].pay].status = "FAILED"]
    /\ End(h)
    /\ UNCHANGED <<coupons, gateway, progress, timers, crashes>>

\* The server restarts: handlers and timers are gone, the database stays.
Crash ==
    /\ crashes < MaxCrashes
    /\ crashes' = crashes + 1
    /\ call' = [h \in Handlers |-> Idle]
    /\ timers' = {}
    /\ UNCHANGED <<database, gateway>>

----------------------------------------------------------------------------
Init ==
    /\ progress = [u \in Users |-> NewRow]
    /\ payment = [p \in Payments |-> Absent]
    /\ couponUse = {}
    /\ usedCount = [c \in Coupons |-> 0]
    /\ call = [h \in Handlers |-> Idle]
    /\ timers = {}
    /\ captured = {}
    /\ acked = {}
    /\ crashes = 0

\* The steps a started handler takes by itself.
Continue(h) ==
    \/ CheckPending(h) \/ OpenOrder(h) \/ GrantFree(h) \/ RejectOrder(h)
    \/ CheckProcessed(h) \/ ReadProgress(h) \/ CommitCapture(h)
    \/ AbortCapture(h) \/ ReadInvoice(h) \/ WriteInvoice(h) \/ WriteExpired(h)

Next ==
    \/ \E h \in Handlers :
          \/ \E u \in Users, c \in Coupons \cup {NoCoupon}, amount \in Prices :
                CreateOrder(h, u, c, amount)
          \/ \E p \in Payments : DeliverCaptured(h, p)
          \/ \E p \in Payments : MockFires(h, p)
          \/ \E p \in Payments : AdminExpire(h, p)
          \/ Continue(h)
    \/ \E p \in Payments : Pay(p) \/ FailedWebhook(p)
    \/ \E u \in Users : FunnelMove(u)
    \/ ExpireStalePayments
    \/ Crash

Spec == Init /\ [][Next]_vars

\* A started handler runs to its end, and the gateway repeats an event it has
\* had no answer for.
Fairness ==
    /\ \A h \in Handlers : WF_vars(Continue(h))
    /\ \A p \in Payments : SF_vars(\E h \in Handlers : DeliverCaptured(h, p))

FairSpec == Spec /\ Fairness

----------------------------------------------------------------------------
(* Properties *)

\* Every row, handler and set has the shape the schema and the code give it.
TypeOK ==
    /\ progress \in [Users -> ProgressRow]
    /\ payment \in [Payments -> PaymentRow \cup {Absent}]
    /\ couponUse \subseteq Coupons \X Users
    /\ usedCount \in [Coupons -> Nat]
    /\ call \in [Handlers -> {Idle} \cup OrderCall \cup CaptureCall \cup ExpireCall]
    /\ timers \subseteq Rows
    /\ captured \subseteq Rows
    /\ acked \subseteq captured
    /\ crashes \in Nat

\* A callback or an expiry that has begun is about a payment that exists, and a
\* callback of the gateway about money the gateway holds.
CallsOnRows ==
    \A h \in Handlers :
        /\ call[h] \in CaptureCall \cup ExpireCall => call[h].pay \in Rows
        /\ call[h] \in CaptureCall /\ call[h].gpid = "gateway" => call[h].pay \in captured

\* What the links between money and access rest on: only mock mode makes mock
\* callbacks, and an id on record says where the money is.
CapturesBacked ==
    /\ ~MockWebhook => timers = {}
    /\ \A h \in Handlers : call[h] \in CaptureCall /\ call[h].gpid = "mock" => MockWebhook
    /\ \A p \in Rows : /\ payment[p].gpid = "gateway" => p \in captured
                       /\ payment[p].gpid = "mock" => MockWebhook

\* What the order of the steps rests on: whoever holds a step to complete, or may
\* yet be given the gate, has completed everything before it.
HoldsInOrder(v) ==
    /\ v \in OrderCall =>
          /\ StepType[v.step] = "PAYMENT_GATE"
          /\ AllBeforeDone(progress[v.user], v.step)
    /\ v \in CaptureCall /\ v.at = "commit" /\ v.step # NoStep =>
          /\ v.pay \in Rows
          /\ AllBeforeDone(progress[payment[v.pay].user], v.step)

StepsHeldInOrder ==
    /\ \A h \in Handlers : HoldsInOrder(call[h])
    /\ \A p \in Rows, g \in Gates : AllBeforeDone(progress[payment[p].user], g)

\* A limited coupon is counted once per use and never beyond its limit, however
\* orders and callbacks interleave (validateCouponInTx, processSuccessfulPayment).
CouponsWithinLimit ==
    \A c \in Coupons :
        UsageLimit[c] # Unlimited =>
            /\ usedCount[c] = Cardinality({u \in Users : <<c, u>> \in couponUse})
            /\ usedCount[c] <= UsageLimit[c]

\* A user's coupon pays for one order at most, and an order made with a coupon
\* holds the use of it, so that no other order can (createOrder).
OneOrderPerCouponUse ==
    \A p \in Rows :
        payment[p].coupon # NoCoupon =>
            /\ <<payment[p].coupon, payment[p].user>> \in couponUse
            /\ \A q \in Rows :
                  payment[q].coupon = payment[p].coupon
                      /\ payment[q].user = payment[p].user => q = p

\* The orders that account for access: the gateway holds their money, or there
\* was nothing to pay, or webhooks are mocked.
Settled == {p \in Rows : p \in captured \/ payment[p].due = 0 \/ MockWebhook}

\* A user is past the fee only when one of the user's orders accounts for it
\* (createOrder, handleWebhook, processSuccessfulPayment).
AccessWasPaidFor ==
    \A u \in Users :
        progress[u].paid => \E p \in Settled : payment[p].user = u

\* A capture that is on record has given its user access: the payment row and
\* the progress row never tell different stories (processSuccessfulPayment).
RecordedCaptureGrants ==
    \A p \in Rows :
        payment[p].gpid # NoId \/ payment[p].status = "SUCCESS" =>
            progress[payment[p].user].paid

\* Every step before the one a user is on has been completed, although a capture
\* moves the user by the step it read before its transaction.
StepsInOrder ==
    \A u \in Users :
        progress[u].step # NoStep => AllBeforeDone(progress[u], progress[u].step)

\* A payment that succeeded stays so: a payment.failed event that comes late and
\* the nightly job leave it alone.  An administrator who read it while it was
\* pending and writes afterwards (expirePendingPayment) is the one exception.
SuccessKept ==
    [][\A p \in Payments :
          payment[p].status = "SUCCESS" =>
              \/ payment'[p].status = "SUCCESS"
              \/ \E h \in Handlers : call[h].at = "expire" /\ call[h].pay = p]_vars

\* Money that was taken for an order without a coupon gives access in the end,
\* across duplicates, reordering and a restart (handleWebhook).
PlainCaptureHonoured ==
    \A p \in Payments :
        (p \in captured /\ payment[p].coupon = NoCoupon)
            ~> (p \in Rows /\ payment[p].gpid # NoId /\ progress[payment[p].user].paid)
----------------------------------------------------------------------------
(* The abstract checkout *)

\* How a payment row and the gateway's books look to the abstract checkout.
OrderOf(p) ==
    IF payment[p].status = "NONE" THEN [at |-> "none"]
    ELSE [at |-> IF payment[p].gpid # NoId \/ payment[p].due = 0
                 THEN "honoured"
                 ELSE IF p \in captured THEN "captured" ELSE "open",
          user |-> payment[p].user]

Promise == INSTANCE Checkout WITH
    order <- [p \in Payments |-> OrderOf(p)],
    access <- {u \in Users : progress[u].paid}

\* With the real gateway, what the handlers do together is a checkout: access
\* appears in one step with the record of a capture, only after the capture,
\* and neither goes away again (createOrder, handleWebhook,
\* processSuccessfulPayment and everything that expires payments).
ImplementsCheckout == Promise!CheckoutSpec
----------------------------------------------------------------------------
(* What the repository says of the program, and the program does not do.   *)
(* Checked by a run that expects TLC to refute it.                         *)

\* payment.service.ts:596, "already created, ignore": money taken for an order
\* with a coupon is recorded although the use of the coupon exists.
CouponCaptureHonoured ==
    \A p \in Payments :
        p \in captured ~> (p \in Rows /\ payment[p].gpid # NoId)
=============================================================================

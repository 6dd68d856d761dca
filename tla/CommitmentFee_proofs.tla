------------------------ MODULE CommitmentFee_proofs ------------------------
(***************************************************************************)
(* Proofs about CommitmentFee, for every funnel, every number of users,    *)
(* payments, coupons and handlers, and every price.                        *)
(***************************************************************************)
EXTENDS CommitmentFee, FiniteSetTheorems, TLAPS

----------------------------------------------------------------------------
(* The walk through the funnel, wherever a module moves a user *)

\* A query for the lowest order finds one (findFirst with orderBy asc): a
\* non-empty set of numbers has a least one.
LEMMA LeastExists ==
    ASSUME NEW S \in SUBSET Nat, S # {}
    PROVE  /\ Least(S) \in S
           /\ \A m \in S : Least(S) <= m
<1> DEFINE R == {ss \in Nat \X Nat : ss[1] < ss[2]}
<1>1. IsWellFoundedOn(R, Nat)
  BY NatLessThanWellFounded DEF OpToRel
<1>2. \A x, y \in Nat : y < x => <<y, x>> \in R
  OBVIOUS
<1> HIDE DEF R
<1>3. \E n \in S : \A m \in S : ~ (<<m, n>> \in R)
  BY <1>1, WFMin, Zenon
<1>4. \E n \in S : \A m \in S : n <= m
  <2>1. PICK n \in S : \A m \in S : ~ (<<m, n>> \in R)
    BY <1>3
  <2>2. \A m \in S : ~(m < n)
    BY <1>2, <2>1
  <2> QED
    BY <2>2
<1> QED
  BY <1>4 DEF Least

\* A finite set of numbers has a greatest one: of the sets of larger members, the
\* smallest is empty.
LEMMA GreatestExists ==
    ASSUME NEW S \in SUBSET Nat, IsFiniteSet(S), S # {}
    PROVE  \E n \in S : \A m \in S : m <= n
<1> DEFINE Above(n) == {m \in S : m > n}
           Aboves == {Above(n) : n \in S}
<1>1. IsWellFoundedOn(StrictSubsetOrdering(S), SUBSET S)
  BY FS_StrictSubsetOrderingWellFounded, FS_FiniteSubsetsOfFinite
<1>2. Aboves \subseteq SUBSET S /\ Aboves # {}
  OBVIOUS
<1>3. PICK A \in Aboves : \A B \in Aboves : ~ (<<B, A>> \in StrictSubsetOrdering(S))
  <2> HIDE DEF Aboves
  <2> QED
    BY <1>1, <1>2, WFMin, Zenon
<1>4. PICK n \in S : A = Above(n)
  BY <1>3
<1>5. SUFFICES ASSUME NEW m \in S, m > n
               PROVE  FALSE
  OBVIOUS
<1>6. Above(m) \subseteq Above(n) /\ m \in Above(n) /\ m \notin Above(m)
  <2>1. n \in Nat /\ m \in Nat /\ \A x \in S : x \in Nat
    OBVIOUS
  <2>2. \A x \in S : x > m => x > n
    BY <1>5, <2>1
  <2>3. ~(m > m)
    BY <2>1
  <2> QED
    BY <1>5, <2>2, <2>3, Zenon
<1>7. Above(m) # Above(n)
  BY <1>6
<1>8. <<Above(m), Above(n)>> \in StrictSubsetOrdering(S)
  <2> HIDE DEF Above
  <2> QED
    BY <1>2, <1>6, <1>7 DEF StrictSubsetOrdering
<1> QED
  BY <1>3, <1>4, <1>8

\* Asked for the first of some steps, the query returns one of them that no
\* other precedes (findFirst).
LEMMA FirstOfMember ==
    ASSUME NEW S \in SUBSET Steps, S # {}
    PROVE  /\ FirstOf(S) \in S
           /\ \A t \in S : StepOrder[FirstOf(S)] <= StepOrder[t]
<1> DEFINE Orders == {StepOrder[s] : s \in S}
<1>1. Orders \in SUBSET Nat /\ Orders # {}
  BY LayoutAssumption
<1>2. Least(Orders) \in Orders /\ \A m \in Orders : Least(Orders) <= m
  <2> HIDE DEF Orders
  <2> QED
    BY <1>1, LeastExists
<1>3. \E s \in S : \A t \in S : StepOrder[s] <= StepOrder[t]
  BY <1>2
<1> QED
  BY <1>3 DEF FirstOf

\* The section a query finds next is a later one, and none lies between.
LEMMA NextSection ==
    ASSUME NEW s \in Steps, LaterSections(s) # {}
    PROVE  /\ Least(LaterSections(s)) \in Sections
           /\ Least(LaterSections(s)) > StepSection[s]
           /\ \A n \in Sections : n > StepSection[s] => Least(LaterSections(s)) <= n
<1>1. LaterSections(s) \in SUBSET Nat
  BY LayoutAssumption DEF LaterSections
<1>2. /\ Least(LaterSections(s)) \in LaterSections(s)
      /\ \A n \in LaterSections(s) : Least(LaterSections(s)) <= n
  BY <1>1, LeastExists
<1> QED
  BY <1>2 DEF LaterSections

\* The walk stays in the funnel (findNextStepFromCurrent).
LEMMA NextStepType ==
    ASSUME NEW s \in Steps
    PROVE  NextStep(s) \in Steps \cup {NoStep}
<1>1. ASSUME NEW S \in SUBSET Steps
      PROVE  FirstOf(S) \in Steps \cup {NoStep}
  BY FirstOfMember DEF FirstOf
<1>2. LaterInSection(s) \in SUBSET Steps
  BY DEF LaterInSection, StepsOf
<1>3. \A n : StepsOf(n) \in SUBSET Steps
  BY DEF StepsOf
<1> QED
  BY <1>1, <1>2, <1>3 DEF NextStep

\* A user without a current step is put on a step of the funnel, if there is one
\* (getOrCreateProgress).
LEMMA FirstStepType == FirstStep \in Steps \cup {NoStep}
<1>1. ASSUME NEW n
      PROVE  FirstOf(StepsOf(n)) \in Steps \cup {NoStep}
  BY FirstOfMember DEF FirstOf, StepsOf
<1> QED
  BY <1>1 DEF FirstStep

\* The walk leaves no step out: what precedes the next step is the current step
\* or precedes it (findNextStepFromCurrent).
LEMMA NextStepSkipsNone ==
    ASSUME NEW s \in Steps, NextStep(s) # NoStep,
           NEW t \in Steps, Before(t, NextStep(s))
    PROVE  t = s \/ Before(t, s)
<1>0. \A x \in Steps : /\ StepSection[x] \in Sections /\ StepSection[x] \in Nat
                       /\ StepOrder[x] \in Nat
  BY LayoutAssumption
<1>1. CASE LaterInSection(s) # {}
  <2> DEFINE n == FirstOf(LaterInSection(s))
  <2>1. LaterInSection(s) \in SUBSET Steps
    BY DEF LaterInSection, StepsOf
  <2>2. n \in LaterInSection(s) /\ \A x \in LaterInSection(s) : StepOrder[n] <= StepOrder[x]
    BY <1>1, <2>1, FirstOfMember
  <2>3. NextStep(s) = n
    BY <1>1 DEF NextStep
  <2>4. n \in Steps /\ StepSection[n] = StepSection[s]
    BY <2>2 DEF LaterInSection, StepsOf
  <2>5. CASE StepSection[t] = StepSection[s]
    <3>1. t \notin LaterInSection(s)
      BY <1>0, <2>2, <2>3, <2>4, <2>5 DEF Before
    <3>2. StepOrder[t] <= StepOrder[s]
      BY <1>0, <3>1, <2>5 DEF LaterInSection, StepsOf
    <3> QED
      BY <1>0, <3>2, <2>5, OrderAssumption DEF Before
  <2>6. CASE StepSection[t] # StepSection[s]
    BY <1>0, <2>3, <2>4, <2>6 DEF Before
  <2> QED
    BY <2>5, <2>6
<1>2. CASE LaterInSection(s) = {}
  <2> DEFINE later == Least(LaterSections(s))
  <2>1. LaterSections(s) # {} /\ NextStep(s) = FirstOf(StepsOf(later))
    BY <1>2 DEF NextStep
  <2>2. StepsOf(later) \in SUBSET Steps /\ StepsOf(later) # {}
    BY <2>1 DEF StepsOf, FirstOf
  <2>3. /\ NextStep(s) \in StepsOf(later)
        /\ \A x \in StepsOf(later) : StepOrder[NextStep(s)] <= StepOrder[x]
    BY <2>1, <2>2, FirstOfMember
  <2>4. NextStep(s) \in Steps /\ StepSection[NextStep(s)] = later
    BY <2>3 DEF StepsOf
  <2>5. StepSection[t] < later
    <3>1. CASE StepSection[t] = later
      BY <1>0, <2>3, <2>4, <3>1 DEF Before, StepsOf
    <3>2. CASE StepSection[t] # later
      BY <1>0, <2>4, <3>2 DEF Before
    <3> QED
      BY <3>1, <3>2
  <2>6. StepSection[t] <= StepSection[s]
    BY <1>0, <2>1, <2>4, <2>5, NextSection
  <2>7. StepSection[t] = StepSection[s] => StepOrder[t] <= StepOrder[s]
    BY <1>0, <1>2 DEF LaterInSection, StepsOf
  <2> QED
    BY <1>0, <2>6, <2>7, OrderAssumption DEF Before
<1> QED
  BY <1>1, <1>2

\* Nothing precedes the first step (getOrCreateProgress).
LEMMA FirstStepIsFirst ==
    ASSUME FirstStep # NoStep, NEW t \in Steps
    PROVE  ~Before(t, FirstStep)
<1>0. \A x \in Steps : /\ StepSection[x] \in Sections /\ StepSection[x] \in Nat
                       /\ StepOrder[x] \in Nat
  BY LayoutAssumption
<1> DEFINE first == Least(Sections)
<1>1. Sections # {} /\ FirstStep = FirstOf(StepsOf(first))
  BY DEF FirstStep
<1>2. first \in Sections /\ \A n \in Sections : first <= n
  BY <1>1, LayoutAssumption, LeastExists
<1>3. StepsOf(first) \in SUBSET Steps /\ StepsOf(first) # {}
  BY <1>1 DEF StepsOf, FirstOf
<1>4. /\ FirstStep \in StepsOf(first)
      /\ \A x \in StepsOf(first) : StepOrder[FirstStep] <= StepOrder[x]
  BY <1>1, <1>3, FirstOfMember
<1>5. FirstStep \in Steps /\ StepSection[FirstStep] = first
  BY <1>4 DEF StepsOf
<1>6. CASE StepSection[t] = first
  BY <1>0, <1>4, <1>5, <1>6 DEF Before, StepsOf
<1>7. CASE StepSection[t] # first
  BY <1>0, <1>2, <1>5, <1>7 DEF Before
<1> QED
  BY <1>6, <1>7

----------------------------------------------------------------------------
(* Types *)

Calls == {Idle} \cup OrderCall \cup CaptureCall \cup ExpireCall

\* The row of a user who pays is a progress row (processSuccessfulPayment).
LEMMA PaidRowType ==
    ASSUME NEW r \in ProgressRow, NEW s \in Steps \cup {NoStep}
    PROVE  /\ PaidRow(r, s) \in ProgressRow
           /\ PaidRow(r, s).paid
           /\ r.done \subseteq PaidRow(r, s).done
<1>1. CASE s = NoStep
  BY <1>1 DEF PaidRow, ProgressRow
<1>2. CASE s \in Steps
  <2>1. NextStep(s) \in Steps \cup {NoStep} /\ s # NoStep
    BY <1>2, NextStepType, LayoutAssumption
  <2> QED
    BY <1>2, <2>1 DEF PaidRow, ProgressRow
<1> QED
  BY <1>1, <1>2

\* The row of a user who completes the current step is a progress row.
LEMMA MovedRowType ==
    ASSUME NEW r \in ProgressRow, r.step \in Steps
    PROVE  /\ MovedRow(r) \in ProgressRow
           /\ MovedRow(r).paid = r.paid
           /\ r.done \subseteq MovedRow(r).done
<1>1. NextStep(r.step) \in Steps \cup {NoStep}
  BY NextStepType
<1>2. /\ (r.phone \/ StepType[r.step] = "PHONE_GATE") \in BOOLEAN
      /\ (r.finished \/ NextStep(r.step) = NoStep) \in BOOLEAN
  OBVIOUS
<1> QED
  BY <1>1, <1>2 DEF MovedRow, ProgressRow

\* The step to complete is a step or none.
LEMMA StepToCompleteType ==
    ASSUME TypeOK, NEW u \in Users
    PROVE  StepToComplete(u) \in Steps \cup {NoStep}
<1>1. progress[u].step \in Steps \cup {NoStep}
  BY DEF TypeOK, ProgressRow
<1>2. Gates # {} => (CHOOSE s \in Gates : TRUE) \in Gates
  OBVIOUS
<1> QED
  BY <1>1, <1>2 DEF StepToComplete, Gates

\* A handler at a stage of a capture callback is one, and its payment has a row.
LEMMA CaptureFacts ==
    ASSUME TypeOK, CallsOnRows, NEW h \in Handlers,
           call[h].at \in {"hook", "process", "commit", "invoice", "invoice.write"}
    PROVE  /\ call[h] \in CaptureCall
           /\ call[h].pay \in Rows
           /\ payment[call[h].pay] \in PaymentRow
           /\ call[h].gpid = "gateway" => call[h].pay \in captured
<1>1. call[h] \in CaptureCall
  BY DEF TypeOK, Idle, OrderCall, ExpireCall
<1>2. call[h].pay \in Rows
  BY <1>1 DEF CallsOnRows
<1> QED
  BY <1>1, <1>2 DEF TypeOK, CallsOnRows, Rows, Absent

TypeInv == TypeOK /\ CallsOnRows

\* When one handler moves on, and what it now is about has a row, every handler
\* is about a row.
LEMMA OneCallMoves ==
    ASSUME TypeInv, NEW h \in Handlers, NEW v \in Calls,
           call' = [call EXCEPT ![h] = v],
           v \in CaptureCall \cup ExpireCall => v.pay \in Rows',
           v \in CaptureCall /\ v.gpid = "gateway" => v.pay \in captured',
           Rows \subseteq Rows', captured \subseteq captured'
    PROVE  call' \in [Handlers -> Calls] /\ CallsOnRows'
BY DEF TypeInv, TypeOK, Calls, CallsOnRows

\* The kinds of calls are told apart by their fields.
LEMMA OrderIsNoCapture ==
    ASSUME NEW v \in {Idle} \cup OrderCall
    PROVE  v \notin CaptureCall \cup ExpireCall
BY DEF Idle, OrderCall, CaptureCall, ExpireCall

\* A handler of createOrder is one.
LEMMA OrderFacts ==
    ASSUME TypeOK, NEW h \in Handlers, call[h].at \in {"order", "order.tx"}
    PROVE  /\ call[h] \in OrderCall
           /\ call[h].user \in Users
           /\ call[h].step \in Steps
           /\ call[h].coupon \in Coupons \cup {NoCoupon}
           /\ call[h].amount \in Prices
           /\ Final(call[h].coupon, call[h].amount) \in Nat
<1>1. /\ call[h] \in OrderCall
      /\ call[h].user \in Users
      /\ call[h].step \in Steps
      /\ call[h].coupon \in Coupons \cup {NoCoupon}
      /\ call[h].amount \in Prices
  BY DEF TypeOK, Idle, OrderCall, CaptureCall, ExpireCall
<1>2. \A c \in Coupons \cup {NoCoupon}, amount \in Prices : Final(c, amount) \in Nat
  <2> SUFFICES ASSUME NEW c \in Coupons \cup {NoCoupon}, NEW amount \in Prices
               PROVE  Final(c, amount) \in Nat
    OBVIOUS
  <2>1. amount \in Nat /\ (c # NoCoupon => Discount[c] \in Nat)
    BY CouponAssumption
  <2> QED
    BY <2>1 DEF Final
<1> QED
  BY <1>1, <1>2

\* A row that fails keeps its shape and stays a row.
LEMMA FailedRow ==
    ASSUME NEW r \in PaymentRow
    PROVE  /\ [r EXCEPT !.status = "FAILED"] \in PaymentRow
           /\ [r EXCEPT !.status = "FAILED"].status # "NONE"
BY DEF PaymentRow, Statuses

\* The next invoice number is one.  Rows hold finitely many numbers, so there is
\* a last one.
LEMMA LastInvoiceType == ASSUME TypeOK PROVE LastInvoice + 1 \in Nat
<1> DEFINE f == [p \in Rows |-> payment[p].invoice]
<1>1. \A p \in Rows : payment[p].invoice \in Nat
  BY DEF TypeOK, Rows, Absent, PaymentRow
<1>2. Invoices \in SUBSET Nat
  BY <1>1 DEF Invoices
<1>3. IsFiniteSet(Rows)
  BY FiniteTablesAssumption, FS_Subset DEF Rows
<1>4. f \in Surjection(Rows, Invoices)
  BY DEF Invoices, Surjection
<1>5. IsFiniteSet(Invoices)
  <2> HIDE DEF f
  <2> QED
    BY <1>3, <1>4, FS_Surjection
<1>6. Invoices # {} => \E n \in Invoices : \A m \in Invoices : m <= n
  BY <1>2, <1>5, GreatestExists
<1>7. CASE Invoices = {}
  BY <1>7 DEF LastInvoice
<1>8. CASE Invoices # {}
  <2>1. LastInvoice \in Invoices
    BY <1>6, <1>8, Zenon DEF LastInvoice
  <2> QED
    BY <1>2, <2>1
<1> QED
  BY <1>7, <1>8

\* Types are kept by every step of the program, and no row is ever deleted.
LEMMA TypeStep == TypeInv /\ [Next]_vars => TypeInv' /\ Rows \subseteq Rows'
<1> SUFFICES ASSUME TypeInv, [Next]_vars
             PROVE  TypeInv' /\ Rows \subseteq Rows'
  OBVIOUS
<1> USE CouponAssumption DEF database, coupons, gateway, TypeInv
<1>0. Idle \in Calls
  BY DEF Calls
<1>a. CASE UNCHANGED vars
  BY <1>a DEF vars, TypeOK, CallsOnRows, Rows
<1>b. ASSUME NEW h \in Handlers, NEW u \in Users, NEW c \in Coupons \cup {NoCoupon},
             NEW amount \in Prices, CreateOrder(h, u, c, amount)
      PROVE  TypeInv' /\ Rows \subseteq Rows'
  <2> DEFINE v == [at |-> "order", user |-> u, step |-> progress[u].step, coupon |-> c,
                   amount |-> amount]
  <2>1. v \in OrderCall
    BY <1>b DEF CreateOrder, TypeOK, ProgressRow, OrderCall
  <2>2. Rows' = Rows
    BY <1>b DEF CreateOrder, Rows
  <2>3. call' \in [Handlers -> Calls] /\ CallsOnRows'
    BY <1>b, <2>1, <2>2, OneCallMoves, OrderIsNoCapture DEF CreateOrder, Calls
  <2> QED
    BY <1>b, <2>2, <2>3 DEF CreateOrder, TypeOK, Calls
<1>c. ASSUME NEW h \in Handlers, CheckPending(h)
      PROVE  TypeInv' /\ Rows \subseteq Rows'
  <2> DEFINE v == IF HasPending(call[h].user) THEN Idle ELSE [call[h] EXCEPT !.at = "order.tx"]
  <2>1. v \in {Idle} \cup OrderCall
    BY <1>c, OrderFacts DEF CheckPending, OrderCall
  <2>2. Rows' = Rows
    BY <1>c DEF CheckPending, Rows
  <2>3. call' = [call EXCEPT ![h] = v]
    BY <1>c DEF CheckPending, End
  <2>4. call' \in [Handlers -> Calls] /\ CallsOnRows'
    <3> HIDE DEF v
    <3> QED
      BY <1>c, <2>1, <2>2, <2>3, OneCallMoves, OrderIsNoCapture DEF Calls, CheckPending
  <2> QED
    BY <1>c, <2>2, <2>4 DEF CheckPending, TypeOK, Calls
<1>d. ASSUME NEW h \in Handlers, OpenOrder(h)
      PROVE  TypeInv' /\ Rows \subseteq Rows'
  <2>1. call[h] \in OrderCall /\ call[h].user \in Users
        /\ call[h].coupon \in Coupons \cup {NoCoupon}
        /\ Final(call[h].coupon, call[h].amount) \in Nat
    BY <1>d, OrderFacts DEF OpenOrder
  <2> DEFINE row == [status |-> "PENDING", user |-> call[h].user,
                     coupon |-> call[h].coupon,
                     due |-> Final(call[h].coupon, call[h].amount),
                     gpid |-> NoId, invoice |-> 0]
  <2>2. row \in PaymentRow
    BY <2>1 DEF PaymentRow, Statuses, GatewayIds
  <2>3. PICK p \in Payments \ Rows : /\ payment' = [payment EXCEPT ![p] = row]
                                     /\ timers' = ScheduleMock(p)
    BY <1>d DEF OpenOrder
  <2>4. payment' \in [Payments -> PaymentRow \cup {Absent}]
    BY <2>2, <2>3 DEF TypeOK
  <2>5. Rows \subseteq Rows' /\ p \in Rows'
    BY <2>3 DEF Rows, TypeOK
  <2>6. timers' \subseteq Rows' /\ captured' \subseteq Rows' /\ acked' \subseteq captured'
    BY <1>d, <2>3, <2>5 DEF OpenOrder, ScheduleMock, TypeOK
  <2>7. couponUse' \subseteq Coupons \X Users /\ usedCount' \in [Coupons -> Nat]
    BY <1>d, <2>1 DEF OpenOrder, Consumed, Counted, TypeOK
  <2>8. call' \in [Handlers -> Calls] /\ CallsOnRows'
    BY <1>0, <1>d, <2>5, OneCallMoves, OrderIsNoCapture DEF OpenOrder, End
  <2>9. progress' \in [Users -> ProgressRow] /\ crashes' \in Nat
    BY <1>d DEF OpenOrder, TypeOK
  <2> QED
    BY <2>4, <2>5, <2>6, <2>7, <2>8, <2>9 DEF TypeOK, Calls
<1>e. ASSUME NEW h \in Handlers, GrantFree(h)
      PROVE  TypeInv' /\ Rows \subseteq Rows'
  <2>1. call[h] \in OrderCall /\ call[h].user \in Users /\ call[h].step \in Steps
        /\ call[h].coupon \in Coupons \cup {NoCoupon}
    BY <1>e, OrderFacts DEF GrantFree
  <2> DEFINE row == [status |-> "SUCCESS", user |-> call[h].user,
                     coupon |-> call[h].coupon, due |-> 0, gpid |-> NoId, invoice |-> 0]
  <2>2. CASE UNCHANGED <<payment, progress>>
    <3>1. Rows' = Rows
      BY <2>2 DEF Rows
    <3>2. call' \in [Handlers -> Calls] /\ CallsOnRows'
      BY <1>0, <1>e, <3>1, OneCallMoves, OrderIsNoCapture DEF GrantFree, End
    <3> QED
      BY <1>e, <2>2, <3>1, <3>2 DEF GrantFree, TypeOK, Calls
  <2>3. ASSUME NEW p \in Payments \ Rows,
               payment' = [payment EXCEPT ![p] = row],
               progress' = [progress EXCEPT ![call[h].user] = PaidRow(@, call[h].step)]
        PROVE  TypeInv' /\ Rows \subseteq Rows'
    <3>1. row \in PaymentRow
      BY <2>1 DEF PaymentRow, Statuses, GatewayIds
    <3>2. payment' \in [Payments -> PaymentRow \cup {Absent}] /\ Rows \subseteq Rows'
      BY <2>3, <3>1 DEF TypeOK, Rows
    <3>3. progress' \in [Users -> ProgressRow]
      BY <2>1, <2>3, PaidRowType DEF TypeOK
    <3>4. call' \in [Handlers -> Calls] /\ CallsOnRows'
      BY <1>0, <1>e, <3>2, OneCallMoves, OrderIsNoCapture DEF GrantFree, End
    <3> QED
      BY <1>e, <3>2, <3>3, <3>4 DEF GrantFree, TypeOK, Calls
  <2> QED
    BY <1>e, <2>2, <2>3 DEF GrantFree
<1>f. ASSUME NEW h \in Handlers, RejectOrder(h)
      PROVE  TypeInv' /\ Rows \subseteq Rows'
  <2>1. Rows' = Rows
    BY <1>f DEF RejectOrder, Rows
  <2>2. call' \in [Handlers -> Calls] /\ CallsOnRows'
    BY <1>0, <1>f, <2>1, OneCallMoves, OrderIsNoCapture DEF RejectOrder, End
  <2> QED
    BY <1>f, <2>1, <2>2 DEF RejectOrder, TypeOK, Calls
<1>g. ASSUME NEW h \in Handlers, NEW p \in Payments, DeliverCaptured(h, p)
      PROVE  TypeInv' /\ Rows \subseteq Rows'
  <2> DEFINE v == [at |-> "hook", pay |-> p, gpid |-> "gateway", step |-> NoStep,
                   number |-> 0]
  <2>1. v \in CaptureCall /\ v.pay \in Rows
    BY <1>g DEF DeliverCaptured, CaptureCall, TypeOK
  <2>2. Rows' = Rows
    BY <1>g DEF DeliverCaptured, Rows
  <2>3. call' \in [Handlers -> Calls] /\ CallsOnRows'
    BY <1>g, <2>1, <2>2, OneCallMoves DEF DeliverCaptured, Calls
  <2> QED
    BY <1>g, <2>2, <2>3 DEF DeliverCaptured, TypeOK, Calls
<1>h. ASSUME NEW h \in Handlers, NEW p \in Payments, MockFires(h, p)
      PROVE  TypeInv' /\ Rows \subseteq Rows'
  <2> DEFINE v == [at |-> "process", pay |-> p, gpid |-> "mock", step |-> NoStep,
                   number |-> 0]
  <2>1. v \in CaptureCall /\ v.pay \in Rows
    BY <1>h DEF MockFires, CaptureCall, TypeOK
  <2>2. Rows' = Rows
    BY <1>h DEF MockFires, Rows
  <2>3. call' \in [Handlers -> Calls] /\ CallsOnRows'
    BY <1>h, <2>1, <2>2, OneCallMoves DEF MockFires, Calls
  <2> QED
    BY <1>h, <2>2, <2>3 DEF MockFires, TypeOK, Calls
<1>i. ASSUME NEW h \in Handlers, NEW p \in Payments, AdminExpire(h, p)
      PROVE  TypeInv' /\ Rows \subseteq Rows'
  <2> DEFINE v == [at |-> "expire", pay |-> p]
  <2>1. v \in ExpireCall /\ v \notin CaptureCall /\ v.pay \in Rows
    BY <1>i DEF AdminExpire, ExpireCall, CaptureCall
  <2>2. Rows' = Rows
    BY <1>i DEF AdminExpire, Rows
  <2>3. call' \in [Handlers -> Calls] /\ CallsOnRows'
    BY <1>i, <2>1, <2>2, OneCallMoves DEF AdminExpire, Calls
  <2> QED
    BY <1>i, <2>2, <2>3 DEF AdminExpire, TypeOK, Calls
<1>j. ASSUME NEW h \in Handlers, CheckProcessed(h)
      PROVE  TypeInv' /\ Rows \subseteq Rows'
  <2> DEFINE v == IF payment[call[h].pay].gpid = "gateway" THEN Idle
                  ELSE [call[h] EXCEPT !.at = "process"]
  <2>1. /\ call[h] \in CaptureCall /\ call[h].pay \in Rows
        /\ call[h].gpid = "gateway" => call[h].pay \in captured
    BY <1>j, CaptureFacts DEF CheckProcessed
  <2>2. /\ v \in Calls
        /\ v \in CaptureCall \cup ExpireCall => v.pay \in Rows
        /\ v \in CaptureCall /\ v.gpid = "gateway" => v.pay \in captured
    BY <2>1, <1>0, OrderIsNoCapture DEF Calls, CaptureCall, Idle
  <2>3. Rows' = Rows
    BY <1>j DEF CheckProcessed, Rows
  <2>4. call' = [call EXCEPT ![h] = v]
    BY <1>j DEF CheckProcessed, Answer, End
  <2>5. call' \in [Handlers -> Calls] /\ CallsOnRows'
    <3> HIDE DEF v
    <3> QED
      BY <1>j, <2>2, <2>3, <2>4, OneCallMoves DEF CheckProcessed
  <2> QED
    BY <1>j, <2>1, <2>3, <2>5 DEF CheckProcessed, Answer, TypeOK, Calls
<1>k. ASSUME NEW h \in Handlers, ReadProgress(h)
      PROVE  TypeInv' /\ Rows \subseteq Rows'
  <2> DEFINE s == StepToComplete(payment[call[h].pay].user)
             v == [call[h] EXCEPT !.at = "commit", !.step = s]
  <2>1. /\ call[h] \in CaptureCall /\ call[h].pay \in Rows
        /\ payment[call[h].pay] \in PaymentRow
        /\ call[h].gpid = "gateway" => call[h].pay \in captured
    BY <1>k, CaptureFacts DEF ReadProgress
  <2>2. s \in Steps \cup {NoStep}
    BY <2>1, StepToCompleteType DEF PaymentRow
  <2>3. call' = [call EXCEPT ![h] = v]
    BY <1>k DEF ReadProgress
  <2>4. /\ v \in CaptureCall /\ v.pay \in Rows
        /\ v.gpid = "gateway" => v.pay \in captured
    <3> HIDE DEF s
    <3> QED
      BY <2>1, <2>2 DEF CaptureCall
  <2>5. Rows' = Rows
    BY <1>k DEF ReadProgress, Rows
  <2>6. call' \in [Handlers -> Calls] /\ CallsOnRows'
    <3> HIDE DEF v
    <3> QED
      BY <1>k, <2>3, <2>4, <2>5, OneCallMoves DEF Calls, ReadProgress
  <2> QED
    BY <1>k, <2>5, <2>6 DEF ReadProgress, TypeOK, Calls
<1>l. ASSUME NEW h \in Handlers, CommitCapture(h)
      PROVE  TypeInv' /\ Rows \subseteq Rows'
  <2> DEFINE p == call[h].pay
             row == payment[p]
             v == [call[h] EXCEPT !.at = "invoice"]
  <2>1. /\ call[h] \in CaptureCall /\ p \in Rows /\ row \in PaymentRow
        /\ call[h].gpid = "gateway" => p \in captured
    BY <1>l, CaptureFacts DEF CommitCapture
  <2>2. /\ call[h].gpid \in GatewayIds /\ call[h].step \in Steps \cup {NoStep}
        /\ row.user \in Users /\ row.coupon \in Coupons \cup {NoCoupon}
    BY <2>1 DEF CaptureCall, PaymentRow, GatewayIds
  <2>3. payment' \in [Payments -> PaymentRow \cup {Absent}] /\ Rows' = Rows
    <3>1. [row EXCEPT !.status = "SUCCESS", !.gpid = call[h].gpid] \in PaymentRow
      BY <2>1, <2>2 DEF PaymentRow, Statuses
    <3>2. payment' = [payment EXCEPT ![p] =
                        [row EXCEPT !.status = "SUCCESS", !.gpid = call[h].gpid]]
      BY <1>l, <2>1 DEF CommitCapture, TypeOK
    <3> QED
      BY <2>1, <3>1, <3>2 DEF TypeOK, Rows, Absent, PaymentRow, Statuses
  <2>4. progress' \in [Users -> ProgressRow]
    BY <1>l, <2>2, PaidRowType DEF CommitCapture, TypeOK
  <2>5. couponUse' \subseteq Coupons \X Users /\ usedCount' \in [Coupons -> Nat]
    BY <1>l, <2>2 DEF CommitCapture, Consumed, TypeOK
  <2>6. /\ v \in CaptureCall /\ v.pay \in Rows
        /\ v.gpid = "gateway" => v.pay \in captured
    BY <2>1 DEF CaptureCall
  <2>7. call' \in [Handlers -> Calls] /\ CallsOnRows'
    BY <1>l, <2>3, <2>6, OneCallMoves DEF Calls, CommitCapture
  <2> QED
    BY <1>l, <2>3, <2>4, <2>5, <2>7 DEF CommitCapture, TypeOK, Calls
<1>m. ASSUME NEW h \in Handlers, AbortCapture(h)
      PROVE  TypeInv' /\ Rows \subseteq Rows'
  <2>1. call[h].gpid = "gateway" => call[h].pay \in captured
    BY <1>m, CaptureFacts DEF AbortCapture
  <2>2. Rows' = Rows
    BY <1>m DEF AbortCapture, Rows
  <2>3. call' \in [Handlers -> Calls] /\ CallsOnRows'
    BY <1>0, <1>m, <2>2, OneCallMoves, OrderIsNoCapture DEF AbortCapture, Answer, End
  <2> QED
    BY <1>m, <2>1, <2>2, <2>3 DEF AbortCapture, Answer, TypeOK, Calls
<1>n. ASSUME NEW h \in Handlers, ReadInvoice(h)
      PROVE  TypeInv' /\ Rows \subseteq Rows'
  <2> DEFINE n == LastInvoice + 1
             v == [call[h] EXCEPT !.at = "invoice.write", !.number = n]
  <2>1. /\ call[h] \in CaptureCall /\ call[h].pay \in Rows
        /\ call[h].gpid = "gateway" => call[h].pay \in captured
    BY <1>n, CaptureFacts DEF ReadInvoice
  <2>2. n \in Nat
    BY LastInvoiceType
  <2>3. call' = [call EXCEPT ![h] = v]
    BY <1>n DEF ReadInvoice
  <2>4. /\ v \in CaptureCall /\ v.pay \in Rows
        /\ v.gpid = "gateway" => v.pay \in captured
    <3> HIDE DEF n
    <3> QED
      BY <2>1, <2>2 DEF CaptureCall
  <2>5. Rows' = Rows
    BY <1>n DEF ReadInvoice, Rows
  <2>6. call' \in [Handlers -> Calls] /\ CallsOnRows'
    <3> HIDE DEF v
    <3> QED
      BY <1>n, <2>3, <2>4, <2>5, OneCallMoves DEF Calls, ReadInvoice
  <2> QED
    BY <1>n, <2>5, <2>6 DEF ReadInvoice, TypeOK, Calls
<1>o. ASSUME NEW h \in Handlers, WriteInvoice(h)
      PROVE  TypeInv' /\ Rows \subseteq Rows'
  <2> DEFINE p == call[h].pay
             n == call[h].number
  <2>1. /\ call[h] \in CaptureCall /\ p \in Rows /\ payment[p] \in PaymentRow
        /\ call[h].gpid = "gateway" => p \in captured
    BY <1>o, CaptureFacts DEF WriteInvoice
  <2>2. n \in Nat
    BY <2>1 DEF CaptureCall
  <2>3. payment' \in [Payments -> PaymentRow \cup {Absent}] /\ Rows' = Rows
    <3>1. CASE payment' = payment
      BY <3>1 DEF TypeOK, Rows
    <3>2. CASE payment' = [payment EXCEPT ![p].invoice = n]
      <4>1. [payment[p] EXCEPT !.invoice = n] \in PaymentRow
        BY <2>1, <2>2 DEF PaymentRow
      <4> QED
        BY <2>1, <3>2, <4>1 DEF TypeOK, Rows, Absent, PaymentRow, Statuses
    <3> QED
      BY <1>o, <3>1, <3>2 DEF WriteInvoice
  <2>4. call' \in [Handlers -> Calls] /\ CallsOnRows'
    BY <1>0, <1>o, <2>3, OneCallMoves, OrderIsNoCapture DEF WriteInvoice, Answer, End
  <2> QED
    BY <1>o, <2>1, <2>3, <2>4 DEF WriteInvoice, Answer, TypeOK, Calls
<1>p. ASSUME NEW h \in Handlers, WriteExpired(h)
      PROVE  TypeInv' /\ Rows \subseteq Rows'
  <2> DEFINE p == call[h].pay
  <2>1. call[h] \in ExpireCall /\ p \in Rows /\ payment[p] \in PaymentRow
    BY <1>p DEF WriteExpired, TypeOK, CallsOnRows, Idle, OrderCall, CaptureCall, Rows, Absent
  <2>2. payment' \in [Payments -> PaymentRow \cup {Absent}] /\ Rows' = Rows
    BY <1>p, <2>1, FailedRow DEF WriteExpired, TypeOK, Rows
  <2>3. call' \in [Handlers -> Calls] /\ CallsOnRows'
    BY <1>0, <1>p, <2>2, OneCallMoves, OrderIsNoCapture DEF WriteExpired, End
  <2> QED
    BY <1>p, <2>2, <2>3 DEF WriteExpired, TypeOK, Calls
<1>q. ASSUME NEW p \in Payments, Pay(p)
      PROVE  TypeInv' /\ Rows \subseteq Rows'
  BY <1>q DEF Pay, TypeOK, Rows, CallsOnRows
<1>r. ASSUME NEW p \in Payments, FailedWebhook(p)
      PROVE  TypeInv' /\ Rows \subseteq Rows'
  <2>1. payment[p] \in PaymentRow
    BY <1>r DEF FailedWebhook, TypeOK, Absent
  <2>2. payment' \in [Payments -> PaymentRow \cup {Absent}] /\ Rows' = Rows
    BY <1>r, <2>1, FailedRow DEF FailedWebhook, TypeOK, Rows
  <2> QED
    BY <1>r, <2>2 DEF FailedWebhook, TypeOK, CallsOnRows
<1>s. ASSUME NEW u \in Users, FunnelMove(u)
      PROVE  TypeInv' /\ Rows \subseteq Rows'
  <2>1. progress[u].step \in Steps /\ progress[u] \in ProgressRow
    BY <1>s DEF FunnelMove, TypeOK, ProgressRow
  <2>2. MovedRow(progress[u]) \in ProgressRow
    BY <2>1, MovedRowType
  <2>3. progress' \in [Users -> ProgressRow]
    BY <1>s, <2>2 DEF FunnelMove, TypeOK
  <2> QED
    BY <1>s, <2>3 DEF FunnelMove, TypeOK, Rows, CallsOnRows
<1>t. ASSUME ExpireStalePayments
      PROVE  TypeInv' /\ Rows \subseteq Rows'
  <2>1. PICK old \in SUBSET {p \in Rows : payment[p].status = "PENDING"} :
           payment' = [p \in Payments |->
               IF p \in old THEN [payment[p] EXCEPT !.status = "FAILED"] ELSE payment[p]]
    BY <1>t DEF ExpireStalePayments
  <2>2. \A p \in old : p \in Rows /\ payment[p] \in PaymentRow
    BY DEF TypeOK, Rows, Absent
  <2>3. payment' \in [Payments -> PaymentRow \cup {Absent}] /\ Rows' = Rows
    BY <2>1, <2>2, FailedRow DEF TypeOK, Rows
  <2> QED
    BY <1>t, <2>3 DEF ExpireStalePayments, TypeOK, CallsOnRows
<1>u. ASSUME Crash
      PROVE  TypeInv' /\ Rows \subseteq Rows'
  BY <1>u, OrderIsNoCapture DEF Crash, TypeOK, Rows, CallsOnRows
<1> QED
  BY <1>a, <1>b, <1>c, <1>d, <1>e, <1>f, <1>g, <1>h, <1>i, <1>j, <1>k, <1>l, <1>m,
     <1>n, <1>o, <1>p, <1>q, <1>r, <1>s, <1>t, <1>u DEF Next, Continue

LEMMA TypeInit == Init => TypeInv
<1> SUFFICES ASSUME Init
             PROVE  TypeInv
  OBVIOUS
<1>1. NewRow \in ProgressRow
  BY FirstStepType DEF NewRow, ProgressRow
<1>2. Rows = {}
  BY DEF Init, Rows, Absent
<1> QED
  BY <1>1, <1>2, OrderIsNoCapture DEF Init, TypeInv, TypeOK, CallsOnRows

\* Every reachable state has the types the schema gives, for every funnel and
\* every number of users, payments, coupons and handlers.
THEOREM TypeCorrect == Spec => []TypeOK
<1>1. TypeInv /\ [Next]_vars => TypeInv'
  BY TypeStep
<1>2. TypeInv => TypeOK
  BY DEF TypeInv
<1> QED
  BY TypeInit, <1>1, <1>2, PTL DEF Spec

----------------------------------------------------------------------------
(* Money and access *)

Money == CapturesBacked /\ RecordedCaptureGrants /\ AccessWasPaidFor

\* A step that neither gives nor takes access, changes no gpid, lets no payment
\* succeed and adds at most pending rows keeps money and access together.
LEMMA MoneyFrame ==
    ASSUME TypeInv, Money, Rows \subseteq Rows', captured \subseteq captured',
           \A u \in Users : progress'[u].paid = progress[u].paid,
           \A p \in Rows : /\ payment'[p].user = payment[p].user
                           /\ payment'[p].due = payment[p].due
                           /\ payment'[p].gpid = payment[p].gpid
                           /\ (payment'[p].status = "SUCCESS" => payment[p].status = "SUCCESS"),
           \A p \in Rows' \ Rows : payment'[p].gpid = NoId /\ payment'[p].status = "PENDING"
    PROVE  /\ RecordedCaptureGrants'
           /\ AccessWasPaidFor'
           /\ \A p \in Rows' : /\ payment'[p].gpid = "gateway" => p \in captured'
                               /\ payment'[p].gpid = "mock" => MockWebhook
<1>1. RecordedCaptureGrants'
  <2> SUFFICES ASSUME NEW p \in Rows', payment'[p].gpid # NoId \/ payment'[p].status = "SUCCESS"
               PROVE  progress'[payment'[p].user].paid
    BY DEF RecordedCaptureGrants
  <2>1. p \in Rows
    OBVIOUS
  <2>2. progress[payment[p].user].paid /\ payment[p].user \in Users
    BY <2>1 DEF Money, RecordedCaptureGrants, TypeInv, TypeOK, Rows, Absent, PaymentRow
  <2> QED
    BY <2>1, <2>2
<1>2. AccessWasPaidFor'
  <2>1. Settled \subseteq Settled'
    BY Zenon DEF Settled
  <2>2. \A p \in Settled : payment'[p].user = payment[p].user
    BY DEF Settled
  <2> QED
    BY <2>1, <2>2 DEF Money, AccessWasPaidFor
<1>3. \A p \in Rows' : payment'[p].gpid # NoId => p \in Rows /\ payment[p].gpid = payment'[p].gpid
  OBVIOUS
<1>4. ASSUME NEW p \in Rows'
      PROVE  /\ payment'[p].gpid = "gateway" => p \in captured'
             /\ payment'[p].gpid = "mock" => MockWebhook
  <2>1. CASE payment'[p].gpid = NoId
    BY <2>1 DEF NoId
  <2>2. CASE payment'[p].gpid # NoId
    <3>1. p \in Rows /\ payment[p].gpid = payment'[p].gpid
      BY <1>3, <1>4, <2>2
    <3>2. payment[p].gpid = "gateway" => p \in captured
      BY Zenon, <3>1 DEF Money, CapturesBacked
    <3>3. payment[p].gpid = "mock" => MockWebhook
      BY Zenon, <3>1 DEF Money, CapturesBacked
    <3>4. payment[p].gpid = "gateway" => p \in captured'
      BY Zenon, <3>2
    <3> QED
      BY Zenon, <3>1, <3>3, <3>4
  <2> QED
    BY <2>1, <2>2
<1> QED
  BY <1>1, <1>2, <1>4

\* A step that makes no mock callback of a handler leaves mock callbacks to mock
\* mode.
LEMMA MockFrame ==
    ASSUME Money,
           \A g \in Handlers :
              \/ call'[g] = call[g]
              \/ call'[g] \notin CaptureCall
              \/ call[g] \in CaptureCall /\ call'[g].gpid = call[g].gpid
    PROVE  \A g \in Handlers : call'[g] \in CaptureCall /\ call'[g].gpid = "mock" => MockWebhook
BY Zenon DEF Money, CapturesBacked

\* What the other handlers are doing does not change when one moves on.
LEMMA OthersStay ==
    ASSUME TypeInv, NEW h \in Handlers, NEW v, call' = [call EXCEPT ![h] = v]
    PROVE  \A g \in Handlers : call'[g] = IF g = h THEN v ELSE call[g]
BY DEF TypeInv, TypeOK

\* A payment that fails only changes its status.
LEMMA FailedRowKeeps ==
    ASSUME NEW r \in PaymentRow
    PROVE  LET f == [r EXCEPT !.status = "FAILED"]
           IN  /\ f.user = r.user /\ f.coupon = r.coupon /\ f.due = r.due /\ f.gpid = r.gpid
               /\ f.status # "SUCCESS"
BY DEF PaymentRow

\* A row is a payment row.
LEMMA RowType == ASSUME TypeInv, NEW p \in Rows
                 PROVE  payment[p] \in PaymentRow /\ payment[p].user \in Users
BY DEF TypeInv, TypeOK, Rows, Absent, PaymentRow

\* The frame of a step that only opens, moves or ends a handler.
LEMMA HandlerFrame ==
    ASSUME TypeInv, Money, UNCHANGED <<progress, payment, captured>>
    PROVE  /\ RecordedCaptureGrants'
           /\ AccessWasPaidFor'
           /\ \A p \in Rows' : /\ payment'[p].gpid = "gateway" => p \in captured'
                               /\ payment'[p].gpid = "mock" => MockWebhook
<1>1. Rows' = Rows
  BY DEF Rows
<1> QED
  BY <1>1, MoneyFrame

\* A step that gives access to the user of an order that accounts for it keeps
\* money and access together.
LEMMA AccessGiven ==
    ASSUME TypeInv, Money, UNCHANGED <<captured, timers>>,
           NEW p \in Rows', NEW w \in Users,
           Rows' = Rows \cup {p},
           \A q \in Rows \ {p} : payment'[q] = payment[q],
           payment'[p].user = w,
           p \in captured \/ payment'[p].due = 0 \/ MockWebhook,
           p \in Rows => payment'[p].due = payment[p].due /\ payment[p].user = w,
           payment'[p].gpid = "gateway" => p \in captured,
           payment'[p].gpid = "mock" => MockWebhook,
           progress'[w].paid,
           \A u \in Users : u # w => progress'[u] = progress[u],
           \A g \in Handlers : call'[g] \in CaptureCall /\ call'[g].gpid = "mock" => MockWebhook
    PROVE  Money'
<1>1. RecordedCaptureGrants'
  <2> SUFFICES ASSUME NEW q \in Rows', payment'[q].gpid # NoId \/ payment'[q].status = "SUCCESS"
               PROVE  progress'[payment'[q].user].paid
    BY DEF RecordedCaptureGrants
  <2>1. CASE q = p
    BY <2>1
  <2>2. CASE q # p
    <3>1. q \in Rows /\ payment'[q] = payment[q]
      BY <2>2
    <3>2. progress[payment[q].user].paid /\ payment[q].user \in Users
      BY <3>1, RowType DEF Money, RecordedCaptureGrants
    <3> QED
      BY <3>1, <3>2
  <2> QED
    BY <2>1, <2>2
<1>2. AccessWasPaidFor'
  <2>1. p \in Settled'
    BY Zenon DEF Settled
  <2>2. \A q \in Settled : q # p => q \in Settled' /\ payment'[q].user = payment[q].user
    BY Zenon DEF Settled
  <2> SUFFICES ASSUME NEW u \in Users, progress'[u].paid
               PROVE  \E q \in Settled' : payment'[q].user = u
    BY DEF AccessWasPaidFor
  <2>3. CASE u = w
    BY <2>1, <2>3
  <2>4. CASE u # w
    <3>1. PICK q \in Settled : payment[q].user = u
      BY <2>4 DEF Money, AccessWasPaidFor
    <3>2. q # p
      BY <2>4, <3>1 DEF Settled
    <3> QED
      BY <2>2, <3>1, <3>2
  <2> QED
    BY <2>3, <2>4
<1>3. \A q \in Rows' : /\ payment'[q].gpid = "gateway" => q \in captured'
                       /\ payment'[q].gpid = "mock" => MockWebhook
  BY Zenon DEF Money, CapturesBacked
<1>4. ~MockWebhook => timers' = {}
  BY Zenon DEF Money, CapturesBacked
<1> QED
  BY <1>1, <1>2, <1>3, <1>4 DEF Money, CapturesBacked

\* Money and access stay together in every step of the program.
LEMMA MoneyStep == TypeInv /\ Money /\ [Next]_vars => Money'
<1> SUFFICES ASSUME TypeInv, Money, [Next]_vars
             PROVE  Money'
  OBVIOUS
<1> USE DEF database, coupons, gateway
<1>0. /\ TypeInv' /\ Rows \subseteq Rows'
      /\ Idle \in Calls /\ Idle \notin CaptureCall
  BY TypeStep, OrderIsNoCapture DEF Calls
<1>a. CASE UNCHANGED vars
  <2>1. \A h \in Handlers : call'[h] \in CaptureCall /\ call'[h].gpid = "mock" => MockWebhook
    BY <1>a, MockFrame DEF vars
  <2> QED
    BY <1>a, <2>1, HandlerFrame DEF vars, Money, CapturesBacked
<1>b. ASSUME NEW h \in Handlers, NEW u \in Users, NEW c \in Coupons \cup {NoCoupon},
             NEW amount \in Prices, CreateOrder(h, u, c, amount)
      PROVE  Money'
  <2> DEFINE order == [at |-> "order", user |-> u, step |-> progress[u].step, coupon |-> c,
                   amount |-> amount]
  <2>0. call' = [call EXCEPT ![h] = order] /\ order \notin CaptureCall
    BY <1>b DEF CreateOrder, CaptureCall
  <2>1. PICK v : call' = [call EXCEPT ![h] = v] /\ v \notin CaptureCall
    BY Zenon, <2>0
  <2>2. \A g \in Handlers : call'[g] \in CaptureCall /\ call'[g].gpid = "mock" => MockWebhook
    BY <2>1, OthersStay, MockFrame
  <2> QED
    BY <1>b, <2>2, HandlerFrame DEF CreateOrder, Money, CapturesBacked
<1>c. ASSUME NEW h \in Handlers, CheckPending(h)
      PROVE  Money'
  <2>1. PICK v : call' = [call EXCEPT ![h] = v] /\ v \notin CaptureCall
    BY <1>0, <1>c, OrderFacts, OrderIsNoCapture DEF CheckPending, End, TypeInv, OrderCall, CaptureCall
  <2>2. \A g \in Handlers : call'[g] \in CaptureCall /\ call'[g].gpid = "mock" => MockWebhook
    BY <2>1, OthersStay, MockFrame
  <2> QED
    BY <1>c, <2>2, HandlerFrame DEF CheckPending, Money, CapturesBacked
<1>d. ASSUME NEW h \in Handlers, RejectOrder(h)
      PROVE  Money'
  <2>1. PICK v : call' = [call EXCEPT ![h] = v] /\ v \notin CaptureCall
    BY <1>0, <1>d DEF RejectOrder, End
  <2>2. \A g \in Handlers : call'[g] \in CaptureCall /\ call'[g].gpid = "mock" => MockWebhook
    BY <2>1, OthersStay, MockFrame
  <2> QED
    BY <1>d, <2>2, HandlerFrame DEF RejectOrder, Money, CapturesBacked
<1>e. ASSUME NEW h \in Handlers, NEW p \in Payments, AdminExpire(h, p)
      PROVE  Money'
  <2>0. /\ call' = [call EXCEPT ![h] = [at |-> "expire", pay |-> p]]
        /\ [at |-> "expire", pay |-> p] \notin CaptureCall
    BY <1>e DEF AdminExpire, CaptureCall
  <2>1. PICK v : call' = [call EXCEPT ![h] = v] /\ v \notin CaptureCall
    BY Zenon, <2>0
  <2>2. \A g \in Handlers : call'[g] \in CaptureCall /\ call'[g].gpid = "mock" => MockWebhook
    BY <2>1, OthersStay, MockFrame
  <2> QED
    BY <1>e, <2>2, HandlerFrame DEF AdminExpire, Money, CapturesBacked
<1>f. ASSUME NEW h \in Handlers, AbortCapture(h)
      PROVE  Money'
  <2>1. PICK v : call' = [call EXCEPT ![h] = v] /\ v \notin CaptureCall
    BY <1>0, <1>f DEF AbortCapture, Answer, End
  <2>2. \A g \in Handlers : call'[g] \in CaptureCall /\ call'[g].gpid = "mock" => MockWebhook
    BY <2>1, OthersStay, MockFrame
  <2> QED
    BY <1>f, <2>2, HandlerFrame DEF AbortCapture, Answer, Money, CapturesBacked
<1>g. ASSUME NEW h \in Handlers, CheckProcessed(h)
      PROVE  Money'
  <2>1. call[h] \in CaptureCall
    BY <1>g, CaptureFacts DEF CheckProcessed, TypeInv
  <2>2. PICK v : /\ call' = [call EXCEPT ![h] = v]
                 /\ v \notin CaptureCall \/ v.gpid = call[h].gpid
    BY <1>0, <1>g, <2>1 DEF CheckProcessed, CaptureCall, Answer, End
  <2>3. \A g \in Handlers : call'[g] \in CaptureCall /\ call'[g].gpid = "mock" => MockWebhook
    <3>0. call' = [call EXCEPT ![h] = v]
      BY <2>2
    <3>1. \A g \in Handlers : call'[g] = IF g = h THEN v ELSE call[g]
      BY <3>0, OthersStay
    <3> QED
      BY Zenon, <2>1, <2>2, <3>1, MockFrame
  <2> QED
    BY <1>g, <2>3, HandlerFrame DEF CheckProcessed, Money, CapturesBacked, Answer, End
<1>h. ASSUME NEW h \in Handlers, ReadProgress(h)
      PROVE  Money'
  <2>1. call[h] \in CaptureCall
    BY <1>h, CaptureFacts DEF ReadProgress, TypeInv
  <2> DEFINE w == [call[h] EXCEPT !.at = "commit",
                                 !.step = StepToComplete(payment[call[h].pay].user)]
  <2>a. call' = [call EXCEPT ![h] = w] /\ w.gpid = call[h].gpid
    BY <1>h, <2>1 DEF ReadProgress, CaptureCall
  <2>2. PICK v : /\ call' = [call EXCEPT ![h] = v]
                 /\ v \notin CaptureCall \/ v.gpid = call[h].gpid
    BY Zenon, <2>a
  <2>3. \A g \in Handlers : call'[g] \in CaptureCall /\ call'[g].gpid = "mock" => MockWebhook
    <3>0. call' = [call EXCEPT ![h] = v]
      BY <2>2
    <3>1. \A g \in Handlers : call'[g] = IF g = h THEN v ELSE call[g]
      BY <3>0, OthersStay
    <3> QED
      BY Zenon, <2>1, <2>2, <3>1, MockFrame
  <2> QED
    BY <1>h, <2>3, HandlerFrame DEF ReadProgress, Money, CapturesBacked
<1>i. ASSUME NEW h \in Handlers, ReadInvoice(h)
      PROVE  Money'
  <2>1. call[h] \in CaptureCall
    BY <1>i, CaptureFacts DEF ReadInvoice, TypeInv
  <2> DEFINE w == [call[h] EXCEPT !.at = "invoice.write", !.number = LastInvoice + 1]
  <2>a. call' = [call EXCEPT ![h] = w] /\ w.gpid = call[h].gpid
    BY <1>i, <2>1 DEF ReadInvoice, CaptureCall
  <2>2. PICK v : /\ call' = [call EXCEPT ![h] = v]
                 /\ v \notin CaptureCall \/ v.gpid = call[h].gpid
    BY Zenon, <2>a
  <2>3. \A g \in Handlers : call'[g] \in CaptureCall /\ call'[g].gpid = "mock" => MockWebhook
    <3>0. call' = [call EXCEPT ![h] = v]
      BY <2>2
    <3>1. \A g \in Handlers : call'[g] = IF g = h THEN v ELSE call[g]
      BY <3>0, OthersStay
    <3> QED
      BY Zenon, <2>1, <2>2, <3>1, MockFrame
  <2> QED
    BY <1>i, <2>3, HandlerFrame DEF ReadInvoice, Money, CapturesBacked
<1>j. ASSUME NEW h \in Handlers, NEW p \in Payments, DeliverCaptured(h, p)
      PROVE  Money'
  <2> DEFINE v == [at |-> "hook", pay |-> p, gpid |-> "gateway", step |-> NoStep,
                   number |-> 0]
  <2>1. call' = [call EXCEPT ![h] = v] /\ v.gpid # "mock"
    BY <1>j DEF DeliverCaptured
  <2>2. \A g \in Handlers : call'[g] \in CaptureCall /\ call'[g].gpid = "mock" => MockWebhook
    <3>1. \A g \in Handlers : call'[g] = IF g = h THEN v ELSE call[g]
      <4> HIDE DEF v
      <4> QED
        BY <2>1, OthersStay
    <3> HIDE DEF v
    <3> QED
      BY Zenon, <2>1, <3>1 DEF Money, CapturesBacked
  <2> QED
    BY <1>j, <2>2, HandlerFrame DEF DeliverCaptured, Money, CapturesBacked
<1>k. ASSUME NEW h \in Handlers, NEW p \in Payments, MockFires(h, p)
      PROVE  Money'
  <2>1. MockWebhook
    BY Zenon, <1>k DEF MockFires, Money, CapturesBacked
  <2>2. \A g \in Handlers : call'[g] \in CaptureCall /\ call'[g].gpid = "mock" => MockWebhook
    BY Zenon, <2>1
  <2> QED
    BY Zenon, <1>k, <2>1, <2>2, HandlerFrame DEF MockFires, Money, CapturesBacked
<1>l. ASSUME NEW h \in Handlers, OpenOrder(h)
      PROVE  Money'
  <2>1. call[h] \in OrderCall
    BY <1>l, OrderFacts DEF OpenOrder, TypeInv
  <2>2. PICK p \in Payments \ Rows :
           /\ payment' = [payment EXCEPT ![p] =
                 [status |-> "PENDING", user |-> call[h].user, coupon |-> call[h].coupon,
                  due |-> Final(call[h].coupon, call[h].amount), gpid |-> NoId, invoice |-> 0]]
           /\ timers' = ScheduleMock(p)
    BY <1>l DEF OpenOrder
  <2>3. Rows' = Rows \cup {p}
    BY <2>2 DEF Rows, TypeInv, TypeOK
  <2>4. /\ \A q \in Rows : payment'[q] = payment[q]
        /\ \A q \in Rows' \ Rows : payment'[q].gpid = NoId /\ payment'[q].status = "PENDING"
    BY <2>2, <2>3 DEF Rows, TypeInv, TypeOK
  <2>5. UNCHANGED <<progress, captured>>
    BY <1>l DEF OpenOrder
  <2>6. /\ RecordedCaptureGrants'
        /\ AccessWasPaidFor'
        /\ \A q \in Rows' : /\ payment'[q].gpid = "gateway" => q \in captured'
                            /\ payment'[q].gpid = "mock" => MockWebhook
    BY <1>0, <2>4, <2>5, MoneyFrame
  <2>7. \A g \in Handlers : call'[g] \in CaptureCall /\ call'[g].gpid = "mock" => MockWebhook
    BY <1>0, <1>l, OthersStay, MockFrame DEF OpenOrder, End
  <2>8. ~MockWebhook => timers' = {}
    BY Zenon, <2>2 DEF ScheduleMock, Money, CapturesBacked
  <2> QED
    BY <2>6, <2>7, <2>8 DEF Money, CapturesBacked
<1>m. ASSUME NEW h \in Handlers, WriteInvoice(h)
      PROVE  Money'
  <2> DEFINE p == call[h].pay
  <2>1. p \in Rows
    BY <1>m, CaptureFacts DEF WriteInvoice, TypeInv
  <2>2. \A q \in Rows : payment[q] \in PaymentRow
    BY RowType
  <2>3. /\ Rows' = Rows
        /\ \A q \in Rows : /\ payment'[q].user = payment[q].user
                           /\ payment'[q].due = payment[q].due
                           /\ payment'[q].gpid = payment[q].gpid
                           /\ payment'[q].status = payment[q].status
    BY <1>m, <2>1, <2>2 DEF WriteInvoice, Rows, TypeInv, TypeOK, PaymentRow
  <2>4. UNCHANGED <<progress, captured, timers>>
    BY <1>m DEF WriteInvoice
  <2>5. /\ RecordedCaptureGrants'
        /\ AccessWasPaidFor'
        /\ \A q \in Rows' : /\ payment'[q].gpid = "gateway" => q \in captured'
                            /\ payment'[q].gpid = "mock" => MockWebhook
    BY <2>3, <2>4, MoneyFrame
  <2>6. \A g \in Handlers : call'[g] \in CaptureCall /\ call'[g].gpid = "mock" => MockWebhook
    BY <1>0, <1>m, OthersStay, MockFrame DEF WriteInvoice, Answer, End
  <2> QED
    BY <2>4, <2>5, <2>6 DEF Money, CapturesBacked
<1>n. ASSUME NEW h \in Handlers, WriteExpired(h)
      PROVE  Money'
  <2> DEFINE p == call[h].pay
  <2>1. p \in Rows
    BY <1>n DEF WriteExpired, TypeInv, TypeOK, CallsOnRows, Idle, OrderCall, CaptureCall
  <2>2. \A q \in Rows : payment[q] \in PaymentRow
    BY RowType
  <2>3. /\ Rows' = Rows
        /\ \A q \in Rows : /\ payment'[q].user = payment[q].user
                           /\ payment'[q].due = payment[q].due
                           /\ payment'[q].gpid = payment[q].gpid
                           /\ (payment'[q].status = "SUCCESS" => payment[q].status = "SUCCESS")
    BY <1>n, <2>1, <2>2 DEF WriteExpired, Rows, TypeInv, TypeOK, PaymentRow
  <2>4. UNCHANGED <<progress, captured, timers>>
    BY <1>n DEF WriteExpired
  <2>5. /\ RecordedCaptureGrants'
        /\ AccessWasPaidFor'
        /\ \A q \in Rows' : /\ payment'[q].gpid = "gateway" => q \in captured'
                            /\ payment'[q].gpid = "mock" => MockWebhook
    BY <2>3, <2>4, MoneyFrame
  <2>6. \A g \in Handlers : call'[g] \in CaptureCall /\ call'[g].gpid = "mock" => MockWebhook
    BY <1>0, <1>n, OthersStay, MockFrame DEF WriteExpired, End
  <2> QED
    BY <2>4, <2>5, <2>6 DEF Money, CapturesBacked
<1>o. ASSUME NEW p \in Payments, Pay(p)
      PROVE  Money'
  <2>1. /\ Rows' = Rows /\ captured \subseteq captured'
        /\ UNCHANGED <<progress, payment, call, timers>>
    BY <1>o DEF Pay, Rows
  <2>2. /\ RecordedCaptureGrants'
        /\ AccessWasPaidFor'
        /\ \A q \in Rows' : /\ payment'[q].gpid = "gateway" => q \in captured'
                            /\ payment'[q].gpid = "mock" => MockWebhook
    BY <2>1, MoneyFrame
  <2>3. \A g \in Handlers : call'[g] \in CaptureCall /\ call'[g].gpid = "mock" => MockWebhook
    BY <2>1, MockFrame
  <2> QED
    BY <2>1, <2>2, <2>3 DEF Money, CapturesBacked
<1>p. ASSUME NEW p \in Payments, FailedWebhook(p)
      PROVE  Money'
  <2>1. \A q \in Rows : payment[q] \in PaymentRow
    BY RowType
  <2>2. /\ Rows' = Rows
        /\ \A q \in Rows : /\ payment'[q].user = payment[q].user
                           /\ payment'[q].due = payment[q].due
                           /\ payment'[q].gpid = payment[q].gpid
                           /\ (payment'[q].status = "SUCCESS" => payment[q].status = "SUCCESS")
    BY <1>p, <2>1 DEF FailedWebhook, Rows, TypeInv, TypeOK, PaymentRow
  <2>3. UNCHANGED <<progress, captured, timers, call>>
    BY <1>p DEF FailedWebhook
  <2>4. /\ RecordedCaptureGrants'
        /\ AccessWasPaidFor'
        /\ \A q \in Rows' : /\ payment'[q].gpid = "gateway" => q \in captured'
                            /\ payment'[q].gpid = "mock" => MockWebhook
    BY <2>2, <2>3, MoneyFrame
  <2>5. \A g \in Handlers : call'[g] \in CaptureCall /\ call'[g].gpid = "mock" => MockWebhook
    BY <2>3, MockFrame
  <2> QED
    BY <2>3, <2>4, <2>5 DEF Money, CapturesBacked
<1>q. ASSUME ExpireStalePayments
      PROVE  Money'
  <2>0. PICK old \in SUBSET {p \in Rows : payment[p].status = "PENDING"} :
           payment' = [p \in Payments |->
               IF p \in old THEN [payment[p] EXCEPT !.status = "FAILED"] ELSE payment[p]]
    BY <1>q DEF ExpireStalePayments
  <2>1. \A q \in Rows : payment[q] \in PaymentRow
    BY RowType
  <2>2. /\ Rows' = Rows
        /\ \A q \in Rows : /\ payment'[q].user = payment[q].user
                           /\ payment'[q].due = payment[q].due
                           /\ payment'[q].gpid = payment[q].gpid
                           /\ (payment'[q].status = "SUCCESS" => payment[q].status = "SUCCESS")
    BY <2>0, <2>1 DEF Rows, PaymentRow
  <2>3. UNCHANGED <<progress, captured, timers, call>>
    BY <1>q DEF ExpireStalePayments
  <2>4. /\ RecordedCaptureGrants'
        /\ AccessWasPaidFor'
        /\ \A q \in Rows' : /\ payment'[q].gpid = "gateway" => q \in captured'
                            /\ payment'[q].gpid = "mock" => MockWebhook
    BY <2>2, <2>3, MoneyFrame
  <2>5. \A g \in Handlers : call'[g] \in CaptureCall /\ call'[g].gpid = "mock" => MockWebhook
    BY <2>3, MockFrame
  <2> QED
    BY <2>3, <2>4, <2>5 DEF Money, CapturesBacked
<1>r. ASSUME NEW u \in Users, FunnelMove(u)
      PROVE  Money'
  <2>1. progress[u] \in ProgressRow /\ progress[u].step \in Steps
    BY <1>r DEF FunnelMove, TypeInv, TypeOK, ProgressRow
  <2>2. \A w \in Users : progress'[w].paid = progress[w].paid
    BY <1>r, <2>1, MovedRowType DEF FunnelMove, TypeInv, TypeOK
  <2>3. Rows' = Rows /\ UNCHANGED <<payment, captured, timers, call>>
    BY <1>r DEF FunnelMove, Rows
  <2>4. /\ RecordedCaptureGrants'
        /\ AccessWasPaidFor'
        /\ \A q \in Rows' : /\ payment'[q].gpid = "gateway" => q \in captured'
                            /\ payment'[q].gpid = "mock" => MockWebhook
    BY <2>2, <2>3, MoneyFrame
  <2>5. \A g \in Handlers : call'[g] \in CaptureCall /\ call'[g].gpid = "mock" => MockWebhook
    BY <2>3, MockFrame
  <2> QED
    BY <2>3, <2>4, <2>5 DEF Money, CapturesBacked
<1>s. ASSUME Crash
      PROVE  Money'
  <2>1. \A g \in Handlers : call'[g] \in CaptureCall /\ call'[g].gpid = "mock" => MockWebhook
    BY <1>0, <1>s, MockFrame DEF Crash
  <2> QED
    BY <1>s, <2>1, HandlerFrame DEF Crash, Money, CapturesBacked
<1>t. ASSUME NEW h \in Handlers, GrantFree(h)
      PROVE  Money'
  <2>1. /\ call[h] \in OrderCall /\ call[h].user \in Users /\ call[h].step \in Steps
        /\ Final(call[h].coupon, call[h].amount) = 0
        /\ UNCHANGED <<captured, timers>>
    BY <1>t, OrderFacts DEF GrantFree, TypeInv
  <2>2. \A g \in Handlers : call'[g] \in CaptureCall /\ call'[g].gpid = "mock" => MockWebhook
    BY <1>0, <1>t, OthersStay, MockFrame DEF GrantFree, End
  <2>3. CASE UNCHANGED <<payment, progress>>
    BY <2>1, <2>2, <2>3, HandlerFrame DEF Money, CapturesBacked
  <2>4. ASSUME NEW p \in Payments \ Rows,
               payment' = [payment EXCEPT ![p] =
                   [status |-> "SUCCESS", user |-> call[h].user, coupon |-> call[h].coupon,
                    due |-> 0, gpid |-> NoId, invoice |-> 0]],
               progress' = [progress EXCEPT ![call[h].user] = PaidRow(@, call[h].step)]
        PROVE  Money'
    <3>1. /\ Rows' = Rows \cup {p}
          /\ \A q \in Rows : payment'[q] = payment[q]
          /\ payment'[p].user = call[h].user /\ payment'[p].due = 0
          /\ payment'[p].gpid = NoId
      BY <2>4 DEF Rows, TypeInv, TypeOK
    <3>2. progress'[call[h].user].paid
      BY <2>1, <2>4, PaidRowType DEF TypeInv, TypeOK
    <3>3. \A u \in Users : u # call[h].user => progress'[u] = progress[u]
      BY <2>4 DEF TypeInv, TypeOK
    <3> QED
      <4>1. p \in Rows' /\ p \notin Rows
        BY <3>1
      <4>2. /\ p \in captured \/ payment'[p].due = 0 \/ MockWebhook
            /\ payment'[p].gpid # "gateway" /\ payment'[p].gpid # "mock"
        BY <2>1, <3>1 DEF NoId
      <4> QED
        BY <2>1, <2>2, <3>1, <3>2, <3>3, <4>1, <4>2, AccessGiven
  <2> QED
    BY <1>t, <2>3, <2>4 DEF GrantFree
<1>u. ASSUME NEW h \in Handlers, CommitCapture(h)
      PROVE  Money'
  <2> DEFINE p == call[h].pay
             w == payment[p].user
  <2>1. /\ call[h] \in CaptureCall /\ p \in Rows /\ payment[p] \in PaymentRow
        /\ call[h].gpid = "gateway" => p \in captured
    BY <1>u, CaptureFacts DEF CommitCapture, TypeInv
  <2>2. /\ call[h].gpid \in {"gateway", "mock"} /\ call[h].step \in Steps \cup {NoStep}
        /\ w \in Users
    BY <2>1 DEF CaptureCall, PaymentRow
  <2>3. call[h].gpid = "mock" => MockWebhook
    BY Zenon, <2>1 DEF Money, CapturesBacked
  <2>4. \A g \in Handlers : call'[g] \in CaptureCall /\ call'[g].gpid = "mock" => MockWebhook
    <3>1. call' = [call EXCEPT ![h] = [call[h] EXCEPT !.at = "invoice"]]
      BY <1>u DEF CommitCapture
    <3>2. \A g \in Handlers : call'[g] = IF g = h THEN [call[h] EXCEPT !.at = "invoice"] ELSE call[g]
      BY <3>1, OthersStay
    <3>3. [call[h] EXCEPT !.at = "invoice"].gpid = call[h].gpid
      BY <2>1 DEF CaptureCall
    <3> QED
      BY Zenon, <2>1, <3>2, <3>3, MockFrame
  <2>5. /\ Rows' = Rows
        /\ \A q \in Rows \ {p} : payment'[q] = payment[q]
        /\ payment'[p].user = w /\ payment'[p].due = payment[p].due
        /\ payment'[p].gpid = call[h].gpid
    BY <1>u, <2>1 DEF CommitCapture, Rows, TypeInv, TypeOK, PaymentRow, Statuses
  <2>6. progress'[w].paid
    BY <1>u, <2>2, PaidRowType DEF CommitCapture, TypeInv, TypeOK
  <2>7. \A u \in Users : u # w => progress'[u] = progress[u]
    BY <1>u DEF CommitCapture, TypeInv, TypeOK
  <2>8. UNCHANGED <<captured, timers>>
    BY <1>u DEF CommitCapture
  <2> QED
    BY <2>1, <2>2, <2>3, <2>4, <2>5, <2>6, <2>7, <2>8, AccessGiven
<1> QED
  BY <1>a, <1>b, <1>c, <1>d, <1>e, <1>f, <1>g, <1>h, <1>i, <1>j, <1>k, <1>l, <1>m,
     <1>n, <1>o, <1>p, <1>q, <1>r, <1>s, <1>t, <1>u DEF Next, Continue

LEMMA MoneyInit == Init => Money
<1> SUFFICES ASSUME Init
             PROVE  Money
  OBVIOUS
<1>1. Rows = {}
  BY DEF Init, Rows, Absent
<1>2. \A u \in Users : ~progress[u].paid
  BY DEF Init, NewRow
<1>3. Idle \notin CaptureCall
  BY OrderIsNoCapture
<1> QED
  BY <1>1, <1>2, <1>3 DEF Init, Money, CapturesBacked, RecordedCaptureGrants, AccessWasPaidFor

\* However orders, callbacks, expiries and restarts interleave, and for every
\* funnel and price, nobody is past the fee without an order that accounts for it
\* (createOrder, processSuccessfulPayment).
THEOREM AccessIsPaidFor == Spec => []AccessWasPaidFor
<1>1. Init => TypeInv /\ Money
  BY TypeInit, MoneyInit
<1>2. (TypeInv /\ Money) /\ [Next]_vars => (TypeInv /\ Money)'
  BY TypeStep, MoneyStep
<1>3. TypeInv /\ Money => AccessWasPaidFor
  BY DEF Money
<1> QED
  BY <1>1, <1>2, <1>3, PTL DEF Spec

\* A payment on record as captured has always given its user access
\* (processSuccessfulPayment writes both in one transaction, and nothing that
\* expires a payment takes the record away).
THEOREM CapturesGrant == Spec => []RecordedCaptureGrants
<1>1. Init => TypeInv /\ Money
  BY TypeInit, MoneyInit
<1>2. (TypeInv /\ Money) /\ [Next]_vars => (TypeInv /\ Money)'
  BY TypeStep, MoneyStep
<1>3. TypeInv /\ Money => RecordedCaptureGrants
  BY DEF Money
<1> QED
  BY <1>1, <1>2, <1>3, PTL DEF Spec

----------------------------------------------------------------------------
(* Coupons *)

CouponInv == OneOrderPerCouponUse /\ CouponsWithinLimit

\* Who has used a coupon.
UsersOf(c) == {u \in Users : <<c, u>> \in couponUse}

\* A step that leaves the coupons, and whose order is whose, alone.
LEMMA CouponFrame ==
    ASSUME CouponInv, UNCHANGED coupons, Rows' = Rows,
           \A p \in Rows : /\ payment'[p].user = payment[p].user
                           /\ payment'[p].coupon = payment[p].coupon
    PROVE  CouponInv'
<1>1. OneOrderPerCouponUse'
  BY DEF CouponInv, OneOrderPerCouponUse, coupons
<1>2. CouponsWithinLimit'
  BY DEF CouponInv, CouponsWithinLimit, coupons
<1> QED
  BY <1>1, <1>2 DEF CouponInv

\* A use of a coupon that was not there yet, and that finds room, is counted.
LEMMA CouponUsed ==
    ASSUME TypeInv, CouponsWithinLimit, NEW c \in Coupons, NEW u \in Users,
           CanConsume(c, u),
           couponUse' = couponUse \cup {<<c, u>>}, usedCount' = Counted(c)
    PROVE  CouponsWithinLimit'
<1> SUFFICES ASSUME NEW d \in Coupons, UsageLimit[d] # Unlimited
             PROVE  /\ usedCount'[d] = Cardinality(UsersOf(d)')
                    /\ usedCount'[d] <= UsageLimit[d]
  BY DEF CouponsWithinLimit, UsersOf
<1>0. /\ usedCount[d] = Cardinality(UsersOf(d)) /\ usedCount[d] <= UsageLimit[d]
      /\ c # NoCoupon
  BY CouponAssumption DEF CouponsWithinLimit, UsersOf
<1>1. CASE d # c
  <2>1. UsersOf(d)' = UsersOf(d)
    BY <1>1 DEF UsersOf
  <2>2. usedCount'[d] = usedCount[d]
    BY <1>1, <1>0 DEF Counted, TypeInv, TypeOK
  <2> QED
    BY <1>0, <2>1, <2>2
<1>2. CASE d = c
  <2>1. IsFiniteSet(UsersOf(c))
    BY FiniteTablesAssumption, FS_Subset DEF UsersOf
  <2>2. UsersOf(c)' = UsersOf(c) \cup {u} /\ u \notin UsersOf(c)
    BY DEF UsersOf, CanConsume
  <2>3. Cardinality(UsersOf(c)') = Cardinality(UsersOf(c)) + 1
    BY <2>1, <2>2, FS_AddElement
  <2>4. usedCount'[c] = usedCount[c] + 1 /\ usedCount[c] < UsageLimit[c]
    BY <1>0, <1>2 DEF Counted, CanConsume, TypeInv, TypeOK
  <2>5. usedCount[c] \in Nat /\ UsageLimit[c] \in Nat
    BY <1>2, CouponAssumption DEF TypeInv, TypeOK
  <2> QED
    BY <1>0, <1>2, <2>3, <2>4, <2>5
<1> QED
  BY <1>1, <1>2

\* A new order holds the use of its coupon, and no other order does.
LEMMA OrderOpened ==
    ASSUME CouponInv, NEW p \in Payments \ Rows, NEW c \in Coupons \cup {NoCoupon},
           NEW u \in Users, c # NoCoupon => CanConsume(c, u),
           Rows' = Rows \cup {p}, \A q \in Rows : payment'[q] = payment[q],
           payment'[p].user = u, payment'[p].coupon = c, couponUse' = Consumed(c, u)
    PROVE  OneOrderPerCouponUse'
<1>1. /\ c # NoCoupon => <<c, u>> \in couponUse' /\ <<c, u>> \notin couponUse
      /\ couponUse \subseteq couponUse'
  BY DEF Consumed, CanConsume
<1>2. \A q \in Rows : payment[q].coupon # NoCoupon =>
                          <<payment[q].coupon, payment[q].user>> \in couponUse
  BY DEF CouponInv, OneOrderPerCouponUse
<1> QED
  BY <1>1, <1>2 DEF CouponInv, OneOrderPerCouponUse

\* Coupons are kept in order by every step of the program.
LEMMA CouponStep == TypeInv /\ CouponInv /\ [Next]_vars => CouponInv'
<1> SUFFICES ASSUME TypeInv, CouponInv, [Next]_vars
             PROVE  CouponInv'
  OBVIOUS
<1> USE DEF database, coupons, gateway
<1>0. \A q \in Rows : payment[q] \in PaymentRow
  BY RowType
<1>a. CASE UNCHANGED vars
  BY <1>a, CouponFrame DEF vars, Rows
<1>b. ASSUME NEW h \in Handlers, NEW u \in Users, NEW c \in Coupons \cup {NoCoupon},
             NEW amount \in Prices, CreateOrder(h, u, c, amount)
      PROVE  CouponInv'
  BY <1>b, CouponFrame DEF CreateOrder, Rows
<1>c. ASSUME NEW h \in Handlers, CheckPending(h)
      PROVE  CouponInv'
  BY <1>c, CouponFrame DEF CheckPending, Rows
<1>d. ASSUME NEW h \in Handlers, RejectOrder(h)
      PROVE  CouponInv'
  BY <1>d, CouponFrame DEF RejectOrder, Rows
<1>e. ASSUME NEW h \in Handlers, NEW p \in Payments, AdminExpire(h, p)
      PROVE  CouponInv'
  BY <1>e, CouponFrame DEF AdminExpire, Rows
<1>f. ASSUME NEW h \in Handlers, AbortCapture(h)
      PROVE  CouponInv'
  BY <1>f, CouponFrame DEF AbortCapture, Rows
<1>g. ASSUME NEW h \in Handlers, CheckProcessed(h)
      PROVE  CouponInv'
  BY <1>g, CouponFrame DEF CheckProcessed, Rows
<1>h. ASSUME NEW h \in Handlers, ReadProgress(h)
      PROVE  CouponInv'
  BY <1>h, CouponFrame DEF ReadProgress, Rows
<1>i. ASSUME NEW h \in Handlers, ReadInvoice(h)
      PROVE  CouponInv'
  BY <1>i, CouponFrame DEF ReadInvoice, Rows
<1>j. ASSUME NEW h \in Handlers, NEW p \in Payments, DeliverCaptured(h, p)
      PROVE  CouponInv'
  BY <1>j, CouponFrame DEF DeliverCaptured, Rows
<1>k. ASSUME NEW h \in Handlers, NEW p \in Payments, MockFires(h, p)
      PROVE  CouponInv'
  BY <1>k, CouponFrame DEF MockFires, Rows
<1>l. ASSUME NEW p \in Payments, Pay(p)
      PROVE  CouponInv'
  BY <1>l, CouponFrame DEF Pay, Rows
<1>m. ASSUME NEW u \in Users, FunnelMove(u)
      PROVE  CouponInv'
  BY <1>m, CouponFrame DEF FunnelMove, Rows
<1>n. ASSUME Crash
      PROVE  CouponInv'
  BY <1>n, CouponFrame DEF Crash, Rows
<1>o. ASSUME NEW h \in Handlers, WriteInvoice(h)
      PROVE  CouponInv'
  <2>1. call[h].pay \in Rows
    BY <1>o, CaptureFacts DEF WriteInvoice, TypeInv
  <2>2. /\ Rows' = Rows /\ UNCHANGED <<couponUse, usedCount>>
        /\ \A q \in Rows : /\ payment'[q].user = payment[q].user
                           /\ payment'[q].coupon = payment[q].coupon
    BY <1>0, <1>o, <2>1 DEF WriteInvoice, Rows, TypeInv, TypeOK, PaymentRow
  <2> QED
    BY <2>2, CouponFrame
<1>p. ASSUME NEW h \in Handlers, WriteExpired(h)
      PROVE  CouponInv'
  <2>1. call[h].pay \in Rows
    BY <1>p DEF WriteExpired, TypeInv, TypeOK, CallsOnRows, Idle, OrderCall, CaptureCall
  <2>2. /\ Rows' = Rows /\ UNCHANGED <<couponUse, usedCount>>
        /\ \A q \in Rows : /\ payment'[q].user = payment[q].user
                           /\ payment'[q].coupon = payment[q].coupon
    BY <1>0, <1>p, <2>1 DEF WriteExpired, Rows, TypeInv, TypeOK, PaymentRow
  <2> QED
    BY <2>2, CouponFrame
<1>q. ASSUME NEW p \in Payments, FailedWebhook(p)
      PROVE  CouponInv'
  <2>1. p \in Rows
    BY <1>q DEF FailedWebhook
  <2>2. /\ Rows' = Rows /\ UNCHANGED <<couponUse, usedCount>>
        /\ \A q \in Rows : /\ payment'[q].user = payment[q].user
                           /\ payment'[q].coupon = payment[q].coupon
    BY <1>0, <1>q, <2>1 DEF FailedWebhook, Rows, TypeInv, TypeOK, PaymentRow
  <2> QED
    BY <2>2, CouponFrame
<1>r. ASSUME ExpireStalePayments
      PROVE  CouponInv'
  <2>1. PICK old \in SUBSET {p \in Rows : payment[p].status = "PENDING"} :
           payment' = [p \in Payments |->
               IF p \in old THEN [payment[p] EXCEPT !.status = "FAILED"] ELSE payment[p]]
    BY <1>r DEF ExpireStalePayments
  <2>2. /\ Rows' = Rows
        /\ \A q \in Rows : /\ payment'[q].user = payment[q].user
                           /\ payment'[q].coupon = payment[q].coupon
    BY <1>0, <2>1 DEF Rows, PaymentRow
  <2>3. UNCHANGED <<couponUse, usedCount>>
    BY <1>r DEF ExpireStalePayments
  <2> QED
    BY <2>2, <2>3, CouponFrame
<1>s. ASSUME NEW h \in Handlers, OpenOrder(h)
      PROVE  CouponInv'
  <2> DEFINE c == call[h].coupon
             u == call[h].user
  <2>1. c \in Coupons \cup {NoCoupon} /\ u \in Users
    BY <1>s, OrderFacts DEF OpenOrder, TypeInv
  <2>2. /\ c # NoCoupon => CanConsume(c, u)
        /\ couponUse' = Consumed(c, u) /\ usedCount' = Counted(c)
    BY <1>s DEF OpenOrder
  <2>3. PICK p \in Payments \ Rows :
           payment' = [payment EXCEPT ![p] =
               [status |-> "PENDING", user |-> u, coupon |-> c,
                due |-> Final(c, call[h].amount), gpid |-> NoId, invoice |-> 0]]
    BY <1>s DEF OpenOrder
  <2>4. /\ Rows' = Rows \cup {p}
        /\ \A q \in Rows : payment'[q] = payment[q]
        /\ payment'[p].user = u /\ payment'[p].coupon = c
    BY <2>3 DEF Rows, TypeInv, TypeOK
  <2>5. OneOrderPerCouponUse'
    <3> HIDE DEF c, u
    <3> QED
      BY <2>1, <2>2, <2>4, OrderOpened
  <2>6. CouponsWithinLimit'
    <3>1. CASE c = NoCoupon
      <4>1. UNCHANGED <<couponUse, usedCount>>
        BY <2>2, <3>1 DEF Consumed, Counted
      <4> QED
        BY <4>1 DEF CouponInv, CouponsWithinLimit
    <3>2. CASE c # NoCoupon
      <4>1. couponUse' = couponUse \cup {<<c, u>>}
        BY <2>2, <3>2 DEF Consumed
      <4> HIDE DEF c, u
      <4> QED
        BY <2>1, <2>2, <3>2, <4>1, CouponUsed DEF CouponInv
    <3> QED
      BY <3>1, <3>2
  <2> QED
    BY <2>5, <2>6 DEF CouponInv
<1>t. ASSUME NEW h \in Handlers, GrantFree(h)
      PROVE  CouponInv'
  <2> DEFINE c == call[h].coupon
             u == call[h].user
  <2>1. c \in Coupons \cup {NoCoupon} /\ u \in Users /\ UNCHANGED <<couponUse, usedCount>>
    BY <1>t, OrderFacts DEF GrantFree, TypeInv
  <2>2. CASE UNCHANGED payment
    BY <2>1, <2>2, CouponFrame DEF Rows
  <2>3. CASE ~UNCHANGED payment
    <3>1. c = NoCoupon
      BY <1>t, <2>3 DEF GrantFree, Consumed
    <3>2. PICK p \in Payments \ Rows :
             payment' = [payment EXCEPT ![p] =
                 [status |-> "SUCCESS", user |-> u, coupon |-> c, due |-> 0,
                  gpid |-> NoId, invoice |-> 0]]
      BY <1>t, <2>3 DEF GrantFree
    <3>3. /\ Rows' = Rows \cup {p}
          /\ \A q \in Rows : payment'[q] = payment[q]
          /\ payment'[p].coupon = NoCoupon
      BY <3>1, <3>2 DEF Rows, TypeInv, TypeOK
    <3> QED
      BY <2>1, <3>3 DEF CouponInv, OneOrderPerCouponUse, CouponsWithinLimit
  <2> QED
    BY <2>2, <2>3
<1>u. ASSUME NEW h \in Handlers, CommitCapture(h)
      PROVE  CouponInv'
  <2> DEFINE p == call[h].pay
  <2>1. p \in Rows
    BY <1>u, CaptureFacts DEF CommitCapture, TypeInv
  <2>2. payment[p].coupon = NoCoupon
    BY <1>u, <2>1 DEF CommitCapture, UseConflict, CouponInv, OneOrderPerCouponUse
  <2>3. UNCHANGED <<couponUse, usedCount>>
    BY <1>u, <2>2 DEF CommitCapture, Consumed
  <2>4. /\ Rows' = Rows
        /\ \A q \in Rows : /\ payment'[q].user = payment[q].user
                           /\ payment'[q].coupon = payment[q].coupon
    BY <1>0, <1>u, <2>1 DEF CommitCapture, Rows, TypeInv, TypeOK, PaymentRow
  <2> QED
    BY <2>3, <2>4, CouponFrame
<1> QED
  BY <1>a, <1>b, <1>c, <1>d, <1>e, <1>f, <1>g, <1>h, <1>i, <1>j, <1>k, <1>l, <1>m,
     <1>n, <1>o, <1>p, <1>q, <1>r, <1>s, <1>t, <1>u DEF Next, Continue

LEMMA CouponInit == Init => CouponInv
<1> SUFFICES ASSUME Init
             PROVE  CouponInv
  OBVIOUS
<1>1. Rows = {}
  BY DEF Init, Rows, Absent
<1>2. \A c \in Coupons : {u \in Users : <<c, u>> \in couponUse} = {}
  BY DEF Init
<1>3. Cardinality({}) = 0
  BY FS_EmptySet
<1>4. \A c \in Coupons : UsageLimit[c] # Unlimited => 0 <= UsageLimit[c]
  BY CouponAssumption
<1> QED
  BY <1>1, <1>2, <1>3, <1>4 DEF Init, CouponInv, OneOrderPerCouponUse, CouponsWithinLimit

LEMMA CouponInductive == Spec => [](TypeInv /\ CouponInv)
<1>1. Init => TypeInv /\ CouponInv
  BY TypeInit, CouponInit
<1>2. (TypeInv /\ CouponInv) /\ [Next]_vars => (TypeInv /\ CouponInv)'
  BY TypeStep, CouponStep
<1> QED
  BY <1>1, <1>2, PTL DEF Spec

\* However many orders race for a limited coupon, for any number of users and any
\* limit, it is counted once per use and never beyond its limit (validateCouponInTx).
THEOREM CouponLimitKept == Spec => []CouponsWithinLimit
<1>1. TypeInv /\ CouponInv => CouponsWithinLimit
  BY DEF CouponInv
<1> QED
  BY CouponInductive, <1>1, PTL

\* A user's coupon never pays for two orders, whatever becomes of the first
\* (createOrder inserts the use and the order in one transaction).
THEOREM OneOrderPerCoupon == Spec => []OneOrderPerCouponUse
<1>1. TypeInv /\ CouponInv => OneOrderPerCouponUse
  BY DEF CouponInv
<1> QED
  BY CouponInductive, <1>1, PTL

----------------------------------------------------------------------------
(* The order of the steps *)

OrderInv == StepsInOrder /\ StepsHeldInOrder

\* Completing one more step, and only more, keeps what was before a step completed.
LEMMA DoneGrows ==
    ASSUME NEW r, NEW q, r.done \subseteq q.done, NEW s, AllBeforeDone(r, s)
    PROVE  AllBeforeDone(q, s)
BY DEF AllBeforeDone

\* Whoever completes step s after everything before it stands at a step after
\* everything before that (advanceToNextStep skips no step).
LEMMA NextInOrder ==
    ASSUME NEW s \in Steps, NEW r, AllBeforeDone(r, s),
           NEW q, q.done = r.done \cup {s}, q.step = NextStep(s), q.step # NoStep
    PROVE  AllBeforeDone(q, q.step)
<1>1. \A t \in Steps : Before(t, NextStep(s)) => t = s \/ Before(t, s)
  BY NextStepSkipsNone
<1> QED
  BY <1>1 DEF AllBeforeDone

\* The step of the user who pays.
LEMMA PaidInOrder ==
    ASSUME NEW r \in ProgressRow, NEW s \in Steps \cup {NoStep},
           s # NoStep => AllBeforeDone(r, s), PaidRow(r, s).step # NoStep
    PROVE  AllBeforeDone(PaidRow(r, s), PaidRow(r, s).step)
<1>1. s \in Steps
  BY DEF PaidRow, ProgressRow
<1>2. s # NoStep
  BY <1>1, LayoutAssumption
<1> DEFINE q == PaidRow(r, s)
<1>3. q.done = r.done \cup {s} /\ q.step = NextStep(s)
  BY <1>2 DEF PaidRow, ProgressRow
<1> HIDE DEF q
<1> QED
  BY <1>1, <1>2, <1>3, NextInOrder DEF q

\* The step of the user who completes the current one.
LEMMA MovedInOrder ==
    ASSUME NEW r \in ProgressRow, r.step \in Steps, AllBeforeDone(r, r.step),
           MovedRow(r).step # NoStep
    PROVE  AllBeforeDone(MovedRow(r), MovedRow(r).step)
<1> DEFINE q == MovedRow(r)
<1>1. q.done = r.done \cup {r.step} /\ q.step = NextStep(r.step)
  BY DEF MovedRow, ProgressRow
<1> HIDE DEF q
<1> QED
  BY <1>1, NextInOrder DEF q

\* A step that takes no completed step away, leaves every user at a step in order,
\* and every handler and new row with steps that are in order.
LEMMA OrderFrame ==
    ASSUME TypeInv, OrderInv,
           \A u \in Users : progress[u].done \subseteq progress'[u].done,
           \A u \in Users :
              progress'[u].step # NoStep => AllBeforeDone(progress'[u], progress'[u].step),
           \A p \in Rows : p \in Rows' /\ payment'[p].user = payment[p].user,
           \A p \in Rows' \ Rows :
              /\ payment'[p].user \in Users
              /\ \A g \in Gates : AllBeforeDone(progress[payment'[p].user], g),
           \A h \in Handlers : HoldsInOrder(call'[h])
    PROVE  OrderInv'
<1>1. StepsInOrder'
  BY DEF StepsInOrder, AllBeforeDone
<1>2. ASSUME NEW p \in Rows', NEW g \in Gates
      PROVE  AllBeforeDone(progress'[payment'[p].user], g)
  <2>1. payment'[p].user \in Users /\ AllBeforeDone(progress[payment'[p].user], g)
    BY <1>2, RowType DEF OrderInv, StepsHeldInOrder
  <2> QED
    BY <2>1, DoneGrows
<1>3. ASSUME NEW h \in Handlers
      PROVE  HoldsInOrder(call[h])'
  <2> DEFINE v == call'[h]
  <2>1. HoldsInOrder(v)
    BY <1>3
  <2>2. ASSUME v \in OrderCall
        PROVE  /\ StepType[v.step] = "PAYMENT_GATE"
               /\ AllBeforeDone(progress'[v.user], v.step)
    <3>1. v.user \in Users
      BY <2>2 DEF OrderCall
    <3>2. StepType[v.step] = "PAYMENT_GATE" /\ AllBeforeDone(progress[v.user], v.step)
      BY <2>1, <2>2 DEF HoldsInOrder
    <3> QED
      BY <3>1, <3>2, DoneGrows
  <2>3. ASSUME v \in CaptureCall, v.at = "commit", v.step # NoStep
        PROVE  /\ v.pay \in Rows'
               /\ AllBeforeDone(progress'[payment'[v.pay].user], v.step)
    <3>1. v.pay \in Rows /\ AllBeforeDone(progress[payment[v.pay].user], v.step)
      BY <2>1, <2>3 DEF HoldsInOrder
    <3>2. /\ v.pay \in Rows' /\ payment'[v.pay].user = payment[v.pay].user
          /\ payment[v.pay].user \in Users
      BY <3>1, RowType
    <3> QED
      BY <3>1, <3>2, DoneGrows
  <2> QED
    BY <2>2, <2>3 DEF HoldsInOrder, AllBeforeDone, Before
<1>4. StepsHeldInOrder'
  BY <1>2, <1>3 DEF StepsHeldInOrder, AllBeforeDone, Before
<1> QED
  BY <1>1, <1>4 DEF OrderInv

\* When one handler moves on to what holds its steps in order, every handler does.
LEMMA HandlersHold ==
    ASSUME TypeInv, OrderInv, NEW h \in Handlers, NEW v, HoldsInOrder(v),
           call' = [call EXCEPT ![h] = v]
    PROVE  \A g \in Handlers : HoldsInOrder(call'[g])
<1>1. \A g \in Handlers : call'[g] = IF g = h THEN v ELSE call[g]
  BY OthersStay
<1>2. \A g \in Handlers : HoldsInOrder(call[g])
  BY DEF OrderInv, StepsHeldInOrder
<1> QED
  BY <1>1, <1>2, Zenon

\* A step of a handler that leaves funnel and payments alone.
LEMMA OrderQuiet ==
    ASSUME TypeInv, OrderInv, UNCHANGED <<progress, payment>>,
           \A h \in Handlers : HoldsInOrder(call'[h])
    PROVE  OrderInv'
<1>1. Rows' = Rows
  BY DEF Rows
<1>2. \A u \in Users : progress[u].step # NoStep => AllBeforeDone(progress[u], progress[u].step)
  BY DEF OrderInv, StepsInOrder
<1> QED
  BY <1>1, <1>2, OrderFrame

\* A step that changes only statuses, ids and invoices of rows.
LEMMA OrderRows ==
    ASSUME TypeInv, OrderInv, UNCHANGED progress, Rows' = Rows,
           \A p \in Rows : payment'[p].user = payment[p].user,
           \A h \in Handlers : HoldsInOrder(call'[h])
    PROVE  OrderInv'
<1>1. \A u \in Users : progress[u].step # NoStep => AllBeforeDone(progress[u], progress[u].step)
  BY DEF OrderInv, StepsInOrder
<1> QED
  BY <1>1, OrderFrame

\* The order of the steps is kept by every step of the program.
LEMMA OrderStep == TypeInv /\ OrderInv /\ [Next]_vars => OrderInv'
<1> SUFFICES ASSUME TypeInv, OrderInv, [Next]_vars
             PROVE  OrderInv'
  OBVIOUS
<1> USE DEF database, coupons, gateway
<1>0. /\ HoldsInOrder(Idle)
      /\ \A h \in Handlers : HoldsInOrder(call[h])
      /\ \A q \in Rows : payment[q] \in PaymentRow /\ payment[q].user \in Users
      /\ \A u \in Users : progress[u].step # NoStep => AllBeforeDone(progress[u], progress[u].step)
  BY OrderIsNoCapture, RowType DEF HoldsInOrder, Idle, OrderCall, OrderInv, StepsHeldInOrder, StepsInOrder
<1>a. CASE UNCHANGED vars
  BY <1>0, <1>a, OrderQuiet DEF vars
<1>b. ASSUME NEW h \in Handlers, NEW u \in Users, NEW c \in Coupons \cup {NoCoupon},
             NEW amount \in Prices, CreateOrder(h, u, c, amount)
      PROVE  OrderInv'
  <2> DEFINE v == [at |-> "order", user |-> u, step |-> progress[u].step, coupon |-> c,
                   amount |-> amount]
  <2>1. HoldsInOrder(v)
    <3>1. v \notin CaptureCall
      BY DEF CaptureCall
    <3>2. StepType[v.step] = "PAYMENT_GATE" /\ AllBeforeDone(progress[v.user], v.step)
      BY <1>0, <1>b DEF CreateOrder
    <3> HIDE DEF v
    <3> QED
      BY <3>1, <3>2 DEF HoldsInOrder
  <2>2. call' = [call EXCEPT ![h] = v]
    BY <1>b DEF CreateOrder
  <2>3. \A g \in Handlers : HoldsInOrder(call'[g])
    <3> HIDE DEF v
    <3> QED
      BY <2>1, <2>2, HandlersHold
  <2> QED
    BY <1>b, <2>3, OrderQuiet DEF CreateOrder
<1>c. ASSUME NEW h \in Handlers, CheckPending(h)
      PROVE  OrderInv'
  <2>1. PICK v : call' = [call EXCEPT ![h] = v] /\ (v = Idle \/ v = [call[h] EXCEPT !.at = "order.tx"])
    BY <1>c DEF CheckPending, End
  <2>2. call[h] \in OrderCall
    BY <1>c, OrderFacts DEF CheckPending, TypeInv
  <2>3. HoldsInOrder(v)
    <3>1. CASE v = Idle
      BY <1>0, <3>1
    <3>2. CASE v = [call[h] EXCEPT !.at = "order.tx"]
      <4>1. v.user = call[h].user /\ v.step = call[h].step /\ v \notin CaptureCall
        BY <2>2, <3>2 DEF OrderCall, CaptureCall
      <4>2. HoldsInOrder(call[h])
        BY <1>0
      <4> QED
        BY <2>2, <4>1, <4>2 DEF HoldsInOrder
    <3> QED
      BY <2>1, <3>1, <3>2
  <2>4. \A g \in Handlers : HoldsInOrder(call'[g])
    BY <2>1, <2>3, HandlersHold
  <2> QED
    BY <1>c, <2>4, OrderQuiet DEF CheckPending
<1>d. ASSUME NEW h \in Handlers, RejectOrder(h)
      PROVE  OrderInv'
  BY <1>0, <1>d, HandlersHold, OrderQuiet DEF RejectOrder, End
<1>e. ASSUME NEW h \in Handlers, NEW p \in Payments, AdminExpire(h, p)
      PROVE  OrderInv'
  <2>1. HoldsInOrder([at |-> "expire", pay |-> p])
    BY DEF HoldsInOrder, OrderCall, CaptureCall
  <2> QED
    BY <1>e, <2>1, HandlersHold, OrderQuiet DEF AdminExpire
<1>f. ASSUME NEW h \in Handlers, AbortCapture(h)
      PROVE  OrderInv'
  BY <1>0, <1>f, HandlersHold, OrderQuiet DEF AbortCapture, Answer, End
<1>g. ASSUME NEW h \in Handlers, CheckProcessed(h)
      PROVE  OrderInv'
  <2>1. call[h] \in CaptureCall
    BY <1>g, CaptureFacts DEF CheckProcessed, TypeInv
  <2>2. HoldsInOrder([call[h] EXCEPT !.at = "process"])
    BY <2>1 DEF HoldsInOrder, CaptureCall, OrderCall
  <2>3. \A g \in Handlers : HoldsInOrder(call'[g])
    BY <1>0, <1>g, <2>2, HandlersHold DEF CheckProcessed, Answer, End
  <2> QED
    BY <1>g, <2>3, OrderQuiet DEF CheckProcessed
<1>h. ASSUME NEW h \in Handlers, ReadProgress(h)
      PROVE  OrderInv'
  <2> DEFINE s == StepToComplete(payment[call[h].pay].user)
             v == [call[h] EXCEPT !.at = "commit", !.step = s]
  <2>1. call[h] \in CaptureCall /\ call[h].pay \in Rows
    BY <1>h, CaptureFacts DEF ReadProgress, TypeInv
  <2>2. s # NoStep => AllBeforeDone(progress[payment[call[h].pay].user], s)
    <3>1. (CHOOSE g \in Gates : TRUE) \in Gates \/ Gates = {}
      OBVIOUS
    <3>2. \A g \in Gates : AllBeforeDone(progress[payment[call[h].pay].user], g)
      BY <2>1 DEF OrderInv, StepsHeldInOrder
    <3> QED
      BY <1>0, <2>1, <3>1, <3>2 DEF StepToComplete
  <2>3. /\ v.pay = call[h].pay /\ v.step = s /\ v \notin OrderCall
    BY <2>1 DEF CaptureCall, OrderCall
  <2>4. call' = [call EXCEPT ![h] = v]
    BY <1>h DEF ReadProgress
  <2>5. \A g \in Handlers : HoldsInOrder(call'[g])
    <3> HIDE DEF v, s
    <3>1. HoldsInOrder(v)
      BY <2>1, <2>2, <2>3 DEF HoldsInOrder
    <3> QED
      BY <2>4, <3>1, HandlersHold
  <2> QED
    BY <1>h, <2>5, OrderQuiet DEF ReadProgress
<1>i. ASSUME NEW h \in Handlers, ReadInvoice(h)
      PROVE  OrderInv'
  <2> DEFINE v == [call[h] EXCEPT !.at = "invoice.write", !.number = LastInvoice + 1]
  <2>1. call[h] \in CaptureCall
    BY <1>i, CaptureFacts DEF ReadInvoice, TypeInv
  <2>2. HoldsInOrder(v)
    BY <2>1 DEF HoldsInOrder, CaptureCall, OrderCall
  <2>3. call' = [call EXCEPT ![h] = v]
    BY <1>i DEF ReadInvoice
  <2>4. \A g \in Handlers : HoldsInOrder(call'[g])
    <3> HIDE DEF v
    <3> QED
      BY <2>2, <2>3, HandlersHold
  <2> QED
    BY <1>i, <2>4, OrderQuiet DEF ReadInvoice
<1>j. ASSUME NEW h \in Handlers, NEW p \in Payments, DeliverCaptured(h, p)
      PROVE  OrderInv'
  <2> DEFINE v == [at |-> "hook", pay |-> p, gpid |-> "gateway", step |-> NoStep,
                   number |-> 0]
  <2>1. HoldsInOrder(v)
    BY DEF HoldsInOrder, OrderCall
  <2>2. call' = [call EXCEPT ![h] = v]
    BY <1>j DEF DeliverCaptured
  <2>3. \A g \in Handlers : HoldsInOrder(call'[g])
    <3> HIDE DEF v
    <3> QED
      BY <2>1, <2>2, HandlersHold
  <2> QED
    BY <1>j, <2>3, OrderQuiet DEF DeliverCaptured
<1>k. ASSUME NEW h \in Handlers, NEW p \in Payments, MockFires(h, p)
      PROVE  OrderInv'
  <2> DEFINE v == [at |-> "process", pay |-> p, gpid |-> "mock", step |-> NoStep,
                   number |-> 0]
  <2>1. HoldsInOrder(v)
    BY DEF HoldsInOrder, OrderCall
  <2>2. call' = [call EXCEPT ![h] = v]
    BY <1>k DEF MockFires
  <2>3. \A g \in Handlers : HoldsInOrder(call'[g])
    <3> HIDE DEF v
    <3> QED
      BY <2>1, <2>2, HandlersHold
  <2> QED
    BY <1>k, <2>3, OrderQuiet DEF MockFires
<1>l. ASSUME NEW p \in Payments, Pay(p)
      PROVE  OrderInv'
  BY <1>0, <1>l, OrderQuiet DEF Pay
<1>m. ASSUME NEW u \in Users, FunnelMove(u)
      PROVE  OrderInv'
  <2>1. /\ progress[u] \in ProgressRow /\ progress[u].step \in Steps
        /\ AllBeforeDone(progress[u], progress[u].step)
    BY <1>0, <1>m DEF FunnelMove, TypeInv, TypeOK, ProgressRow
  <2>2. \A w \in Users : progress'[w] = IF w = u THEN MovedRow(progress[u]) ELSE progress[w]
    BY <1>m DEF FunnelMove, TypeInv, TypeOK
  <2>3. \A w \in Users : progress[w].done \subseteq progress'[w].done
    BY <2>1, <2>2, MovedRowType
  <2>4. \A w \in Users :
           progress'[w].step # NoStep => AllBeforeDone(progress'[w], progress'[w].step)
    BY <1>0, <2>1, <2>2, MovedInOrder
  <2>5. Rows' = Rows /\ UNCHANGED <<payment, call>>
    BY <1>m DEF FunnelMove, Rows
  <2> QED
    BY <1>0, <2>3, <2>4, <2>5, OrderFrame
<1>n. ASSUME Crash
      PROVE  OrderInv'
  BY <1>0, <1>n, OrderQuiet DEF Crash
<1>o. ASSUME NEW h \in Handlers, WriteInvoice(h)
      PROVE  OrderInv'
  <2>1. call[h].pay \in Rows
    BY <1>o, CaptureFacts DEF WriteInvoice, TypeInv
  <2>2. Rows' = Rows /\ \A q \in Rows : payment'[q].user = payment[q].user
    BY <1>0, <1>o, <2>1 DEF WriteInvoice, Rows, TypeInv, TypeOK, PaymentRow
  <2>3. \A g \in Handlers : HoldsInOrder(call'[g])
    BY <1>0, <1>o, HandlersHold DEF WriteInvoice, Answer, End
  <2> QED
    BY <1>o, <2>2, <2>3, OrderRows DEF WriteInvoice
<1>p. ASSUME NEW h \in Handlers, WriteExpired(h)
      PROVE  OrderInv'
  <2>1. call[h].pay \in Rows
    BY <1>p DEF WriteExpired, TypeInv, TypeOK, CallsOnRows, Idle, OrderCall, CaptureCall
  <2>2. Rows' = Rows /\ \A q \in Rows : payment'[q].user = payment[q].user
    BY <1>0, <1>p, <2>1 DEF WriteExpired, Rows, TypeInv, TypeOK, PaymentRow
  <2>3. \A g \in Handlers : HoldsInOrder(call'[g])
    BY <1>0, <1>p, HandlersHold DEF WriteExpired, End
  <2> QED
    BY <1>p, <2>2, <2>3, OrderRows DEF WriteExpired
<1>q. ASSUME NEW p \in Payments, FailedWebhook(p)
      PROVE  OrderInv'
  <2>1. Rows' = Rows /\ \A q \in Rows : payment'[q].user = payment[q].user
    BY <1>0, <1>q DEF FailedWebhook, Rows, TypeInv, TypeOK, PaymentRow
  <2> QED
    BY <1>0, <1>q, <2>1, OrderRows DEF FailedWebhook
<1>r. ASSUME ExpireStalePayments
      PROVE  OrderInv'
  <2>1. PICK old \in SUBSET {p \in Rows : payment[p].status = "PENDING"} :
           payment' = [p \in Payments |->
               IF p \in old THEN [payment[p] EXCEPT !.status = "FAILED"] ELSE payment[p]]
    BY <1>r DEF ExpireStalePayments
  <2>2. Rows' = Rows /\ \A q \in Rows : payment'[q].user = payment[q].user
    BY <1>0, <2>1 DEF Rows, PaymentRow
  <2> QED
    BY <1>0, <1>r, <2>2, OrderRows DEF ExpireStalePayments
<1>s. ASSUME NEW h \in Handlers, OpenOrder(h)
      PROVE  OrderInv'
  <2>1. call[h] \in OrderCall /\ call[h].user \in Users /\ call[h].step \in Steps
    BY <1>s, OrderFacts DEF OpenOrder, TypeInv
  <2>2. \A g \in Gates : AllBeforeDone(progress[call[h].user], g)
    BY <1>0, <2>1, OneGateAssumption DEF HoldsInOrder, Gates
  <2>3. PICK p \in Payments \ Rows :
           payment' = [payment EXCEPT ![p] =
               [status |-> "PENDING", user |-> call[h].user, coupon |-> call[h].coupon,
                due |-> Final(call[h].coupon, call[h].amount), gpid |-> NoId, invoice |-> 0]]
    BY <1>s DEF OpenOrder
  <2>4. /\ Rows' = Rows \cup {p}
        /\ \A q \in Rows : payment'[q] = payment[q]
        /\ payment'[p].user = call[h].user
    BY <2>3 DEF Rows, TypeInv, TypeOK
  <2>5. \A g \in Handlers : HoldsInOrder(call'[g])
    BY <1>0, <1>s, HandlersHold DEF OpenOrder, End
  <2>6. UNCHANGED progress
    BY <1>s DEF OpenOrder
  <2> QED
    BY <1>0, <2>1, <2>2, <2>4, <2>5, <2>6, OrderFrame
<1>t. ASSUME NEW h \in Handlers, GrantFree(h)
      PROVE  OrderInv'
  <2> DEFINE u == call[h].user
             s == call[h].step
  <2>1. call[h] \in OrderCall /\ u \in Users /\ s \in Steps
    BY <1>t, OrderFacts DEF GrantFree, TypeInv
  <2>2. /\ \A g \in Gates : AllBeforeDone(progress[u], g)
        /\ AllBeforeDone(progress[u], s)
    BY <1>0, <2>1, OneGateAssumption DEF HoldsInOrder, Gates
  <2>3. \A g \in Handlers : HoldsInOrder(call'[g])
    BY <1>0, <1>t, HandlersHold DEF GrantFree, End
  <2>4. CASE UNCHANGED <<progress, payment>>
    BY <2>3, <2>4, OrderQuiet
  <2>5. ASSUME NEW p \in Payments \ Rows,
               payment' = [payment EXCEPT ![p] =
                   [status |-> "SUCCESS", user |-> u, coupon |-> call[h].coupon,
                    due |-> 0, gpid |-> NoId, invoice |-> 0]],
               progress' = [progress EXCEPT ![u] = PaidRow(@, s)]
        PROVE  OrderInv'
    <3>1. /\ Rows' = Rows \cup {p}
          /\ \A q \in Rows : payment'[q] = payment[q]
          /\ payment'[p].user = u
      BY <2>5 DEF Rows, TypeInv, TypeOK
    <3>2. \A w \in Users : progress'[w] = IF w = u THEN PaidRow(progress[u], s) ELSE progress[w]
      BY <2>5 DEF TypeInv, TypeOK
    <3>3. progress[u] \in ProgressRow
      BY <2>1 DEF TypeInv, TypeOK
    <3> HIDE DEF u, s
    <3>4. \A w \in Users : progress[w].done \subseteq progress'[w].done
      BY <2>1, <3>2, <3>3, PaidRowType
    <3>5. \A w \in Users :
             progress'[w].step # NoStep => AllBeforeDone(progress'[w], progress'[w].step)
      BY <1>0, <2>1, <2>2, <3>2, <3>3, PaidInOrder
    <3> QED
      BY <2>1, <2>2, <2>3, <3>1, <3>4, <3>5, OrderFrame
  <2> QED
    BY <1>t, <2>4, <2>5 DEF GrantFree
<1>u. ASSUME NEW h \in Handlers, CommitCapture(h)
      PROVE  OrderInv'
  <2> DEFINE p == call[h].pay
             u == payment[p].user
             s == call[h].step
             v == [call[h] EXCEPT !.at = "invoice"]
  <2>1. call[h] \in CaptureCall /\ p \in Rows /\ call[h].at = "commit"
    BY <1>u, CaptureFacts DEF CommitCapture, TypeInv
  <2>2. u \in Users /\ s \in Steps \cup {NoStep} /\ progress[u] \in ProgressRow
    BY <1>0, <2>1 DEF CaptureCall, TypeInv, TypeOK
  <2>3. s # NoStep => AllBeforeDone(progress[u], s)
    BY <1>0, <2>1 DEF HoldsInOrder
  <2>4. \A g \in Handlers : HoldsInOrder(call'[g])
    <3>1. HoldsInOrder(v)
      BY <2>1 DEF HoldsInOrder, CaptureCall, OrderCall
    <3>2. call' = [call EXCEPT ![h] = v]
      BY <1>u DEF CommitCapture
    <3> HIDE DEF v
    <3> QED
      BY <3>1, <3>2, HandlersHold
  <2>5. Rows' = Rows /\ \A q \in Rows : payment'[q].user = payment[q].user
    BY <1>0, <1>u, <2>1 DEF CommitCapture, Rows, TypeInv, TypeOK, PaymentRow, Statuses
  <2>6. \A w \in Users : progress'[w] = IF w = u THEN PaidRow(progress[u], s) ELSE progress[w]
    BY <1>u, <2>2 DEF CommitCapture, TypeInv, TypeOK
  <2> HIDE DEF u, s
  <2>7. \A w \in Users : progress[w].done \subseteq progress'[w].done
    BY <2>2, <2>6, PaidRowType
  <2>8. \A w \in Users :
           progress'[w].step # NoStep => AllBeforeDone(progress'[w], progress'[w].step)
    BY <1>0, <2>2, <2>3, <2>6, PaidInOrder
  <2> QED
    BY <2>4, <2>5, <2>7, <2>8, OrderFrame
<1> QED
  BY <1>a, <1>b, <1>c, <1>d, <1>e, <1>f, <1>g, <1>h, <1>i, <1>j, <1>k, <1>l, <1>m,
     <1>n, <1>o, <1>p, <1>q, <1>r, <1>s, <1>t, <1>u DEF Next, Continue

LEMMA OrderInit == Init => OrderInv
<1> SUFFICES ASSUME Init
             PROVE  OrderInv
  OBVIOUS
<1>1. Rows = {}
  BY DEF Init, Rows, Absent
<1>2. ASSUME NEW u \in Users, progress[u].step # NoStep
      PROVE  AllBeforeDone(progress[u], progress[u].step)
  <2>1. progress[u].step = FirstStep
    BY <1>2 DEF Init, NewRow
  <2> QED
    BY <1>2, <2>1, FirstStepIsFirst DEF AllBeforeDone
<1>3. HoldsInOrder(Idle)
  BY OrderIsNoCapture DEF HoldsInOrder, Idle, OrderCall
<1> QED
  BY <1>1, <1>2, <1>3 DEF Init, OrderInv, StepsInOrder, StepsHeldInOrder

\* Whatever step a capture read before its transaction and whatever the user did
\* meanwhile, nobody ever stands at a step with a step before it left out, in any
\* funnel with one payment gate (processSuccessfulPayment, advanceToNextStep).
THEOREM NoStepLeftOut == Spec => []StepsInOrder
<1>1. Init => TypeInv /\ OrderInv
  BY TypeInit, OrderInit
<1>2. (TypeInv /\ OrderInv) /\ [Next]_vars => (TypeInv /\ OrderInv)'
  BY TypeStep, OrderStep
<1>3. TypeInv /\ OrderInv => StepsInOrder
  BY DEF OrderInv
<1> QED
  BY <1>1, <1>2, <1>3, PTL DEF Spec

----------------------------------------------------------------------------
(* Prices: money is taken for what has one *)

\* Money is only taken for an order that has a price.
PricedInv == \A p \in captured : payment[p].due # 0

\* What the refinement rests on, with the real gateway.
CheckoutInv == TypeInv /\ Money /\ PricedInv /\ ~MockWebhook

----------------------------------------------------------------------------
(* What a step does to a payment row *)

\* The steps that write to no payment row and change nobody's access.
OtherSteps ==
    \/ UNCHANGED vars
    \/ \E h \in Handlers :
          \/ \E u \in Users, c \in Coupons \cup {NoCoupon}, amount \in Prices :
                CreateOrder(h, u, c, amount)
          \/ \E p \in Payments : DeliverCaptured(h, p) \/ MockFires(h, p) \/ AdminExpire(h, p)
          \/ CheckPending(h) \/ RejectOrder(h) \/ CheckProcessed(h) \/ ReadProgress(h)
          \/ AbortCapture(h) \/ ReadInvoice(h)
    \/ Crash

LEMMA OthersWriteNothing ==
    ASSUME OtherSteps
    PROVE  UNCHANGED <<progress, payment, captured>>
BY DEF OtherSteps, vars, database, coupons, gateway, CreateOrder, DeliverCaptured, MockFires,
       AdminExpire, CheckPending, RejectOrder, CheckProcessed, ReadProgress, AbortCapture,
       Answer, ReadInvoice, Crash

\* A row keeps what it was opened with, its gatewayPaymentId unless a capture
\* commits, and its success unless an administrator's expiry is under way.
KeepsRow(p) ==
    /\ payment'[p].status # "NONE"
    /\ payment'[p].user = payment[p].user
    /\ payment'[p].due = payment[p].due
    /\ \/ payment'[p].gpid = payment[p].gpid
       \/ \E h \in Handlers : CommitCapture(h) /\ call[h].pay = p
    /\ payment[p].status = "SUCCESS" =>
          \/ payment'[p].status = "SUCCESS"
          \/ \E h \in Handlers : call[h].at = "expire" /\ call[h].pay = p

LEMMA RowKept ==
    ASSUME TypeInv, [Next]_vars, NEW p \in Rows
    PROVE  KeepsRow(p)
<1>1. /\ payment[p] \in PaymentRow /\ p \in Payments /\ payment[p].status # "NONE"
      /\ payment \in [Payments -> PaymentRow \cup {Absent}]
  BY RowType DEF TypeInv, TypeOK, Rows
<1>2. CASE UNCHANGED payment
  BY <1>1, <1>2 DEF KeepsRow
<1>3. CASE OtherSteps
  BY <1>2, <1>3, OthersWriteNothing
<1>4. ASSUME NEW h \in Handlers, NEW q \in Payments \ Rows, NEW r,
             payment' = [payment EXCEPT ![q] = r]
      PROVE  KeepsRow(p)
  BY <1>1, <1>4 DEF KeepsRow
<1>5. ASSUME NEW h \in Handlers, OpenOrder(h) \/ GrantFree(h)
      PROVE  KeepsRow(p)
  BY <1>2, <1>4, <1>5 DEF OpenOrder, GrantFree
<1>6. ASSUME NEW h \in Handlers, CommitCapture(h)
      PROVE  KeepsRow(p)
  BY <1>1, <1>6 DEF CommitCapture, KeepsRow, PaymentRow
<1>7. ASSUME NEW h \in Handlers, WriteInvoice(h)
      PROVE  KeepsRow(p)
  BY <1>1, <1>7 DEF WriteInvoice, KeepsRow, PaymentRow
<1>8. ASSUME NEW h \in Handlers, WriteExpired(h)
      PROVE  KeepsRow(p)
  BY <1>1, <1>8 DEF WriteExpired, KeepsRow, PaymentRow
<1>9. ASSUME NEW q \in Payments, FailedWebhook(q)
      PROVE  KeepsRow(p)
  BY <1>1, <1>9 DEF FailedWebhook, KeepsRow, PaymentRow
<1>10. CASE ExpireStalePayments
  <2>1. PICK old \in SUBSET {q \in Rows : payment[q].status = "PENDING"} :
           payment' = [q \in Payments |->
               IF q \in old THEN [payment[q] EXCEPT !.status = "FAILED"] ELSE payment[q]]
    BY <1>10 DEF ExpireStalePayments
  <2>2. p \in old => payment[p].status = "PENDING"
    BY <2>1
  <2> QED
    BY <1>1, <2>1, <2>2 DEF KeepsRow, PaymentRow
<1>11. CASE \/ \E u \in Users : FunnelMove(u)
            \/ \E q \in Payments : Pay(q)
  BY <1>2, <1>11 DEF FunnelMove, Pay, database
<1> QED
  BY <1>3, <1>5, <1>6, <1>7, <1>8, <1>9, <1>10, <1>11 DEF Next, Continue, OtherSteps

\* A payment.failed event that comes late, the nightly job and everything else
\* leave a payment alone that succeeded, except an administrator who had read it
\* while it was pending.
THEOREM SuccessStays == Spec => SuccessKept
<1>1. TypeInv /\ [Next]_vars =>
         [\A p \in Payments :
             payment[p].status = "SUCCESS" =>
                 \/ payment'[p].status = "SUCCESS"
                 \/ \E h \in Handlers : call[h].at = "expire" /\ call[h].pay = p]_vars
  BY RowKept DEF KeepsRow, Rows
<1>2. TypeInv /\ [Next]_vars => TypeInv'
  BY TypeStep
<1> QED
  BY TypeInit, <1>1, <1>2, PTL DEF Spec, SuccessKept

----------------------------------------------------------------------------
(* The refinement *)

Orders == [p \in Payments |-> OrderOf(p)]
Access == {u \in Users : progress[u].paid}

\* Only OpenOrder, GrantFree, CommitCapture and Pay are seen.
LEMMA Unseen ==
    ASSUME TypeInv, [Next]_vars,
           ~ \E h \in Handlers : OpenOrder(h) \/ GrantFree(h) \/ CommitCapture(h),
           ~ \E p \in Payments : Pay(p)
    PROVE  UNCHANGED <<Orders, Access>>
<1>1. /\ payment \in [Payments -> PaymentRow \cup {Absent}]
      /\ progress \in [Users -> ProgressRow]
  BY DEF TypeInv, TypeOK
<1>2. captured' = captured
  BY OthersWriteNothing DEF Next, Continue, OtherSteps, WriteInvoice, WriteExpired, Answer,
     FailedWebhook, FunnelMove, ExpireStalePayments, gateway
<1>3. \A p \in Payments \ Rows : payment'[p] = payment[p]
  <2> SUFFICES ASSUME NEW p \in Payments \ Rows
               PROVE  payment'[p] = payment[p]
    OBVIOUS
  <2>1. ASSUME NEW h \in Handlers, WriteInvoice(h)
        PROVE  payment'[p] = payment[p]
    BY <1>1, <2>1, CaptureFacts DEF WriteInvoice, TypeInv
  <2>2. ASSUME NEW h \in Handlers, WriteExpired(h)
        PROVE  payment'[p] = payment[p]
    <3>1. call[h].pay \in Rows
      BY <2>2 DEF WriteExpired, TypeInv, TypeOK, CallsOnRows, Idle, OrderCall, CaptureCall
    <3> QED
      BY <1>1, <2>2, <3>1 DEF WriteExpired
  <2>3. ASSUME NEW q \in Payments, FailedWebhook(q)
        PROVE  payment'[p] = payment[p]
    BY <1>1, <2>3 DEF FailedWebhook
  <2>4. CASE ExpireStalePayments
    BY <1>1, <2>4 DEF ExpireStalePayments
  <2>5. CASE OtherSteps \/ \E u \in Users : FunnelMove(u)
    BY <2>5, OthersWriteNothing DEF FunnelMove
  <2> QED
    BY <2>1, <2>2, <2>3, <2>4, <2>5 DEF Next, Continue, OtherSteps
<1>4. \A u \in Users : progress'[u].paid = progress[u].paid
  <2>1. ASSUME NEW u \in Users, FunnelMove(u)
        PROVE  \A w \in Users : progress'[w].paid = progress[w].paid
    <3>1. progress[u] \in ProgressRow /\ progress[u].step \in Steps
      BY <1>1, <2>1 DEF FunnelMove, ProgressRow
    <3> QED
      BY <1>1, <2>1, <3>1, MovedRowType DEF FunnelMove
  <2>2. CASE ~ \E u \in Users : FunnelMove(u)
    <3>1. progress' = progress
      BY <2>2, OthersWriteNothing DEF Next, Continue, OtherSteps, WriteInvoice, WriteExpired,
         FailedWebhook, ExpireStalePayments
    <3> QED
      BY <3>1
  <2> QED
    BY <2>1, <2>2
<1>5. \A p \in Payments : OrderOf(p)' = OrderOf(p)
  <2>1. \A p \in Rows : /\ payment'[p].status # "NONE" /\ payment'[p].user = payment[p].user
                        /\ payment'[p].due = payment[p].due /\ payment'[p].gpid = payment[p].gpid
    BY RowKept DEF KeepsRow
  <2> QED
    BY <1>2, <1>3, <2>1 DEF OrderOf, Rows
<1> QED
  BY <1>4, <1>5 DEF Orders, Access

LEMMA PricedStep == TypeInv /\ PricedInv /\ [Next]_vars => PricedInv'
<1> SUFFICES ASSUME TypeInv, PricedInv, [Next]_vars, NEW p \in captured'
             PROVE  payment'[p].due # 0
  BY DEF PricedInv
<1>1. captured \subseteq Rows
  BY DEF TypeInv, TypeOK
<1>2. CASE p \in captured
  BY <1>1, <1>2, RowKept DEF PricedInv, KeepsRow
<1>3. CASE p \notin captured
  <2>1. \E q \in Payments : Pay(q)
    BY <1>3, OthersWriteNothing DEF Next, Continue, OtherSteps, OpenOrder, GrantFree,
       CommitCapture, WriteInvoice, WriteExpired, Answer, FailedWebhook, FunnelMove,
       ExpireStalePayments, gateway
  <2> QED
    BY <1>3, <2>1 DEF Pay, database
<1> QED
  BY <1>2, <1>3

\* What an order looks like while nothing is mocked.
LEMMA Seen ==
    ASSUME CheckoutInv, NEW p \in Payments
    PROVE  /\ p \notin Rows => OrderOf(p) = Promise!None
           /\ p \in Rows => /\ OrderOf(p).user = payment[p].user
                            /\ payment[p].user \in Users
                            /\ payment[p].gpid \in {NoId, "gateway"}
           /\ p \in Rows /\ p \notin captured /\ payment[p].due # 0 =>
                 OrderOf(p) = [at |-> "open", user |-> payment[p].user]
           /\ p \in captured /\ payment[p].gpid = NoId =>
                 OrderOf(p) = [at |-> "captured", user |-> payment[p].user]
           /\ p \in Rows /\ (payment[p].gpid # NoId \/ payment[p].due = 0) =>
                 OrderOf(p) = [at |-> "honoured", user |-> payment[p].user]
<1>1. p \in Rows => payment[p] \in PaymentRow /\ payment[p].user \in Users
  BY RowType DEF CheckoutInv
<1>2. p \in Rows /\ payment[p].gpid # NoId => payment[p].gpid = "gateway" /\ p \in captured
  BY <1>1 DEF CheckoutInv, Money, CapturesBacked, PaymentRow, GatewayIds
<1>3. captured \subseteq Rows /\ (p \in captured => payment[p].due # 0)
  BY DEF CheckoutInv, TypeInv, TypeOK, PricedInv
<1> QED
  BY <1>1, <1>2, <1>3 DEF OrderOf, Rows, Promise!None, NoId

\* An order is opened.
LEMMA OpenMaps ==
    ASSUME CheckoutInv, NEW h \in Handlers, OpenOrder(h)
    PROVE  Promise!CheckoutNext
<1>1. /\ call[h].user \in Users
      /\ Final(call[h].coupon, call[h].amount) # 0
      /\ UNCHANGED <<progress, captured>>
  BY OrderFacts DEF OpenOrder, CheckoutInv, TypeInv, gateway
<1>2. PICK p \in Payments \ Rows :
         payment' = [payment EXCEPT ![p] =
               [status |-> "PENDING", user |-> call[h].user, coupon |-> call[h].coupon,
                due |-> Final(call[h].coupon, call[h].amount), gpid |-> NoId, invoice |-> 0]]
  BY DEF OpenOrder
<1>3. p \notin captured /\ payment \in [Payments -> PaymentRow \cup {Absent}]
  BY DEF CheckoutInv, TypeInv, TypeOK
<1>4. OrderOf(p) = Promise!None
  BY Seen
<1>5. OrderOf(p)' = [at |-> "open", user |-> call[h].user]
  BY <1>1, <1>2, <1>3 DEF OrderOf
<1>6. \A q \in Payments \ {p} : OrderOf(q)' = OrderOf(q)
  BY <1>1, <1>2, <1>3 DEF OrderOf
<1>7. Promise!Open(p, call[h].user)
  BY <1>1, <1>4, <1>5, <1>6 DEF Promise!Open
<1> QED
  BY <1>1, <1>7 DEF Promise!CheckoutNext

\* An order with nothing to pay is opened and honoured.
LEMMA GrantMaps ==
    ASSUME CheckoutInv, NEW h \in Handlers, GrantFree(h)
    PROVE  Promise!CheckoutNext \/ UNCHANGED <<Orders, Access>>
<1>0. PICK w \in Users : w = call[h].user
  BY OrderFacts DEF GrantFree, CheckoutInv, TypeInv
<1>1. /\ call[h].step \in Steps
      /\ captured' = captured
  BY OrderFacts DEF GrantFree, CheckoutInv, TypeInv, gateway
<1>2. /\ payment \in [Payments -> PaymentRow \cup {Absent}]
      /\ progress \in [Users -> ProgressRow] /\ captured \subseteq Rows
  BY DEF CheckoutInv, TypeInv, TypeOK
<1>3. CASE UNCHANGED <<progress, payment>>
  BY <1>1, <1>3 DEF Orders, Access, OrderOf
<1>4. ASSUME NEW p \in Payments \ Rows,
             payment' = [payment EXCEPT ![p] =
                 [status |-> "SUCCESS", user |-> w, coupon |-> call[h].coupon,
                  due |-> 0, gpid |-> NoId, invoice |-> 0]],
             progress' = [progress EXCEPT ![w] = PaidRow(@, call[h].step)]
      PROVE  Promise!CheckoutNext
  <2>1. OrderOf(p) = Promise!None
    BY Seen
  <2>2. OrderOf(p)' = [at |-> "honoured", user |-> w]
    BY <1>2, <1>4 DEF OrderOf
  <2>3. \A q \in Payments \ {p} : OrderOf(q)' = OrderOf(q)
    BY <1>1, <1>2, <1>4 DEF OrderOf
  <2>4. \A u \in Users : progress'[u].paid <=> (progress[u].paid \/ u = w)
    BY <1>1, <1>2, <1>4, PaidRowType
  <2>5. Promise!OpenFree(p, w)
    BY <1>1, <2>1, <2>2, <2>3, <2>4 DEF Promise!OpenFree
  <2>6. p \in Payments
    BY <1>4
  <2> QED
    BY <2>5, <2>6 DEF Promise!CheckoutNext
<1> QED
  BY <1>0, <1>3, <1>4 DEF GrantFree

\* The gateway takes the money of an open order.
LEMMA PayMaps ==
    ASSUME CheckoutInv, NEW p \in Payments, Pay(p)
    PROVE  Promise!CheckoutNext
<1>1. /\ p \in Rows /\ p \notin captured /\ payment[p].due # 0
      /\ captured' = captured \cup {p} /\ UNCHANGED <<progress, payment>>
  BY DEF Pay, database
<1>2. OrderOf(p) = [at |-> "open", user |-> payment[p].user]
  BY <1>1, Seen
<1>3. OrderOf(p)' = [at |-> "captured", user |-> payment[p].user]
  BY <1>1, <1>2 DEF OrderOf
<1>4. \A q \in Payments \ {p} : OrderOf(q)' = OrderOf(q)
  BY <1>1 DEF OrderOf
<1>5. /\ Orders' = [Orders EXCEPT ![p].at = "captured"]
      /\ Orders[p].at = "open" /\ Access' = Access
  <2>1. Orders'[p] = [Orders[p] EXCEPT !.at = "captured"] /\ Orders[p].at = "open"
    BY <1>2, <1>3 DEF Orders
  <2>2. \A q \in Payments \ {p} : Orders'[q] = Orders[q]
    BY <1>4 DEF Orders
  <2>3. /\ Orders = [q \in Payments |-> Orders[q]]
        /\ Orders' = [q \in Payments |-> Orders'[q]]
    BY DEF Orders
  <2>4. Access' = Access
    BY <1>1 DEF Access
  <2> HIDE DEF Orders
  <2> QED
    BY <2>1, <2>2, <2>3, <2>4
<1>6. Promise!Capture(p)
  BY Zenon, <1>5 DEF Promise!Capture, Orders, Access
<1> QED
  BY <1>6 DEF Promise!CheckoutNext

\* A capture commits: for the first time, or it is not seen.
LEMMA CommitMaps ==
    ASSUME CheckoutInv, NEW h \in Handlers, CommitCapture(h)
    PROVE  Promise!CheckoutNext \/ UNCHANGED <<Orders, Access>>
<1>0. PICK p \in Payments, w \in Users : p = call[h].pay /\ w = payment[p].user
  BY CaptureFacts, RowType DEF CommitCapture, CheckoutInv, TypeInv, Rows
<1>1. /\ call[h] \in CaptureCall /\ p \in Rows /\ p \in Payments /\ payment[p] \in PaymentRow
      /\ call[h].gpid = "gateway" /\ p \in captured
  <2>1. call[h] \in CaptureCall /\ p \in Rows /\ payment[p] \in PaymentRow
        /\ (call[h].gpid = "gateway" => p \in captured)
    BY <1>0, CaptureFacts DEF CommitCapture, CheckoutInv, TypeInv
  <2>2. call[h].gpid \in {"gateway", "mock"} /\ call[h].gpid # "mock"
    BY <2>1 DEF CaptureCall, CheckoutInv, Money, CapturesBacked
  <2> QED
    BY <2>1, <2>2 DEF Rows
<1>2. w \in Users /\ call[h].step \in Steps \cup {NoStep}
  BY <1>1 DEF CaptureCall
<1>3. /\ payment \in [Payments -> PaymentRow \cup {Absent}]
      /\ progress \in [Users -> ProgressRow]
  BY DEF CheckoutInv, TypeInv, TypeOK
<1>4. /\ payment'[p] = [payment[p] EXCEPT !.status = "SUCCESS", !.gpid = "gateway"]
      /\ \A q \in Payments \ {p} : payment'[q] = payment[q]
      /\ captured' = captured
      /\ progress' = [progress EXCEPT ![w] = PaidRow(@, call[h].step)]
  BY <1>0, <1>1, <1>3 DEF CommitCapture, gateway
<1>5. /\ OrderOf(p)' = [at |-> "honoured", user |-> w]
      /\ \A q \in Payments \ {p} : OrderOf(q)' = OrderOf(q)
  <2>1. /\ payment'[p].status = "SUCCESS" /\ payment'[p].gpid = "gateway"
        /\ payment'[p].user = w
    BY <1>0, <1>1, <1>4 DEF PaymentRow
  <2>2. OrderOf(p)' = [at |-> "honoured", user |-> payment'[p].user]
    BY <2>1 DEF OrderOf, NoId
  <2> QED
    BY <1>4, <2>1, <2>2 DEF OrderOf
<1>6. \A u \in Users : progress'[u].paid <=> (progress[u].paid \/ u = w)
  BY <1>2, <1>3, <1>4, PaidRowType
<1>7. CASE payment[p].gpid = NoId
  <2>1. OrderOf(p) = [at |-> "captured", user |-> w]
    BY <1>0, <1>1, <1>7, Seen
  <2>2. /\ Orders' = [Orders EXCEPT ![p].at = "honoured"]
        /\ Orders[p].at = "captured" /\ Orders[p].user = w
    <3>1. /\ Orders'[p] = [Orders[p] EXCEPT !.at = "honoured"]
          /\ Orders[p].at = "captured" /\ Orders[p].user = w
      BY <1>5, <2>1 DEF Orders
    <3>2. \A q \in Payments \ {p} : Orders'[q] = Orders[q]
      BY <1>5 DEF Orders
    <3>3. /\ Orders = [q \in Payments |-> Orders[q]]
          /\ Orders' = [q \in Payments |-> Orders'[q]]
      BY DEF Orders
    <3> QED
      BY <3>1, <3>2, <3>3
  <2>3. Access' = Access \cup {Orders[p].user}
    BY <1>2, <1>6, <2>2 DEF Access
  <2>4. Promise!Honour(p)
    BY Zenon, <2>2, <2>3 DEF Promise!Honour, Orders, Access
  <2> QED
    BY Zenon, <1>1, <2>4 DEF Promise!CheckoutNext
<1>8. CASE payment[p].gpid # NoId
  <2>1. OrderOf(p) = [at |-> "honoured", user |-> w]
    BY <1>0, <1>1, <1>8, Seen
  <2>2. progress[w].paid
    BY <1>0, <1>1, <1>8 DEF CheckoutInv, Money, RecordedCaptureGrants
  <2>3. \A q \in Payments : OrderOf(q)' = OrderOf(q)
    BY Zenon, <1>5, <2>1
  <2>4. \A u \in Users : progress'[u].paid <=> progress[u].paid
    BY <1>6, <2>2
  <2>5. Orders' = Orders
    BY <2>3 DEF Orders
  <2>6. Access' = Access
    BY <2>4 DEF Access
  <2> QED
    BY <2>5, <2>6
<1> QED
  BY <1>7, <1>8

\* With the real gateway the handlers of orders, callbacks and expiries are
\* together a checkout, however they interleave: an order is opened, captured and
\* honoured in this order, access appears in the very step that honours it, and
\* neither is ever taken back.
THEOREM HandlersAreACheckout ==
    ASSUME ~MockWebhook
    PROVE  Spec => ImplementsCheckout
<1>1. Init => Promise!CheckoutInit
  <2> SUFFICES ASSUME Init
               PROVE  Promise!CheckoutInit
    OBVIOUS
  <2>1. \A p \in Payments : OrderOf(p) = Promise!None
    BY DEF Init, OrderOf, Absent, Promise!None
  <2>2. \A u \in Users : ~progress[u].paid
    BY DEF Init, NewRow
  <2> QED
    BY <2>1, <2>2 DEF Promise!CheckoutInit
<1>2. Init => PricedInv
  BY DEF Init, PricedInv
<1>3. TypeInv /\ Money /\ PricedInv /\ [Next]_vars => [Promise!CheckoutNext]_<<Orders, Access>>
  BY Unseen, OpenMaps, GrantMaps, PayMaps, CommitMaps DEF CheckoutInv
<1>4. TypeInv /\ Money /\ PricedInv /\ [Next]_vars => (TypeInv /\ Money /\ PricedInv)'
  BY TypeStep, MoneyStep, PricedStep
<1> QED
  BY TypeInit, MoneyInit, <1>1, <1>2, <1>3, <1>4, PTL
     DEF Spec, ImplementsCheckout, Promise!CheckoutSpec, Orders, Access
=============================================================================

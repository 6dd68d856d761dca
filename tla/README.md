# A verification project for the NSI CRM backend

The repository is a NestJS server over PostgreSQL (Prisma) and Redis: visitors sign up,
walk a funnel, pay a commitment fee, become leads of a distributor, take courses, and
may subscribe to become distributors themselves; distributors and administrators work on
leads, tasks, campaigns, plans and coupons and read reports. This directory holds TLA+
models of these parts, the TLC runs that check them on small instances, and proofs
checked by TLAPS.

    FunnelSteps ──► CommitmentFee ──► MCCommitmentFee   (3 runs)
                         │  └─ INSTANCE Checkout (abstract)
                         ▼
                    CommitmentFee_proofs

    Subscription ──► MCSubscription  (2 runs)    └─► Subscription_proofs
    Leads        ──► MCLeads         (2 runs)    └─► Leads_proofs
    Accounts     ──► MCAccounts      (1 run)     └─► Accounts_proofs
    Live         ──► MCLive          (1 run)     └─► Live_proofs
    Funnel       ──► MCFunnel        (1 run)     └─► Funnel_proofs
    Courses      ──► MCCourses       (1 run)     └─► Courses_proofs

    Service ──► Desk, Campaigns, Offers, Reports ──► Office ──► MCOffice  (1 run)
                                                        └─► Office_proofs

`tlc -config fee_safety.cfg MCCommitmentFee` repeats a run and `tlapm
CommitmentFee_proofs.tla` a proof. PROJECT.json names, for every definition, the lines
of the repository it stands for. Definitions called "Mutant" in their comment are used
by no specification: they are plausible bugs, and substituting one for the definition
after it makes the property it is listed with fail.

## 1. The system: components, state, interaction

| Component | State it keeps | Operations | Talks to |
|---|---|---|---|
| Commitment fee (`payment/payment.service.ts`, `webhook.controller.ts`) | `payments`, `funnel_progress.paymentCompleted` | `createOrder`, `handleWebhook`, `processSuccessfulPayment`, `processMockWebhook` | gateway (orders out, events in), coupons, invoice numbers, funnel progress, leads |
| Coupons (`coupon/coupon.service.ts`) | `coupons`, `coupon_uses` | `validateCouponInTx`, create, update, delete, preview | called inside the transactions of orders |
| Invoice numbers (`common/invoice`) | the highest `payments.invoiceNumber` | `generateInvoiceNumber` | every handler that records a payment |
| Funnel (`funnel/funnel.service.ts`) | `funnel_progress`, `step_progress` | `getProgress`, `completeStep`, `recordDecision`, video position | shares the progress row with payment and phone; tells leads |
| Funnel administration (`funnel-cms`) | sections, steps, gate configuration | create, reorder, publish, delete | changes the layout under walking users |
| Distributor subscriptions (`distributor/distributor-subscription.service.ts`) | `distributor_subscriptions`, `users.role`, `joinLinkActive` | `subscribe`, `selfCancelSubscription`, `cancelSubscription`, `handleCharged`, `handleHalted`, `handleCancelledOrCompleted` | gateway, payments, leads |
| Plans (`distributor-plan.service.ts`) | `distributor_plans.isActive`, `migrationPending` | create, activate, deactivate, update | marks the subscribers of a plan |
| Nightly jobs (`distributor-cron.service.ts`) | – | expire subscriptions, migrate subscribers, clear migrations, expire payments | all of the above, at any time |
| User administration (`admin/users-admin.service.ts`) | `users.status`, `users.role` | suspend, reactivate, change role, expire a payment | cancels subscriptions, deletes sessions, reassigns leads |
| Leads and nurture (`leads/`) | `leads.status`, assignment, `nurture_enrollments` | triggers from profile, phone and decision; manual transitions; the mail job | written by five other components |
| Accounts and sessions (`auth/`, `users/`) | `auth_sessions`, `users` | signup, verification, login, Google, refresh with rotation, reset, logout | OTP, tracking, leads, user administration |
| One-time passwords (`otp/`, `phone/`) | `email_otps`, for mail codes and as markers of phone codes | send, verify | auth, funnel, leads |
| Courses (`lms/`) | courses, sections, lessons, enrollments, lesson progress, certificates | order, enroll, complete, certificate; administration and report | payments, coupons, storage |
| Live events (`sse/`) | connections in memory of each instance | add, remove, send | Redis channel |
| Broadcasts (`broadcast/`) | messages and who dismissed them | create, list, dismiss, deactivate | live events, leads |
| Campaigns (`campaign/`, `tracking/`) | campaigns, `user_acquisition` | create, edit, delete, report; visits | leads, payments (read) |
| Tasks and calendars (`distributor-task`, `distributor-calendar`, `admin-task`) | tasks, notes | create, edit, move, delete; boards, months, reminders | leads (read) |
| Dashboards and analytics (`distributor.service.ts`, `admin/*analytics*`) | cached reports | queries | reads every table |
| Mail, audit, storage, video, PDFs | rows and files of their own | fire and forget output | – |

What makes the code hard to get right:

* **Everything runs concurrently.** Node interleaves handlers at every `await`, and
  several instances may share the database. Transactions run at READ COMMITTED, so a
  check before an insert protects nothing; most handlers use no transaction.
* **The gateway is another actor.** Events arrive late, twice, out of order or after an
  administrator or a nightly job has changed the row. The controllers answer 200 even
  when the handler failed, so a failed event is never sent again.
* **Rows are read, then acted on.** The nightly jobs walk rows they read at the start;
  cancelling calls the gateway between the read and the write; the capture completes the
  step it read before its transaction.
* **Crashes.** Mock callbacks live in `setTimeout`; a handler that stops half way is not
  taken up again.

What makes each part correct: access to the funnel is paid for, a captured payment gives
access, a coupon is never used beyond its limit, nobody skips a step (commitment fee);
whoever no longer pays loses role, link and leads, whoever was replaced by a newer
subscription is not touched by events of the old one, and nobody is marked as cancelled
whom the gateway still charges (subscriptions); a lead is always someone's, and a lead
in the nurture sequence leaves it (leads); a token is exchanged once and what is revoked
is gone (accounts); events go to a user's newest connection or to none, and only those
its user may see (live events); completed steps stay completed and a funnel that raises
no warning can be walked to its end, also while it is edited (funnel); enrollments have
a ground, a course is sold once, and who completes it gets one certificate (courses);
what is looked up before it is written survives the request in between (campaigns,
plans, coupons, tasks), and pages that show the same rows agree (reports). PROJECT.json
lists the hazards of the code one by one, each at its line.

## 2. What is modelled

### FunnelSteps
The layout of the funnel and the walk to the next step. Payment, phone and funnel each
have a private copy of `findNextStep`; they agree, so the walk is stated once. An empty
next section ends the walk, as in the code. The layout is constant.

### CommitmentFee
One user row, payments, coupon uses and counters; one record per running handler
(`call`), cut at the awaits.

| Code | Actions |
|---|---|
| `createOrder` | `CreateOrder` (the reads), `CheckPending` (the transaction's plain read), then one of `OpenOrder`, `GrantFree`, `RejectOrder` |
| gateway, client | `Pay`, `DeliverCaptured` (until answered with 200) |
| `handleWebhook` payment.captured | `CheckProcessed`, `ReadProgress`, `CommitCapture` or `AbortCapture`, `ReadInvoice`, `WriteInvoice` |
| `processMockWebhook` | `MockFires`, then as above, past the check |
| payment.failed | `FailedWebhook` (one conditional update) |
| `expireStalePayments`, `expirePendingPayment` | `ExpireStalePayments`; `AdminExpire`, `WriteExpired` |
| `completeStep` | `FunnelMove` |
| restart | `Crash` |

A transaction is one step where what it reads is what it locks; the check for a pending
order locks nothing and is a step of its own. The price of the gate may change between
orders (`amount`). Ids are reduced to their source (`gateway`, `mock`), prices to
numbers that are zero or not after the discount.

**Checkout** is the abstract promise: an order is opened, captured, honoured; access
appears in the step that honours it and never goes away. `ImplementsCheckout` maps rows
and the gateway's books to it.

### Subscription
One row per user, the gateway's books (`gw`, `log`, `acked`), a record per handler, and
the nightly job with the rows it read (`cron`).

| Code | Actions |
|---|---|
| `subscribe` | `Subscribe` (the reads), `CreateAtGateway`, `Upsert`, `BecomeDistributor` |
| gateway | `Charge`, `Halt`, `Complete`, `Deliver` |
| `handleCharged` | `ReadCharged`, `WriteCharged`, `UpgradeRole`, `RecordCharge` |
| `handleHalted`, `handleCancelledOrCompleted` | `HandleHalted`, `HandleEnded` (one write each) |
| `cancelSubscription`, `selfCancelSubscription`, `suspendUser`, `updateUserRole` | the request (same name), `StopAtGateway` or `Refused`, `WriteCancelled`, `LeaveRole`, `Suspend`, `SetRole`, `HandOver` |
| `reactivateUser` | `Reactivate` |
| `deactivatePlan`, `activatePlan` | `DeactivatePlan`, `ReadSubscribers`, `FlagSubscriber`; `ActivatePlan` |
| nightly job | `CronStart`; `CronExpire`, `CronDowngrade`, `CronHandOver`; `CronStop`, `CronCancel`; `CronClear` |
| time | `PeriodEnds`, `GraceEnds` |

Abstractions, and why they lose nothing the properties ask about:

* Time is what it does to a row: `currentPeriodEnd` and `graceDeadline` are to come or
  past. A period is a month and a grace a week, so deadlines only pass while no request
  and no job is under way (`Quiet`), and no handler reads one after its first step.
* Consecutive reads are one step. A part of the job whose query finds nothing is no
  step. A first charge needs the payment link, which is in the answer of `subscribe`
  (`Answered`).
* A visitor comes by an open link (`VisitorComes`) and becomes a lead any time later
  (`LeadArrives`), also when the link was closed in between; such a lead is marked as
  "late". A hand-over takes the leads there are, and nothing takes the ones after it.
* A distributor whose own lead is marked as customer gets the role CUSTOMER while the
  subscription goes on. That write is in Leads (`Promote`), not here.
* `Ordered = TRUE` says the gateway sends an event of a subscription only when the one
  before has been dealt with. Liveness is checked under that assumption only: a charge
  that is handled after the end of its subscription sets it back to ACTIVE and clears
  the deadline, and no later event corrects it.

### Leads
One row per user for the lead, its enrollment, the distributor of the acquisition row
and the answer at the decision; one record per handler, cut at the awaits that write,
and one per instance of the hourly job, with the enrollments it read. No handler uses a
transaction, and the triggers are fire and forget: the request that started one may be
long answered.

| Code | Actions |
|---|---|
| `upsertAcquisition`, `attachReferralCode` | `Attribute` (the first distributor counts), `AttachReferralCode` (overwrites) |
| `completeProfile`, `createLeadForUser` | `CompleteProfile`, `WriteProfile`, `ReadAttribution`, `CreateLead` |
| `verifyOtp` of the phone, `onPhoneVerified` | `VerifyPhone`, `OnPhoneVerified` |
| `completeStep` | `Walk` |
| `recordDecision`, `onDecisionYes`, `onDecisionNo` | `RecordDecision` (the checks), `WriteDecision`, `OnDecision`, `Enroll` |
| `updateDistributorLeadStatus`, `updateAdminLeadStatus`, `applyStatusChange` | `UpdateLeadStatus` (the checks), `WriteStatus`, `Promote` |
| `subscribe`, `updateUserRole` | `StartServing`, `UpdateUserRole` |
| `reassignLeadsOnSuspension`, and its copies in `cancelSubscription` and the nightly job | `StopServing`, `ReadAffected`, `MoveLeads`, `MoveAttribution` |
| `processNurtureEmails` | `StartJob`, `SendMail`, `LoseLead` |
| time, restart | `MailDue`, `Crash` |

Abstractions:

* The funnel is whether a user who has paid stands at the decision (`atDecision`); the
  walk to it and away from it is free. A distributor is whether the role is DISTRIBUTOR
  (`serving`).
* The copies of the hand-over differ in one thing, the column they look at: a suspension
  takes the leads assigned to the distributor, the end of a subscription those the
  distributor brought. `by` says which.
* A check before an insert that the database backs with a unique key is one step with
  the insert: the loser of the race fails and logs. A lead read for nothing but its id
  is read in the step that writes it.
* Mails are days apart, so no day passes for a user while an answer of theirs is being
  recorded or a job holds them (`Quiet`).
* There is a super admin. The phone on the lead, the activity and status logs, follow-up
  dates and live events are left out: nothing reads them back to decide.

### Accounts
The account, the rows of `email_otps`, the stored refresh tokens and a record per
request. `lineage` says which token each was exchanged for, `bearer` who ever held an
access token. A request is chosen in one step (`Ask`, which makes its first read) and
goes on in `Proceed`.

| Code | Actions |
|---|---|
| `signup`, `resendOtp`, `forgotPassword`, `storeOtp` | `Signup`, `CreateUser`; `ResendOtp`, `ForgotPassword`; `ExpireOtps`, `StoreOtp` |
| `verifyOtp` of the mail, `verifyEmailOtp` | `EnterCode`, `ReadOtp`, then `MissOtp`, `DeleteOtp` or `SpendOtp`; `UpdateEmailVerified`, `RereadUser`, `MarkIncomplete` |
| `sendOtp` of the phone | `SendOtp`, `MarkSent` |
| `handleGoogleLogin` | `HandleGoogleLogin`, `CreateGoogleUser` or `MergeGoogleAccount`, `MarkIncomplete` |
| `completeProfile`, `setPassword`, `resetPassword` | `CompleteProfile`, `UpdateCountry`; `SetPassword`, `StorePassword`; `ResetPassword`, `DeleteSessions` |
| `login`, `createSession`, `refreshToken`, `logout` | `Login`, `CreateSession`; `RefreshToken`, `CheckUser`, `Rotate`; `SessionEnds` |
| `suspendUser`, `reactivateUser` | `SuspendUser`, `WriteSuspended`, `DeleteSessions`; `ReactivateUser`, `WriteReactivated` |
| time, restart | `TimePasses`, `Restart` |

A request that is refused changes nothing and is no step. `epoch` counts resets and
suspensions of an account; a session keeps the one it was stored in, so that the
properties can say what a revocation is to end. Hashes, the access token's lifetime and
names are left out.

### Live
Two instances with the connections they hold, the channel of Redis as a queue per
instance, tickets and tokens, and broadcast messages.

| Code | Actions |
|---|---|
| `storeSSETicket`, `redeemSSETicket` (a get and a delete) | `StoreTicket`, `TicketExpires`; `ReadTicket`, `RedeemTicket` |
| `SseAuthGuard`, `addClient`, `removeClient` | `OpenByToken`, `AddClient` (in the step that opens), `RemoveClient` |
| `sendToUser`, `sendToRole`, `deliverLocally` | `Publish` (part of the step that sends), `DeliverLocally` |
| `createAdminBroadcast`, `createDistributorBroadcast` | same names; `Push` |
| `dismissBroadcast`, `deactivateBroadcast` | same names |
| `updateUserRole`, `refreshToken`, restart | `ChangeRole`, `RenewToken`, `Restart(i)` |

`IsVisible` and `ActiveBroadcasts` are the list a user is shown; what is pushed is
compared with it. Redis forgets what it published, so `Publish` may leave any instance
out: an instance hears the events it does hear in their order, and nothing is promised
of the others. Messages do not expire and texts are left out.

### Funnel
The layout is a variable here: sections and steps with orders, states and contents. A
progress row, the step rows, the cached structure, and a record per request.

| Code | Actions |
|---|---|
| `getOrCreateProgress`, `getProgress` | `GetOrCreateProgress` (the row), `FindFirstStep`, `PlaceProgress`; `GetProgress` |
| `completeStep` | `BeginComplete`, `MarkCompleted`, `FindNextStep`, `MoveOn` |
| `saveVideoProgress`, `recordDecision` | `BeginPing`, `Ping`; `BeginDecision`, `RecordDecision`, `MarkDecided` |
| capture, phone | `BeginCapture`, `ProcessSuccessfulPayment`; `BeginPhone`, `MarkPhone`, `VerifyPhone` |
| `createSection` … `deleteStep`, `upsertStepContent`, `reorderSteps` | `EditSections`, `EditSteps`: one action each, a deletion in its two steps |
| `getStructure` and its cache | `ReadStructure`, `FillCache`, `ExpireCache`, `InvalidateStructureCache` (not awaited) |
| restart | `Restart` |
| `validateFunnel` | `Warnings` |

`visited` records the steps a user was put on; `disturbed` the users two of whose
requests overlapped or who lost one to a restart, who completed a gate by hand or paid
for a second order; `overtaken` that the cached list was read before an edit which
dropped the cache before it was stored. The capture does not ask whether the user has
paid already: `createOrder` does, when the order is made. Video position is whether
enough was watched; page contents, thumbnails and the step analytics are left out.
`FunnelSteps` states the same walk for a layout that stays; there (`FunnelMove` of
CommitmentFee) the read, the mark and the move of `completeStep` are one step, because
the properties of the fee ask only where a capture finds the user, and the marks between
two writes are what Funnel is for.

### Courses
The catalogue, enrollments, lesson progress, course payments, the timers of the mock
payment and a record per request.

| Code | Actions |
|---|---|
| `enroll`, `enrollFree`, `initiatePaidEnrollment`, `processMockLmsPayment` | `BeginEnroll`, `EnrollFree`, `TakeFree`, `GuardPending`, `StorePayment`; `MockPayment`, `MockEnrollment` |
| `handleWebhook`, `processSuccessfulPayment` (course branch) | `BeginCapture`, `Capture`; `PaymentFailed` |
| `updateLessonProgress`, `completeLesson`, `checkAndFinalizeCourse` | `BeginProgress`, `BeginComplete`, `MarkLesson`, `ReadLessons`, `CountLessons`, `FinishCourse` |
| `getCertificate`, `doGenerate` | `GetCertificate`, `BeginGenerate`, `GeneratePdf`, `GeneratePdfFails`, `StoreCertificate` |
| administration | `CreateCourse` … `ReorderLessons`, `PublishCourse`; `BeginDeleteCourse`, `DeleteCourse` |
| pages and report | the operators `FindAllPublished`, `FindOneCourse`, `GetCourseLearnContent`, `GetMyCourses`, `GetSingleLesson`, `GetAnalytics` |

`edited`, `lost`, `wasFree` and `snapshot` record which courses were edited, whose
requests a restart took, which courses have ever been free, and over which lessons a
course was completed. The list of courses reads at most `ProgressRows` completed lessons
of a user (500 in the code), in no order, so `FindAllPublished` takes those that were
read. Uploads, texts and the picture of the certificate are left out.

### Service, Desk, Campaigns, Offers, Reports, Office
`Service` is what small request handlers share: a record per handler, a bound on
requests, days, restarts, and the rows that a query with a limit and no order may answer
(`AnyOf`). Four modules build on it, and `Office` puts them side by side: they share no
table that one writes and another checks, so a behaviour follows one `department`.

| Module | Code | What it models |
|---|---|---|
| `Desk` | task and calendar services of distributors and of the administrator | creation (ownership of the lead, place on the board, insert), edits, moves and deletions that look and then write; months, boards and reminders as operators, with their limits (`BoardTake`, `Take`) |
| `Campaigns` | `campaign.service.ts`, both controllers, `upsertAcquisition` | slug and owner looked up, then written; visits, of which the last counts; the numbers of a campaign |
| `Offers` | `distributor-plan.service.ts`, `coupon.service.ts` | the active plan found, then replaced; coupons created, edited, deleted, previewed, and redeemed by an order in between |
| `Reports` | `distributor.service.ts`, `analytics-admin.service.ts`, the lists of leads, users and distributors, the notifications of follow-ups | the pages as operators over the tables, the tables changed as clients go on, and cached reports computed in two reads |

Of the tables under the reports the writes are cut as in the code: a visit and its first
touch (`BeginUpsertAcquisition`, `FirstTouch`), the acquisition read and the lead
inserted (`BeginCreateLead`, `InsertLead`), the lead and its activity at a follow-up
(`BeginSchedule`, `WriteFollowup`, `InsertActivity`), a payment looked at and expired by
an administrator, which may overwrite a capture (`BeginExpirePayment`, `ExpirePayment`),
and a hand-over in three steps that changes whom leads are assigned to and never who
brought them (`BeginHandOver`, `MoveLeads`, `MoveAcquisitions`). A lead has a day; time
goes on by a day or skips to the day of a row (`SkipTo`).

The pages keep the filters and limits of the code, as constants: the UTM page shows the
last `Window` days unless asked (30), the chart of a distributor's detail goes back
`YearLength` days (a year), the report by distributors has `TopCount` of them (10), and
a list of notifications `Take` rows (50, or 100 for the administrator). Months have
lengths of their own (`First` is where each begins), and the dates a chart by month
visits are those of `setMonth(+1)`, which goes past a month that is too short for the
day it started on. Which status may follow which is in Leads; the follow-up dates that a
lead keeps when it gets another status than FOLLOWUP are left out, and so are growth in
percent, devices, paging and wording.

## 3. The runs

| Run | Instance | States | Shows |
|---|---|---|---|
| `fee_safety` | 2 users, 2 payments, 1 coupon with one use, 2 handlers, price 0 or 2 | 826 000 | `CouponsWithinLimit`, `OneOrderPerCouponUse`, `AccessWasPaidFor`, `RecordedCaptureGrants`, `StepsInOrder`, `SuccessKept` in every interleaving; the handlers implement `Checkout` (`ImplementsCheckout`) |
| `fee_liveness` | 1 user, 1 payment, 1 coupon, mock and real callbacks, 1 restart | 28 000 | `PlainCaptureHonoured`: money taken without a coupon gives access in the end |
| `fee_coupon_capture` | 1 user, 1 coupon | refuted | `CouponCaptureHonoured`: the capture of an order with a coupon aborts |
| `sub_safety` | 1 user, 2 subscriptions, 2 handlers, unordered events, 2 events, 3 requests, 1 restart | 2.5 million | `DeadlineMatchesStatus`, `StaleEventsIgnored`, `StoppedBeforeCancelled` |
| `sub_liveness` | 1 user, 1 subscription, ordered events | 181 000 | `EndedIsDowngraded`, `HaltedIsResolved` |
| `leads_safety` | 1 user, 1 distributor, 2 handlers, 1 job, 1 code, 1 restart | 2.2 million | `OnlyAnswered`, `OriginKept` |
| `leads_nurture` | 1 user, no distributor, 2 handlers, 2 jobs, 1 restart | 276 000 | `NurtureIsEnrolled`, `NurtureEnds`: a lead in NURTURE leaves it |
| `accounts` | 1 user, 2 handlers, 5 requests, 1 wrong code, 1 phone code per hour, 1 restart | 375 000 | `AccountsSound`, `RotatedOnce`, `RevokedSessionsGone`, `SendsWithinLimit` |
| `live` | a distributor and a lead, 2 instances, 2 connections, 1 message, 3 requests, 1 disturbance | 528 000 | `EntryIsCurrent`, `MessagesSound` |
| `funnel` | 1 user, 2 sections, 3 steps, two layouts: the two gates and the decision in two sections, or a video to be watched before the payment in one section, where a section or a step may be added; 2 handlers, 3 requests, 1 disturbance | 926 000 | `GatesHold`, `UnwarnedFunnelWorks`, `CacheIsFresh`, `CompletionKept` |
| `courses` | 1 user, 2 courses, sections, lessons, payments and handlers, 3 requests, 1 disturbance | 173 000 | `EnrollmentsSound`, `CompletionsSound`, `PagesSound`, `GivenStays`, `CertificateArrives` |
| `office` | 2 distributors (1 at the desk), 1 administrator, 2 handlers, 3 requests, 2 tasks, campaigns, plans, clients, 1 coupon; lists of 1 row, boards of 2; weeks of 4 days, months of 3, 2, 3 and 3 | 318 000 | `OneOfEach`, `CouponLedger`, `ListsAreRight`, `PagesSound`, `ReportsAddUp`, `FollowupsReach` |

A disturbance is an edit or a restart (`live`: a change of role or a restart). The
refuted property is a sentence of the repository (quoted in PROJECT.json with its line);
the trace of TLC is short and can be followed in the code. The types of the fee, of
subscriptions and of leads are not checked by a run: they are proved (section 4).

Properties made of several:

| Property | Parts |
|---|---|
| `AccountsSound` | `TypeOK`; `SessionsAreVerified`: a session needs a proved address; `ActiveIsComplete` |
| `MessagesSound` | `TypeOK`; `PushedIsVisible`: what is pushed is what the list would show |
| `GatesHold` | `TypeOK`; `OpenWasReached`: only steps a user was put on open; `DecisionIsPaid` |
| `UnwarnedFunnelWorks` | `NotStuck`, of users whose requests do not meet, in funnels with both gates, no warning and no two rows of one order (`Walkable`); `UnwarnedWalkIsComplete`: without empty sections and equal orders the walk shows every active step |
| `EnrollmentsSound` | `TypeOK` with the references between rows; `EnrollmentHasGround`; `SoldOnce` |
| `CompletionsSound` | `CompletionWasEarned`; `NotLeftOpen`: two requests that finish the last lessons do not both leave it to the other; `TextInOrder` |
| `PagesSound` of Courses | `PagesAgree`: the pages show one progress, but for lessons the list does not read; `ReportAddsUp` |
| `GivenStays` | `CertificateSettles`, `AccessKept` |
| `OneOfEach` | `TypeOK`, `SlugsDistinct`, `OneActivePlan` |
| `CouponLedger` | `UsesCounted`, `KnownUsesKept` |
| `ListsAreRight` | `CalendarShowsOnce`; `RemindedOnce`: of a task that is due, unless the list is full; `BoardInOrder`; `CountedForOne`: no visitor for two campaigns of an owner; `PreviewKeepsItsWord` |
| `PagesSound` of Office | `PagesAgree`, `StageListsAgree`, `SourcesAddUp` |
| `ReportsAddUp` | `ChartsCover`: which rows a chart may miss; `ReportAddsUp`: the parts of a report that is read in two steps |
| `FollowupsReach` | `FollowupsTold`: who is told of a follow-up before and after a hand-over (`ToldToTheirOwn`) |

Several of them have a condition: an owner whose requests met (`raced`), two requests
about plans at once (`planRaces`), a user whose requests overlapped (`disturbed`), a
course that was edited (`edited`), a reader an edit overtook (`overtaken`), a board that
two requests wrote at once (`shuffled`). The code promises nothing in these cases, and
section 5 says what then happens; a ghost variable records them, and nothing else reads
it.

**Bounds.** Two users meet on a coupon, two payments of one user on the check for a
pending order, and two handlers on every row; a third handler adds no pair of accesses
that two do not have. The proofs below remove these bounds for the fee. Users share no
row of a subscription, so one user is enough there; two subscriptions are one that is
replaced and the one that replaces it, and two handlers plus the job are three
concurrent writers of one row. `MaxEvents` bounds charges and failures (ends always
follow), `MaxRequests` what users and administrators do (subscribe, subscribe again and
cancel in between is three), `MaxCrashes` restarts. Users share a lead no more than a
subscription: they meet in a hand-over, which treats each alike, and at the handlers, so
one user is enough; the distributor makes no difference to the nurture sequence and is
left out there. A second phone code only repeats the first.

The same holds for accounts, funnels and enrollments, where no row belongs to two users.
Five requests are enough to sign up, verify and have a login, a refresh and a suspension
meet. In `live` two instances and two connections are one that is replaced, on the same
instance or on another. In `funnel` the two layouts have every kind of step, and
sections and steps that appear later; one disturbance between the parts of a request is
what the code has to survive, and two would only undo the first. In `courses` one course
has two lessons, so that there is an order among them and a last one, and the other is
free; both payments are for the same user. In `office` three requests are two that meet
and one before or after; for the reports both clients start anew, or one is there
already, referred, paid and answered (`Arrivals`), so that three requests are enough to
hand a lead over, to plan a follow-up first, or to write between the reads of a report.
The lists show one row of two, the periods make a chart of each kind, a last period that
is not visited and a month that is passed over, and rows are of a first day and of one
that is past both `Window` and `YearLength` later. In `courses` the list reads one
completed lesson, and there may be two. Symmetry is used for safety only, over payments,
subscriptions, handlers, jobs, distributors and clients, which no definition tells
apart.

`CHECK_DEADLOCK FALSE` is set because the system may really stop: every order is
settled, every subscription over, every request served.

**Fairness.** A started handler runs to its end (`WF` of `Continue(h)`, `Proceed(h)`):
the event loop resumes every await, and gateway calls time out into an error. The
gateway repeats an event it has had no 200 for (`SF` of the delivery, because a handler
may be busy again and again). The nightly job starts when it has something to do and
finishes (`WF`), and grace runs out (`WF`). The mail job does too, and the days to the
next mail pass however often somebody is busy with the user (`SF` of `MailDue`). The
mock timers fire (`WF`). Users, administrators, payments and the funnel are under no
fairness. `EndedIsDowngraded` speaks of the leads that came while the link was open,
because a late one stays, and is checked without restarts: after a crash between the
write of EXPIRED and the downgrade, the job never finds the row again and the user keeps
the role. That is a weakness of the code, listed as a hazard. For the same reason
`NurtureIsEnrolled` and `NurtureEnds` speak of a server that is not restarted: between
the two writes of `onDecisionNo`, or of the seventh day, a restart leaves a lead in
NURTURE that no job will find; and `CertificateArrives` excepts users whose background
task a restart took or whose rendering failed.

## 4. What is proved

Everything below holds for every value of the constants: any funnel layout, any number
of users, payments, coupons, subscriptions and handlers, any bounds.

**Assumptions** are those the modules name: the layout's sections and steps are finite
and ordered (`LayoutAssumption`, `OrderAssumption`, `FiniteAssumption` in FunnelSteps),
the funnel has one payment gate (`OneGateAssumption`), prices and discounts are naturals
and limits of coupons naturals or none (`CouponAssumption`), tables are finite
(`FiniteTablesAssumption`), the id of an absent row is no subscription's
(`SubscriptionAssumption`), the super admin and null are no distributors
(`LeadsAssumption`), users are finitely many and null is neither one of them nor a
connection (`LiveAssumption`), and the accounts are served by finitely many handlers,
with limits of at least one wrong code and one phone code (`AccountsAssumption`). In the
funnel and the courses a missing row is no row (`RowAssumption`, and `FunnelAssumption`
for steps and sections, of which there are finitely many), users, courses and the
lessons of a course are finitely many (`CoursesAssumption`), and courses start with rows
that refer to rows there are and with enrollments in free courses only
(`StartAssumption`). In the office distributors are no admins, the days of tasks fall in
the months there are and a null lead, day or owner is none of them (`DeskAssumption`);
campaigns too have owners who are no administrators, a missing slug is no slug, and
visitors are finitely many (`CampaignsAssumption`); a coupon's limit is positive, and
without a limit or an end it has a value that is no number (`OffersAssumption`); the
statuses and types the reports name exist, a week has a day at least, each month begins
after the one before, ranges are pairs of days that end before the last month there is,
clients are finitely many, and who brought them are distributors (`ReportsAssumption`).
TLC evaluates all of them in the runs.

**Commitment fee** (`CommitmentFee_proofs`).

* `TypeCorrect` is inductive with the types of the records of every handler.
* `AccessIsPaidFor` and `CapturesGrant` follow from `Money`, the conjunction of
  `CapturesBacked` (a row with a gateway payment id was captured, or simulated),
  `RecordedCaptureGrants` and `AccessWasPaidFor`. None of the three is inductive alone:
  a capture commits the row and the progress in one transaction, but the row it commits
  was read by a handler several steps before.
* `CouponLimitKept` and `OneOrderPerCoupon` follow from `CouponInv`, which counts the
  uses of a coupon and ties every use to the one order that recorded it. The counting
  needs finite sets and their cardinalities.
* `NoStepLeftOut` follows from `OrderInv`: the step a user stands at leaves nothing out
  (`StepsInOrder`), and neither does the step any running capture read before its
  transaction (`StepsHeldInOrder`). The second is what makes it inductive, since the
  user may have moved in between. The walk itself is `NextStepSkipsNone`, for any
  layout.

**Subscription** (`Subscription_proofs`).

* `TypeCorrect` rests on `TypeInv`: a handler that is to write a row by its uuid holds
  the user of a row that is there, one that is to stop a subscription holds one of the
  gateway's, the event under way was sent (`Holds`), and so for the rows of the job
  (`CronHolds`). Rows are never deleted and events never withdrawn (`Growing`), which is
  why what is held stays there.
* `RowChanges` says what any step can do to a row: replace it, renew, halt or cancel it
  by an event of the same subscription, cancel it by a request that holds its user,
  cancel it by the job, or touch a deadline, a flag or EXPIRED. It makes the three other
  theorems short.
* `DeadlinesKept` is inductive given `RowChanges`.
* `StaleEventsChangeNothing` shows that an update by gateway id is what protects a
  replaced subscription, wherever the handlers are cut.
* `StoppedFirst` needs `GatewayInv`: what the gateway was asked to stop never comes
  back, the event of an end was sent by a subscription that has ended (`EndsAreFinal`),
  and a handler or job about to write CANCELLED holds a subscription that was stopped
  (`StoppedByRequest`, `StoppedByJob`). The invariant speaks of the subscription the
  handler read, the theorem of the one in the row; where they differ is its stated
  exception.

**Checkout** (also in `CommitmentFee_proofs`).

* `SuccessStays` says that no step but the write of an administrator's expiry takes a
  payment out of SUCCESS. It goes through `RowKept`, which classifies every write to a
  payment row by what it leaves alone.
* `HandlersAreACheckout` says that the handlers implement Checkout when the mock webhook
  is off (`~MockWebhook`). The invariant it needs is `CheckoutInv`, the types with
  `Money` and `PricedInv`. `OpenOrder`, `GrantFree`, `Pay` and `CommitCapture` are the
  only steps that can be seen in Checkout, everything else stutters; so does the second
  of two commits of one capture, because the first has given access.

**Leads** (`Leads_proofs`).

* `TypeCorrect`, `NobodyBeforeDecision` and `OriginIsKept` follow from one inductive
  invariant: the rows agree (`Rows`: who is enrolled has a lead, `OnlyAnswered`,
  `OriginKept`), what a handler has read is still so when it writes (`CallsHold`), and
  whom a job holds is enrolled (`JobsHold`). The last two survive what others do because
  leads, answers and enrollments stay (`Growing`): a transition that was checked against
  an old status is written later, but only for a user who answered.
* `NurtureIsKept` needs two facts more. While a NO is being recorded, the user is not in
  the sequence or has just entered it, and no job holds them (`FirstNo`): this is what
  the refusal of a second NO is for. And nothing but a NO enrolls or moves a lead to
  NURTURE (`Purposes`). Most handlers only need to be seen to stay apart from the
  sequence (`ApartKeeps`).

**Accounts** (`Accounts_proofs`).

* `AccountsAreSound` is `AccountsSound` for any number of users, requests and restarts.
  Its invariant adds to the rows what a handler holds between two of its accesses: who
  is about to get a session has proved the address or was suspended before
  (`SessionSound`), whoever is past a code has an account, and a profile that is being
  written is that of an account. What is held survives the steps of others because
  accounts stay, a proved address stays proved, and a country stays.
* `TokensRotateOnce` needs `RotationInv`: a token is newer than the one it replaced, and
  the token a refresh has taken, and is about to replace, is no session's any more, has
  not been replaced, and is held by no other handler. That is what looking at the number
  of deleted rows gives. All other steps leave rotation alone (`Calm`).
* `RevokedAreGone` is inductive given the types: the step that raises an account's epoch
  puts its handler before the deletion, and a session is stored with the epoch of that
  moment. A restart between the two writes breaks it, and the property says so.
* `SendsStayWithinLimit` is `SendsWithinLimit`: parallel requests may pass the limit on
  phone codes together, but by no more than there are other handlers. What is inductive
  is `SendsBounded`: the codes sent within the hour and the requests that have counted
  and not yet marked are within the limit and one per other handler. A request that
  passes the count saw fewer codes than the limit, and the others under way are at most
  the other handlers. It also needs that a code which is being entered is a mail code
  (`HoldsMail`), so that entering codes deletes no marker that counts.

**Live** (`Live_proofs`).

* `NewestOrNone` is `EntryIsCurrent`, for any number of users, instances and
  connections. Every action but those that open, close or restart leaves connections and
  entries alone; opening ends the connection it replaces in the same step, and a close
  removes whatever entry the user has, so an entry never outlives its connection.
* `PushedMaySee` is `MessagesSound`: whoever is told of a message may see it. An event
  waits in the channel while rows and roles change, so the invariant (`PushInv`) says of
  every pending event that it fits the message it was made from (`Fits`), and of every
  connection that was told that it has the user and the role it was opened with
  (`Told`); messages are not rewritten, and users who are named stay named (`Kept`).
  Neither needs every event to arrive.

**Funnel** (`Funnel_proofs`).

* `GatesAlwaysHold` is `GatesHold` for any funnel, edited at any moment. Its invariant,
  `FunnelInv`, ties what a handler holds to the rows: the user has a row, the step was
  visited, the payment was made. All of it survives what others do, because rows only
  grow (`RowsGrow`) and a step keeps its type until it is deleted for good (`TypesStay`;
  `known` holds the ids that were given). Marks are on steps that were visited or are a
  payment gate (`Entitled`).
* `CacheIsAlwaysFresh` is `CacheIsFresh`: every edit, whichever it is, is followed by
  the invalidation or overtakes the one reader that stored an older list. What is
  inductive besides is that a reader which no edit came after holds the list there is.
* `CompletedStays` is `CompletionKept`: no step but the deletion of a step takes a
  completion away.
* `FunnelAlwaysWorks` is `UnwarnedFunnelWorks`, for any layout. Its first half needs a
  second invariant, `WalkInv`, of the users whose requests do not meet, who complete no
  gate by hand and pay once: between two requests everything completed comes before the
  step the user stands on, and the gates that come before it are passed (`OnStep`), or
  the user has declined, is through, or has verified the phone before opening the funnel
  (`Rests`); within a request, `Fits` says the same of what the handler holds. It is
  inductive because the next step is the next of all active steps (`NextFollows`), a
  funnel that can be walked ends on a decision with both gates before it
  (`LastIsDecision`) and has a phone gate before the payment (`PhoneComesFirst`), so
  that who pays or verifies is never on the last step (`GoesOn`). Without one of the two
  gates, or with a gate and the decision of one order, the last step can be completed
  without finishing, and the user is led back to a first step that is completed:
  validation warns of neither, and `Walkable` excludes both. The second half,
  `WalkIsComplete`, takes the first active step that a set closed under the walk leaves
  out: it is the first of all, or it follows the last active step before it.

**Courses** (`Courses_proofs`).

* `EnrollmentsAreSound` is `EnrollmentsSound` with any catalogue, any edits and both
  gateways. What makes it inductive is `Sold`: with the real gateway a payment succeeds
  in the step that enrolls, and that step finds nobody enrolled, so no two payments for
  one course succeed; and `MoneyInv`, which says that only the mock gateway has timers.
  A handler that is to enroll for nothing holds a course that has been free (`Holds`),
  though it may cost something by now.
* `CompletionsAreSound` is `CompletionsSound`. `SnapshotsInv` ties a completion to
  lessons that were done, `NobodyForgotten` says that whoever has done everything has
  completed the course or has a handler that will look once more: the last of two
  parallel requests finds what the other wrote. `TextInOrder` is inductive with what the
  handler found unlocked (`MarkIsDue`).
* `WhatIsShownAgrees` is `PagesSound`: the pages agree on what is unlocked and
  completed, but for the lessons that the list of courses does not read, and the
  report's numbers add up. A list that reads less shows no more (`PercentGrows`). The
  report needs `EarnedCertificates`, proved on top of the invariant: a stored
  certificate belongs to a completed enrollment, and a handler that makes one holds a
  course that the user completed or that was deleted meanwhile. The percentages are
  rounded, so it also needs `SomePartHasTheShare` (of two groups one has at least the
  share of both together, shown by counting pairs) and `MorePercent` (rounding keeps the
  order).
* `WhatWasGivenStays` is `GivenStays`: access outlives publication, and only a handler
  that was already making a certificate replaces one.

  Every step does `Stays`: payments that succeeded succeed, done lessons are done until
  they are deleted, and a course whose lessons change is marked as edited. That is why
  what was read before an `await` may still be used after it.

**Office** (`Office_proofs`). The six invariants of the run are proved from one,
`OfficeInv`: the rows of the four departments (`DeskRows`, `CampaignRows`, `OfferRows`,
`ReportRows`), and what the handlers of the department at work hold (`OfficeServes`). As
elsewhere, what is held survives because rows grow in a way each department states
(`DeskGrows`, `CampaignsGrow`, `OffersGrow`, `ReportsGrow`).

* `OneOfEachAlways`: types, slugs of campaigns and the active plan. Nothing in the
  database backs the last two; they hold because a request that has looked and is to
  write is the only one of its owner, or about plans, unless two met (`raced`,
  `planRaces`).
* `CouponsAreAccounted`: the uses are as many as the orders that redeemed, within the
  highest limit the coupon has had; a deletion erases no use that was known when it
  looked.
* `ListsAreAlwaysRight`: boards, months, reminders and campaign numbers are operators
  over the rows, with the limits of the code, and each is proved from the types, from
  `BoardKept` (places grow with the tasks of a board that was not shuffled) and from the
  distinct slugs.
* `PagesAreSound` counts. Its lemma is that a set is as large as its parts by a key
  together (`TotalByKey`, `TotalOfSome`). What a page with a window leaves out is
  exactly the older leads (`OlderThan`), because no lead is of a day to come
  (`LeadsPast`).
* `ReportsAlwaysAddUp` needs to know which periods a chart visits: by day all of them
  (`DayVisited`), by week all but the last (`WeekVisited`, from `DivMod`), by month all
  but the last and those that are too short for the day it started on (`MonthVisited`).
  A report that is read in two steps adds up if no write came between, and its leads do
  not get fewer (`ReadsCount`).
* `FollowupsAlwaysReach`: who planned the follow-up of a lead is who brought it, so the
  notifications by actor and the lists by assignment part only at a hand-over, and after
  it nobody may plan another.

**Model-checked only.** Liveness: `PlainCaptureHonoured`, `EndedIsDowngraded`,
`HaltedIsResolved`, `NurtureEnds` and `CertificateArrives`. The prover does not reach
fairness. Every invariant and every action property of the passing runs has a theorem.

## 5. Disagreements met while modelling

With a run: `fee_coupon_capture` above. Without one, though a sentence of the repository
says otherwise:

* The check for a pending order is a plain read in a transaction at READ COMMITTED, so
  two requests can both open one (`payment.service.ts:101`).
* Subscribing gives the role before anything is paid
  (`distributor-subscription.service.ts:386`; `docs/NSI-MASTER-CONTEXT-v4.md:524`: only
  via successful payment).
* A renewal moves the billing date of a subscription that waits for migration, which
  puts the migration off (`distributor-subscription.service.ts:760`;
  `distributor-plan.service.ts:198` promises it on the billing date).
* A lead that was handed to the super admin still names its distributor, and
  `updateAdminLeadStatus` refuses it (`leads.service.ts:664`): nobody can update it,
  though `leads-admin.controller.ts:37` says administrators update all leads.

Without a run, because no sentence of the repository says otherwise or because the model
already behaves like the code:

* A free order made with a coupon is always rolled back: the grant inserts the
  `coupon_uses` row a second time (`payment.service.ts:155`, `GrantFree`).
* The capture completes the user's current step, whichever it is by then
  (`payment.service.ts:573`). `StepsInOrder` shows it leaves no step out.
* An administrator's expiry can overwrite SUCCESS (`users-admin.service.ts:580`); access
  and `gatewayPaymentId` survive (`ImplementsCheckout`).
* The use of a coupon is recorded when the order opens, before it is paid
  (`coupon.service.ts:139`); `docs/FUNNEL-INTEGRATION-GUIDE.md:1850` describes it
  otherwise. An abandoned order blocks a retry until it expires.
* Of two captures that read the same last invoice number one stays without a number.
* `handleCharged` looks at the suspension it read before its first write.
* The nightly job expires rows it read at its start, also ones renewed since.
* Two subscribe requests of one user create two subscriptions at the gateway; the events
  of the first are ignored from then on.
* `activatePlan` deactivates the active plan without migrating its subscribers.
* The job of the seventh day loses the lead whatever it has become
  (`leads/nurture.service.ts:117`): after NO and then YES the enrollment goes on, and a
  HOT lead, or one marked as customer, is set to LOST when the last mail goes out.
* `onPhoneVerified` writes WARM whatever the status is (`leads.service.ts:122`); its
  comment says NEW to WARM. A late or second verification takes a lead back.
* A visitor who came by a link becomes a lead of that distributor also after the
  distributor has been suspended or has lost the role: the hand-over goes by leads, and
  the visitor had none yet.
* A role taken away by an administrator (`updateUserRole`) hands no leads over.
* A suspension hands over the leads assigned to the distributor, the end of a
  subscription those the distributor brought, so leads that already went to the super
  admin are counted again.
* Marking the lead of a user who is a distributor as customer takes the role DISTRIBUTOR
  and leaves the subscription running (`leads.service.ts:753`).
* Accounts: verifying a code sets EMAIL_VERIFIED whatever the status was; a login by
  Google does not look at the status; two codes stored at once are both live; parallel
  wrong codes count as one attempt; an unused marker of the phone is found in place of
  the mail code (`otp.service.ts:85`); a login or refresh that read the account before a
  suspension stores its session afterwards.
* Live: an event published while an instance is not listening is lost to its users
  (`sse.service.ts:40`); a ticket is read and deleted in two steps, so it may open two
  connections (`auth.service.ts:1046` calls it one-time); the close of a connection that
  was replaced removes the one that replaced it, which then gets nothing
  (`sse.service.ts:116`). A message to named users without a role is pushed to all
  customers and distributors; a distributor's message whose named users are all filtered
  out goes to all of their leads; a message can be dismissed unseen.
* Funnel: `completeStep` passes the gates of payment and phone like any other step; the
  two writes of a step and of the position may be cut by a restart, and a user may be
  put back on a completed step by two overlapping requests (`NotStuck` excepts both);
  the same happens in a funnel without a phone gate or without a payment gate, or where
  a gate has the order of the decision, of which `validateFunnel` does not warn
  (`funnel-validation.service.ts:45`); a deactivated or deleted step leaves its users
  where nothing is; a capture or a phone with no step after it leaves no step and no
  COMPLETED. So does the capture of a second order, made before the first was paid, of a
  user who has reached the last step by then (`payment.service.ts:573`): the next visit
  starts the walk anew on a first step that is completed. Who completes a gate by hand
  may get there too. Of two answers at once the later is kept. A list that was read
  before an edit and stored after its invalidation is served until it expires
  (`overtaken`). `verifyOtp` of the phone takes a code for a phone that is verified.
* Courses: a capture that finds the user enrolled is rolled back with its payment,
  though the code catches the error and calls it idempotent (`payment.service.ts:462`);
  the payment stays PENDING and blocks the next purchase. Two requests may render two
  certificates, of which the later is kept (`CertificateSettles`). Watching 90 %
  completes a lesson though it is locked; the lock goes by unpublished lessons, too; a
  course is counted free of enrollments and then deleted.
* Coupons: uses are counted only under a limit, so a coupon without one is deleted with
  its uses, though the comment at `coupon.service.ts:351` keeps what was used; an edit
  is not held to the rule for high discounts; the preview lets a user use a coupon twice
  when `perUserLimit` says so, and the transaction does not.
* Plans and campaigns: `createPlan` and `activatePlan` at the same time leave two active
  plans; a slug is unique only as long as requests do not meet, and two owners with the
  same slug share its numbers.
* Desk: overdue tasks are in the notifications of the administrator and not in those of
  a distributor; two tasks may get the same place on a board; of more tasks due than a
  list holds some are in none. A task may be about a lead that was handed over, because
  `createTask` goes by who brought it (`distributor-task.service.ts:81`).
* Reports: a weekly or monthly chart drops its last period when the range ends earlier
  in a week or month than it begins, and a monthly one that begins on the 29th to 31st
  passes over the months that are too short (`generate-periods.util.ts:43`):
  `ChartCovers` names both. The dashboards go by who brought a lead and the lists by
  whom it is assigned to, which differ after a hand-over. Leads of all time are counted
  before those of the period, and both may be cached over a newer report. An
  administrator's expiry may take back a payment that was counted as revenue.
* Follow-ups: a lead that was handed over can be worked on by neither the former
  distributor nor the administrator, so its follow-up stays due; the notifications of
  the former distributor go on telling it, those of the administrator never do
  (`ToldToTheirOwn`). An attribution between the two queries of `createLeadForUser`
  (`leads.service.ts:41`, `leads.service.ts:69`), or a hand-over, leaves a lead and its
  acquisition with different distributors; no property says otherwise.
* The course list reads 500 completed lessons (`courses-user.service.ts:887`): beyond,
  it shows less progress than the pages of the courses.

## 6. What is not modelled, and the plan

Not modelled, because nothing reads it back to decide: invoice documents and the picture
of a certificate, mails, the audit log, the history of subscriptions, the analytics of
videos (averages over rows and numbers of the provider), the adapters of storage, video
and images. Left out of parts that are modelled, as PROJECT.json says of each: coupons
on subscriptions, the mock activation and refunds; contents of pages and of gates;
change of name, mail address and avatar; expiry of messages; devices and growth in
percent; paging everywhere.

Next, in this order:

1. **Coupons as one story**: `CouponLedger` of Offers composed with the orders of
   CommitmentFee and the coupons of subscriptions.
2. **A session as an abstract token** that works until it is exchanged or revoked, with
   Accounts shown to implement it.

Liveness under fairness stays with TLC throughout.

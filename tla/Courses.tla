------------------------------- MODULE Courses -------------------------------
(***************************************************************************)
(* The courses: the catalogue the administrator edits, the enrollment of   *)
(* users for nothing, for a coupon or for a payment the gateway captures,  *)
(* the progress through the lessons, the completion of a course and its    *)
(* certificate, and what the pages and the report show of all this.  A     *)
(* request is a chain of steps with everything else in between: the reads  *)
(* before the first write are one step, each write is one.                 *)
(***************************************************************************)
EXTENDS Naturals, FiniteSets

CONSTANTS
    Users, CourseIds, SectionIds, LessonIds, PaymentIds,
    Absent,         \* a row that does not exist
    NoLesson,       \* what precedes the first lesson
    Orders,         \* the orders the administrator gives
    Starts,         \* the catalogues, enrollments and gateways to start from
    NewLessons,     \* what a lesson that is created or edited becomes
    Handlers,       \* requests served at the same time
    ProgressRows,   \* completed lessons that the list of courses reads at most, 500
    MaxRequests,    \* bound on the requests
    MaxDisturbances \* bound on edits of the catalogue and restarts together

\* A course that costs something is sold only when its price is set.
Course == [free : BOOLEAN, priced : BOOLEAN, published : BOOLEAN]

Section == [course : CourseIds, order : Nat]

\* video: the lesson has a duration that can be watched.
Lesson == [section : SectionIds, order : Nat, published : BOOLEAN, video : BOOLEAN,
           preview : BOOLEAN]

\* certificate: 0 when certificateUrl is null.
Enrollment == [completed : BOOLEAN, certificate : Nat]

\* watched: watchedSeconds is at least 90 % of the duration.
Progress == [done : BOOLEAN, watched : BOOLEAN]

Payment == [user : Users, course : CourseIds, status : {"PENDING", "SUCCESS", "FAILED"},
            free : BOOLEAN]

ASSUME CoursesAssumption ==
    /\ Orders \subseteq Nat
    /\ IsFiniteSet(Users) /\ IsFiniteSet(CourseIds) /\ IsFiniteSet(LessonIds)
    /\ NoLesson \notin LessonIds
    /\ NewLessons \subseteq Lesson
    /\ ProgressRows \in Nat /\ MaxRequests \in Nat /\ MaxDisturbances \in Nat

\* A missing row is no row.
ASSUME RowAssumption ==
    /\ Absent \notin Course /\ Absent \notin Section /\ Absent \notin Lesson
    /\ Absent \notin Enrollment /\ Absent \notin Progress /\ Absent \notin Payment

\* The rows there are refer to rows there are; who is enrolled is so in a free course.
ASSUME StartAssumption ==
    \A s \in Starts :
        /\ s.courses \in [CourseIds -> Course \cup {Absent}]
        /\ s.sections \in [SectionIds -> Section \cup {Absent}]
        /\ s.lessons \in [LessonIds -> Lesson \cup {Absent}]
        /\ \A n \in SectionIds : s.sections[n] # Absent => s.courses[s.sections[n].course] # Absent
        /\ \A l \in LessonIds : s.lessons[l] # Absent => s.sections[s.lessons[l].section] # Absent
        /\ \A u \in Users, c \in CourseIds :
               <<u, c>> \in s.enrolled => s.courses[c] # Absent /\ s.courses[c].free
        /\ s.provider \in {"razorpay", "mock"}

VARIABLES
    courses, sections, lessons,     \* courses, course_sections, course_lessons
    enrollment,                     \* course_enrollments, by user and course
    progress,                       \* lesson_progress, by user and lesson
    payments,                       \* payments of type LMS_COURSE
    used,                           \* users whose use of the coupon is recorded
    paid,                           \* payments the gateway has captured
    timer,                          \* the mock payments: none, set or marked
    provider,                       \* PAYMENT_PROVIDER: razorpay or mock
    call,                           \* what each handler is doing
    issued,                         \* certificates uploaded
    snapshot,                       \* the lessons a completion was counted over
    wasFree,                        \* courses that have been free
    edited,                         \* courses that were deleted or whose lessons were edited
    lost,                           \* users whose request a restart cut
    requests, disturbances

catalogue == <<courses, sections, lessons, wasFree, edited>>
money == <<payments, used, paid, timer, provider>>
learning == <<enrollment, progress, snapshot, issued>>
vars == <<catalogue, money, learning, call, lost, requests, disturbances>>

Idle == [at |-> "idle"]

\* Where a handler holds a user and a course.
OfCourse == {"insert", "take", "order", "store", "mark", "check", "count", "finish",
             "generate", "render", "link"}

----------------------------------------------------------------------------
(* The lessons of a course in their order *)

SectionsOf(c) == {n \in SectionIds : sections[n] # Absent /\ sections[n].course = c}

LessonsOf(c) ==
    {l \in LessonIds : lessons[l] # Absent /\ lessons[l].section \in SectionsOf(c)}

PublishedLessons(c) == {l \in LessonsOf(c) : lessons[l].published}

CourseOf(l) == sections[lessons[l].section].course

Place(l) == <<sections[lessons[l].section].order, lessons[l].order>>

Before(l, m) ==
    \/ Place(l)[1] < Place(m)[1]
    \/ Place(l)[1] = Place(m)[1] /\ Place(l)[2] < Place(m)[2]

\* The lesson before l among S; lessons of equal order come in any order.
Previous(l, S) ==
    LET earlier == {m \in S : Before(m, l)}
        ties == {m \in S \ {l} : Place(m) = Place(l)}
    IN  ties \cup (IF earlier = {} THEN {NoLesson}
                   ELSE {m \in earlier : \A k \in earlier : ~Before(m, k)})

Done(u, l) == progress[u][l] # Absent /\ progress[u][l].done

Unlocked(u, l, S) ==
    Previous(l, S) \cap ({NoLesson} \cup {m \in LessonIds : Done(u, m)}) # {}

Enrolled(u, c) == enrollment[u][c] # Absent

----------------------------------------------------------------------------
(* Requests *)

Ask == requests < MaxRequests /\ requests' = requests + 1

Begin(h, c) == call[h] = Idle /\ call' = [call EXCEPT ![h] = c]
Then(h, c) == call' = [call EXCEPT ![h] = c]
End(h) == call' = [call EXCEPT ![h] = Idle]

\* The row is written only if the course is there and the user has none for it.
MayInsert(u, c) == courses[c] # Absent /\ ~Enrolled(u, c)

Insert(u, c) ==
    enrollment' = [enrollment EXCEPT ![u][c] = [completed |-> FALSE, certificate |-> 0]]

----------------------------------------------------------------------------
(* Enrollment *)

\* Mutant: the price is not looked at.
BeginEnrollUnpriced(h, u, c, coupon) ==
    /\ Ask
    /\ courses[c] # Absent /\ courses[c].published
    /\ ~Enrolled(u, c)
    /\ Begin(h, [at |-> "insert", user |-> u, course |-> c])
    /\ UNCHANGED <<catalogue, money, learning, lost, disturbances>>

\* The coupon is only looked at here; "full" takes the whole price off.
BeginEnroll(h, u, c, coupon) ==
    /\ Ask
    /\ courses[c] # Absent /\ courses[c].published
    /\ ~Enrolled(u, c)
    /\ \/ /\ courses[c].free
          /\ Begin(h, [at |-> "insert", user |-> u, course |-> c])
       \/ /\ ~courses[c].free /\ courses[c].priced
          /\ coupon # "none" => u \notin used
          /\ Begin(h, [at |-> IF coupon = "full" THEN "take" ELSE "order",
                       user |-> u, course |-> c, coupon |-> coupon])
    /\ UNCHANGED <<catalogue, money, learning, lost, disturbances>>

EnrollFree(h) ==
    LET k == call[h]
    IN  /\ k.at = "insert"
        /\ End(h)
        /\ IF MayInsert(k.user, k.course) THEN Insert(k.user, k.course)
           ELSE UNCHANGED enrollment
        /\ UNCHANGED <<catalogue, money, progress, snapshot, issued, lost, requests,
                       disturbances>>

\* The use of the coupon, the payment and the enrollment are stored together or not.
TakeFree(h) ==
    LET k == call[h]
    IN  /\ k.at = "take"
        /\ End(h)
        /\ \/ /\ k.user \notin used /\ MayInsert(k.user, k.course)
              /\ used' = used \cup {k.user}
              /\ \E p \in PaymentIds :
                     /\ payments[p] = Absent
                     /\ payments' = [payments EXCEPT ![p] =
                            [user |-> k.user, course |-> k.course, status |-> "SUCCESS",
                             free |-> TRUE]]
              /\ Insert(k.user, k.course)
           \/ /\ k.user \in used \/ ~MayInsert(k.user, k.course)
              /\ UNCHANGED <<used, payments, enrollment>>
        /\ UNCHANGED <<catalogue, paid, timer, provider, progress, snapshot, issued, lost,
                       requests, disturbances>>

\* The order exists at the gateway; a payment pending for any course refuses.
GuardPending(h) ==
    LET k == call[h]
    IN  /\ k.at = "order"
        /\ IF \E p \in PaymentIds : payments[p] # Absent /\ payments[p].user = k.user
                                        /\ payments[p].status = "PENDING"
           THEN End(h) ELSE Then(h, [k EXCEPT !.at = "store"])
        /\ UNCHANGED <<catalogue, money, learning, lost, requests, disturbances>>

StorePayment(h) ==
    LET k == call[h]
    IN  /\ k.at = "store"
        /\ End(h)
        /\ \/ /\ k.coupon = "part" /\ k.user \in used
              /\ UNCHANGED <<used, payments, timer>>
           \/ /\ k.coupon = "none" \/ k.user \notin used
              /\ used' = IF k.coupon = "part" THEN used \cup {k.user} ELSE used
              /\ \E p \in PaymentIds :
                     /\ payments[p] = Absent
                     /\ payments' = [payments EXCEPT ![p] =
                            [user |-> k.user, course |-> k.course, status |-> "PENDING",
                             free |-> FALSE]]
                     /\ timer' = IF provider = "mock" THEN [timer EXCEPT ![p] = "set"] ELSE timer
        /\ UNCHANGED <<catalogue, paid, provider, learning, lost, requests, disturbances>>

----------------------------------------------------------------------------
(* The money arrives *)

\* The mock gateway answers itself: first the payment, then the enrollment.
MockPayment(p) ==
    /\ timer[p] = "set"
    /\ timer' = [timer EXCEPT ![p] = "marked"]
    /\ payments' = [payments EXCEPT ![p].status = "SUCCESS"]
    /\ UNCHANGED <<catalogue, used, paid, provider, learning, call, lost, requests, disturbances>>

MockEnrollment(p) ==
    LET q == payments[p]
    IN  /\ timer[p] = "marked"
        /\ timer' = [timer EXCEPT ![p] = "none"]
        /\ IF MayInsert(q.user, q.course) THEN Insert(q.user, q.course) ELSE UNCHANGED enrollment
        /\ UNCHANGED <<catalogue, payments, used, paid, provider, progress, snapshot, issued, call,
                       lost, requests, disturbances>>

\* The user pays at the gateway.
Pay(p) ==
    /\ provider = "razorpay"
    /\ payments[p] # Absent /\ ~payments[p].free /\ p \notin paid
    /\ paid' = paid \cup {p}
    /\ UNCHANGED <<catalogue, payments, used, timer, provider, learning, call, lost, requests,
                   disturbances>>

\* payment.captured, delivered as often as the gateway likes.
BeginCapture(h, p) ==
    /\ Ask
    /\ p \in paid
    /\ payments[p].status # "SUCCESS"
    /\ Begin(h, [at |-> "capture", payment |-> p, user |-> payments[p].user])
    /\ UNCHANGED <<catalogue, money, learning, lost, disturbances>>

\* Mutant: the failed insert is ignored and the payment is kept.
CaptureKeepsPayment(h) ==
    LET p == call[h].payment
        q == payments[p]
    IN  /\ call[h].at = "capture"
        /\ End(h)
        /\ payments' = [payments EXCEPT ![p].status = "SUCCESS"]
        /\ IF MayInsert(q.user, q.course) THEN Insert(q.user, q.course) ELSE UNCHANGED enrollment
        /\ UNCHANGED <<catalogue, used, paid, timer, provider, progress, snapshot, issued, lost,
                       requests, disturbances>>

\* One transaction: an insert that fails takes the payment's status back with it,
\* though the error is caught.
Capture(h) ==
    LET p == call[h].payment
        q == payments[p]
    IN  /\ call[h].at = "capture"
        /\ End(h)
        /\ IF MayInsert(q.user, q.course)
           THEN /\ payments' = [payments EXCEPT ![p].status = "SUCCESS"]
                /\ Insert(q.user, q.course)
           ELSE UNCHANGED <<payments, enrollment>>
        /\ UNCHANGED <<catalogue, used, paid, timer, provider, progress, snapshot, issued, lost,
                       requests, disturbances>>

\* payment.failed for an attempt of the order.
PaymentFailed(p) ==
    /\ provider = "razorpay"
    /\ payments[p] # Absent /\ payments[p].status = "PENDING"
    /\ payments' = [payments EXCEPT ![p].status = "FAILED"]
    /\ UNCHANGED <<catalogue, used, paid, timer, provider, learning, call, lost, requests,
                   disturbances>>

----------------------------------------------------------------------------
(* Lessons *)

\* The progress of a video: at 90 % it completes the lesson, locked or not.
BeginProgress(h, u, l, watched) ==
    /\ Ask
    /\ lessons[l] # Absent /\ Enrolled(u, CourseOf(l))
    /\ Begin(h, [at |-> "mark", user |-> u, course |-> CourseOf(l), lesson |-> l,
                 done |-> watched /\ lessons[l].video, watched |-> watched])
    /\ UNCHANGED <<catalogue, money, learning, lost, disturbances>>

\* Mutant: the lock is not looked at.
BeginCompleteLocked(h, u, l) ==
    /\ Ask
    /\ lessons[l] # Absent /\ Enrolled(u, CourseOf(l))
    /\ lessons[l].video => progress[u][l] # Absent /\ progress[u][l].watched
    /\ Begin(h, [at |-> "mark", user |-> u, course |-> CourseOf(l), lesson |-> l,
                 done |-> TRUE, watched |-> FALSE])
    /\ UNCHANGED <<catalogue, money, learning, lost, disturbances>>

BeginComplete(h, u, l) ==
    /\ Ask
    /\ lessons[l] # Absent /\ Enrolled(u, CourseOf(l))
    /\ Unlocked(u, l, LessonsOf(CourseOf(l)))
    /\ lessons[l].video => progress[u][l] # Absent /\ progress[u][l].watched
    /\ Begin(h, [at |-> "mark", user |-> u, course |-> CourseOf(l), lesson |-> l,
                 done |-> TRUE, watched |-> FALSE])
    /\ UNCHANGED <<catalogue, money, learning, lost, disturbances>>

\* A completion by hand keeps the seconds that were saved.
Watched(k, old) == IF k.done /\ ~k.watched THEN old # Absent /\ old.watched ELSE k.watched

\* Mutant: the row is written for a lesson that is gone.
MarkLessonAnyway(h) ==
    LET k == call[h]
        old == progress[k.user][k.lesson]
    IN  /\ k.at = "mark"
        /\ progress' = [progress EXCEPT ![k.user][k.lesson] =
               [done |-> k.done \/ (old # Absent /\ old.done), watched |-> Watched(k, old)]]
        /\ IF k.done
           THEN Then(h, [at |-> "check", user |-> k.user, course |-> k.course])
           ELSE End(h)
        /\ UNCHANGED <<catalogue, money, enrollment, snapshot, issued, lost, requests,
                       disturbances>>

\* The upsert; what is done stays done.  A lesson deleted meanwhile has no row.
MarkLesson(h) ==
    LET k == call[h]
        old == progress[k.user][k.lesson]
    IN  /\ k.at = "mark"
        /\ IF lessons[k.lesson] = Absent
           THEN End(h) /\ UNCHANGED progress
           ELSE /\ progress' = [progress EXCEPT ![k.user][k.lesson] =
                                    [done |-> k.done \/ (old # Absent /\ old.done),
                                     watched |-> Watched(k, old)]]
                /\ IF k.done
                   THEN Then(h, [at |-> "check", user |-> k.user, course |-> k.course])
                   ELSE End(h)
        /\ UNCHANGED <<catalogue, money, enrollment, snapshot, issued, lost, requests,
                       disturbances>>

----------------------------------------------------------------------------
(* Completion and certificate *)

\* The enrollment and the published lessons are read.
ReadLessons(h) ==
    LET k == call[h]
    IN  /\ k.at = "check"
        /\ IF ~Enrolled(k.user, k.course) \/ PublishedLessons(k.course) = {}
           THEN End(h)
           ELSE IF enrollment[k.user][k.course].completed THEN End(h)
           ELSE Then(h, [at |-> "count", user |-> k.user, course |-> k.course,
                         lessons |-> PublishedLessons(k.course)])
        /\ UNCHANGED <<catalogue, money, learning, lost, requests, disturbances>>

\* Mutant: one lesson may be missing.
CountLessonsAllButOne(h) ==
    LET k == call[h]
        count == Cardinality({l \in k.lessons : Done(k.user, l)})
    IN  /\ k.at = "count"
        /\ IF count + 1 >= Cardinality(k.lessons) THEN Then(h, [k EXCEPT !.at = "finish"]) ELSE End(h)
        /\ UNCHANGED <<catalogue, money, learning, lost, requests, disturbances>>

\* Mutant: more than all lessons have to be done.
CountLessonsStrict(h) ==
    LET k == call[h]
        count == Cardinality({l \in k.lessons : Done(k.user, l)})
    IN  /\ k.at = "count"
        /\ IF count > Cardinality(k.lessons) THEN Then(h, [k EXCEPT !.at = "finish"]) ELSE End(h)
        /\ UNCHANGED <<catalogue, money, learning, lost, requests, disturbances>>

CountLessons(h) ==
    LET k == call[h]
        count == Cardinality({l \in k.lessons : Done(k.user, l)})
    IN  /\ k.at = "count"
        /\ IF count >= Cardinality(k.lessons) THEN Then(h, [k EXCEPT !.at = "finish"]) ELSE End(h)
        /\ UNCHANGED <<catalogue, money, learning, lost, requests, disturbances>>

\* Mutant: nobody asks for the certificate.
FinishCourseQuietly(h) ==
    LET k == call[h]
    IN  /\ k.at = "finish"
        /\ End(h)
        /\ IF Enrolled(k.user, k.course)
           THEN /\ enrollment' = [enrollment EXCEPT ![k.user][k.course].completed = TRUE]
                /\ snapshot' = [snapshot EXCEPT ![k.user][k.course] = k.lessons]
           ELSE UNCHANGED <<enrollment, snapshot>>
        /\ UNCHANGED <<catalogue, money, progress, issued, lost, requests, disturbances>>

\* completedAt is set, again if two requests come here; the certificate is left
\* to a task nobody waits for.
FinishCourse(h) ==
    LET k == call[h]
    IN  /\ k.at = "finish"
        /\ IF Enrolled(k.user, k.course)
           THEN /\ enrollment' = [enrollment EXCEPT ![k.user][k.course].completed = TRUE]
                /\ snapshot' = [snapshot EXCEPT ![k.user][k.course] = k.lessons]
                /\ Then(h, [at |-> "generate", user |-> k.user, course |-> k.course])
           ELSE End(h) /\ UNCHANGED <<enrollment, snapshot>>
        /\ UNCHANGED <<catalogue, money, progress, issued, lost, requests, disturbances>>

\* Mutant: a certificate may be had before the course is completed.
GetCertificateEarly(h, u, c) ==
    /\ Ask
    /\ Enrolled(u, c)
    /\ Begin(h, [at |-> "render", user |-> u, course |-> c])
    /\ UNCHANGED <<catalogue, money, learning, lost, disturbances>>

GetCertificate(h, u, c) ==
    /\ Ask
    /\ Enrolled(u, c)
    /\ enrollment[u][c].completed
    /\ enrollment[u][c].certificate = 0
    /\ Begin(h, [at |-> "generate", user |-> u, course |-> c])
    /\ UNCHANGED <<catalogue, money, learning, lost, disturbances>>

\* Mutant: a certificate that is there already is rendered once more.
BeginGenerateAgain(h) ==
    LET k == call[h]
    IN  /\ k.at = "generate"
        /\ IF ~Enrolled(k.user, k.course) THEN End(h)
           ELSE Then(h, [k EXCEPT !.at = "render"])
        /\ UNCHANGED <<catalogue, money, learning, lost, requests, disturbances>>

BeginGenerate(h) ==
    LET k == call[h]
    IN  /\ k.at = "generate"
        /\ IF ~Enrolled(k.user, k.course) THEN End(h)
           ELSE IF enrollment[k.user][k.course].certificate # 0 THEN End(h)
           ELSE Then(h, [k EXCEPT !.at = "render"])
        /\ UNCHANGED <<catalogue, money, learning, lost, requests, disturbances>>

\* The PDF is rendered and uploaded under a new id.
GeneratePdf(h) ==
    LET k == call[h]
    IN  /\ k.at = "render"
        /\ issued' = issued + 1
        /\ Then(h, [at |-> "link", user |-> k.user, course |-> k.course, certificate |-> issued + 1])
        /\ UNCHANGED <<catalogue, money, enrollment, progress, snapshot, lost, requests,
                       disturbances>>

\* The browser or the storage fails: the task ends in the log.
GeneratePdfFails(h) ==
    /\ call[h].at = "render"
    /\ disturbances < MaxDisturbances
    /\ disturbances' = disturbances + 1
    /\ lost' = lost \cup {call[h].user}
    /\ End(h)
    /\ UNCHANGED <<catalogue, money, learning, requests>>

StoreCertificate(h) ==
    LET k == call[h]
    IN  /\ k.at = "link"
        /\ End(h)
        /\ IF Enrolled(k.user, k.course)
           THEN enrollment' = [enrollment EXCEPT ![k.user][k.course].certificate = k.certificate]
           ELSE UNCHANGED enrollment
        /\ UNCHANGED <<catalogue, money, progress, snapshot, issued, lost, requests, disturbances>>

----------------------------------------------------------------------------
(* The administrator *)

Edit ==
    /\ disturbances < MaxDisturbances
    /\ disturbances' = disturbances + 1
    /\ UNCHANGED <<money, lost, requests>>

SetCourse(c, row) ==
    /\ courses' = [courses EXCEPT ![c] = row]
    /\ wasFree' = IF row # Absent /\ row.free THEN wasFree \cup {c} ELSE wasFree

\* The id of a course that was deleted is not given again.
CreateCourse(c, free, priced) ==
    /\ Edit
    /\ courses[c] = Absent /\ c \notin edited
    /\ free => ~priced
    /\ SetCourse(c, [free |-> free, priced |-> priced, published |-> FALSE])
    /\ UNCHANGED <<sections, lessons, edited, learning, call>>

UpdateCourse(c, free, priced) ==
    /\ Edit
    /\ courses[c] # Absent
    /\ SetCourse(c, [courses[c] EXCEPT !.free = free, !.priced = priced])
    /\ UNCHANGED <<sections, lessons, edited, learning, call>>

PublishCourse(c, published) ==
    /\ Edit
    /\ courses[c] # Absent
    /\ SetCourse(c, [courses[c] EXCEPT !.published = published])
    /\ UNCHANGED <<sections, lessons, edited, learning, call>>

\* The enrollments are counted first, the course is deleted then, with whatever
\* was enrolled in between.
BeginDeleteCourse(h, c) ==
    /\ Edit
    /\ courses[c] # Absent
    /\ \A u \in Users : ~Enrolled(u, c)
    /\ Begin(h, [at |-> "delete", course |-> c])
    /\ UNCHANGED <<catalogue, learning>>

\* Rows that go take theirs with them.
Without(gone) ==
    /\ lessons' = [l \in LessonIds |-> IF l \in gone THEN Absent ELSE lessons[l]]
    /\ progress' = [u \in Users |->
           [l \in LessonIds |-> IF l \in gone THEN Absent ELSE progress[u][l]]]

DeleteCourse(h) ==
    LET c == call[h].course
    IN  /\ call[h].at = "delete"
        /\ End(h)
        /\ SetCourse(c, Absent)
        /\ Without(LessonsOf(c))
        /\ sections' = [n \in SectionIds |-> IF n \in SectionsOf(c) THEN Absent ELSE sections[n]]
        /\ enrollment' = [u \in Users |-> [enrollment[u] EXCEPT ![c] = Absent]]
        /\ snapshot' = [u \in Users |-> [snapshot[u] EXCEPT ![c] = {}]]
        /\ edited' = edited \cup {c}
        /\ UNCHANGED <<money, issued, lost, requests, disturbances>>

CreateSection(n, c, order) ==
    /\ Edit
    /\ courses[c] # Absent /\ sections[n] = Absent
    /\ sections' = [sections EXCEPT ![n] = [course |-> c, order |-> order]]
    /\ edited' = edited \cup {c}
    /\ UNCHANGED <<courses, lessons, wasFree, learning, call>>

UpdateSection(n, order) ==
    /\ Edit
    /\ sections[n] # Absent
    /\ sections' = [sections EXCEPT ![n].order = order]
    /\ edited' = edited \cup {sections[n].course}
    /\ UNCHANGED <<courses, lessons, wasFree, learning, call>>

DeleteSection(n) ==
    /\ Edit
    /\ sections[n] # Absent
    /\ Without({l \in LessonIds : lessons[l] # Absent /\ lessons[l].section = n})
    /\ sections' = [sections EXCEPT ![n] = Absent]
    /\ edited' = edited \cup {sections[n].course}
    /\ UNCHANGED <<courses, wasFree, enrollment, snapshot, issued, call>>

\* The sections given are numbered from 1, in one transaction.
ReorderSections(S, place) ==
    /\ Edit
    /\ \A n \in S : sections[n] # Absent
    /\ sections' = [n \in SectionIds |->
           IF n \in S THEN [sections[n] EXCEPT !.order = place[n]] ELSE sections[n]]
    /\ edited' = edited \cup {sections[n].course : n \in S}
    /\ UNCHANGED <<courses, lessons, wasFree, learning, call>>

CreateLesson(l, row) ==
    /\ Edit
    /\ lessons[l] = Absent /\ sections[row.section] # Absent
    /\ lessons' = [lessons EXCEPT ![l] = row]
    /\ edited' = edited \cup {sections[row.section].course}
    /\ UNCHANGED <<courses, sections, wasFree, learning, call>>

UpdateLesson(l, row) ==
    /\ Edit
    /\ lessons[l] # Absent /\ row.section = lessons[l].section
    /\ lessons' = [lessons EXCEPT ![l] = row]
    /\ edited' = edited \cup {CourseOf(l)}
    /\ UNCHANGED <<courses, sections, wasFree, learning, call>>

DeleteLesson(l) ==
    /\ Edit
    /\ lessons[l] # Absent
    /\ Without({l})
    /\ edited' = edited \cup {CourseOf(l)}
    /\ UNCHANGED <<courses, sections, wasFree, enrollment, snapshot, issued, call>>

ReorderLessons(S, place) ==
    /\ Edit
    /\ \A l \in S : lessons[l] # Absent
    /\ lessons' = [l \in LessonIds |->
           IF l \in S THEN [lessons[l] EXCEPT !.order = place[l]] ELSE lessons[l]]
    /\ edited' = edited \cup {CourseOf(l) : l \in S}
    /\ UNCHANGED <<courses, sections, wasFree, learning, call>>

\* The server restarts: requests, certificates and mock payments under way are gone.
Restart ==
    /\ disturbances < MaxDisturbances
    /\ disturbances' = disturbances + 1
    /\ call' = [h \in Handlers |-> Idle]
    /\ timer' = [p \in PaymentIds |-> "none"]
    /\ lost' = lost \cup {u \in Users : \E h \in Handlers :
                              call[h].at \in OfCourse \cup {"capture"} /\ call[h].user = u}
                    \cup {payments[p].user : p \in {p \in PaymentIds : timer[p] # "none"}}
    /\ UNCHANGED <<catalogue, payments, used, paid, provider, learning, requests>>

----------------------------------------------------------------------------
(* What the pages show *)

Percent(some, all) ==
    IF all = {} THEN 0
    ELSE (200 * Cardinality(some) + Cardinality(all)) \div (2 * Cardinality(all))

DoneOf(u, S) == {l \in S : Done(u, l)}

\* The courses in the list, and what of the user's completed lessons in them is read
\* for it: all, or some when there are more than ProgressRows.
Listed == {c \in CourseIds : courses[c] # Absent /\ courses[c].published}

CompletedIn(u) == DoneOf(u, UNION {LessonsOf(c) : c \in {c \in Listed : Enrolled(u, c)}})

ProgressRead(u) ==
    LET all == CompletedIn(u)
    IN  IF Cardinality(all) <= ProgressRows THEN {all}
        ELSE {rows \in SUBSET all : Cardinality(rows) = ProgressRows}

\* Mutant: only what is published counts in the list.
BuildProgressMapPublished(c, rows) == Percent(rows \cap PublishedLessons(c), PublishedLessons(c))

\* The progress in the list of courses, over every lesson of the course.
BuildProgressMap(c, rows) == Percent(rows \cap LessonsOf(c), LessonsOf(c))

FindAllPublished(u, rows) ==
    [c \in Listed |->
        [enrolled |-> Enrolled(u, c), lessons |-> Cardinality(LessonsOf(c)),
         enrollments |-> Cardinality({v \in Users : Enrolled(v, c)}),
         progress |-> IF Enrolled(u, c) THEN BuildProgressMap(c, rows) ELSE 0]]

\* The page of a course: content for previews only, or else the locks.
FindOneCourse(u, c) ==
    IF courses[c] = Absent \/ ~courses[c].published THEN [found |-> FALSE]
    ELSE [found |-> TRUE, enrolled |-> Enrolled(u, c),
          completed |-> Enrolled(u, c) /\ enrollment[u][c].completed,
          progress |-> IF Enrolled(u, c) THEN Percent(DoneOf(u, LessonsOf(c)), LessonsOf(c)) ELSE 0,
          content |-> IF Enrolled(u, c) THEN {} ELSE {l \in LessonsOf(c) : lessons[l].preview},
          open |-> IF Enrolled(u, c)
                   THEN {l \in LessonsOf(c) : Unlocked(u, l, LessonsOf(c))} ELSE {}]

\* Where one learns: the published lessons, locked by the one before among them.
GetCourseLearnContent(u, c) ==
    IF courses[c] = Absent \/ ~courses[c].published \/ ~Enrolled(u, c) THEN [found |-> FALSE]
    ELSE [found |-> TRUE, content |-> PublishedLessons(c),
          open |-> {l \in PublishedLessons(c) : Unlocked(u, l, PublishedLessons(c))},
          done |-> DoneOf(u, PublishedLessons(c))]

GetMyCourses(u) ==
    [c \in {c \in CourseIds : Enrolled(u, c)} |->
        [completed |-> enrollment[u][c].completed, certificate |-> enrollment[u][c].certificate,
         lessons |-> Cardinality(LessonsOf(c)), done |-> Cardinality(DoneOf(u, LessonsOf(c))),
         progress |-> Percent(DoneOf(u, LessonsOf(c)), LessonsOf(c))]]

\* Mutant: an unpublished lesson is shown to nobody.
GetSingleLessonPublished(u, l) ==
    /\ lessons[l] # Absent /\ lessons[l].published
    /\ Enrolled(u, CourseOf(l))
    /\ Unlocked(u, l, LessonsOf(CourseOf(l)))

\* Who is enrolled opens a lesson that is not locked, published or not.
GetSingleLesson(u, l) ==
    /\ lessons[l] # Absent
    /\ Enrolled(u, CourseOf(l))
    /\ Unlocked(u, l, LessonsOf(CourseOf(l)))

\* A new signed URL for the video, locked or not.
RefreshLessonToken(u, l) ==
    lessons[l] # Absent /\ lessons[l].video /\ Enrolled(u, CourseOf(l))

Enrollments(c) == {u \in Users : Enrolled(u, c)}

Completions(c) == {u \in Enrollments(c) : enrollment[u][c].completed}

\* The course report of the administrator; averages in percent.
GetAnalytics ==
    LET all == UNION {Enrollments(c) \X {c} : c \in CourseIds}
        completed == UNION {Completions(c) \X {c} : c \in CourseIds}
    IN  [totalCourses |-> Cardinality({c \in CourseIds : courses[c] # Absent}),
         totalEnrollments |-> Cardinality(all),
         totalCompletions |-> Cardinality(completed),
         completionRate |-> Percent(completed, all),
         certificatesIssued |->
             Cardinality({e \in all : enrollment[e[1]][e[2]].certificate # 0}),
         courses |-> [c \in {c \in CourseIds : courses[c] # Absent} |->
             LET open == Enrollments(c)
                 cells == open \X LessonsOf(c)
             IN  [enrollments |-> Cardinality(open),
                  completions |-> Cardinality(Completions(c)),
                  completionRate |-> Percent(Completions(c), open),
                  avgProgress |-> Percent({e \in cells : Done(e[1], e[2])}, cells)]]]

----------------------------------------------------------------------------

Init ==
    /\ \E s \in Starts :
           /\ provider = s.provider
           /\ courses = s.courses /\ sections = s.sections /\ lessons = s.lessons
           /\ enrollment = [u \in Users |-> [c \in CourseIds |->
                  IF <<u, c>> \in s.enrolled THEN [completed |-> FALSE, certificate |-> 0]
                  ELSE Absent]]
    /\ wasFree = {c \in CourseIds : courses[c] # Absent /\ courses[c].free}
    /\ progress = [u \in Users |-> [l \in LessonIds |-> Absent]]
    /\ payments = [p \in PaymentIds |-> Absent]
    /\ used = {} /\ paid = {} /\ issued = 0 /\ edited = {} /\ lost = {}
    /\ timer = [p \in PaymentIds |-> "none"]
    /\ call = [h \in Handlers |-> Idle]
    /\ snapshot = [u \in Users |-> [c \in CourseIds |-> {}]]
    /\ requests = 0 /\ disturbances = 0

\* The routes of the users: enroll, and what one does with a lesson or a course.
EnrollRoute(h) ==
    \E u \in Users, c \in CourseIds, coupon \in {"none", "part", "full"} :
        BeginEnroll(h, u, c, coupon)

LearnRoutes(h) ==
    \E u \in Users :
        \/ \E l \in LessonIds :
               \/ \E watched \in BOOLEAN : BeginProgress(h, u, l, watched)
               \/ BeginComplete(h, u, l)
        \/ \E c \in CourseIds : GetCertificate(h, u, c)

GatewayRoutes(h) == \E p \in PaymentIds : BeginCapture(h, p)

Pays == \E p \in PaymentIds : Pay(p) \/ PaymentFailed(p)

Timers == \E p \in PaymentIds : MockPayment(p) \/ MockEnrollment(p)

\* A handler goes on with its request.
Proceed(h) ==
    \/ EnrollFree(h) \/ TakeFree(h) \/ GuardPending(h) \/ StorePayment(h)
    \/ Capture(h)
    \/ MarkLesson(h) \/ ReadLessons(h) \/ CountLessons(h) \/ FinishCourse(h)
    \/ BeginGenerate(h) \/ GeneratePdf(h) \/ StoreCertificate(h)
    \/ DeleteCourse(h)

\* The routes of the administrator: courses.
CourseRoutes ==
    \E c \in CourseIds :
        \/ \E free, priced \in BOOLEAN : CreateCourse(c, free, priced) \/ UpdateCourse(c, free, priced)
        \/ \E published \in BOOLEAN : PublishCourse(c, published)
        \/ \E h \in Handlers : BeginDeleteCourse(h, c)

\* Places for some of the rows: 1, 2, ... in any order.
Rankings(S) ==
    {f \in [S -> 1..Cardinality(S)] : \A a, b \in S : a # b => f[a] # f[b]}

SectionRoutes ==
    \/ \E n \in SectionIds :
           \/ \E order \in Orders : UpdateSection(n, order) \/ \E c \in CourseIds : CreateSection(n, c, order)
           \/ DeleteSection(n)
    \/ \E S \in SUBSET SectionIds : \E place \in Rankings(S) : ReorderSections(S, place)

LessonRoutes ==
    \/ \E l \in LessonIds :
           \/ \E row \in NewLessons : CreateLesson(l, row) \/ UpdateLesson(l, row)
           \/ DeleteLesson(l)
    \/ \E S \in SUBSET LessonIds : \E place \in Rankings(S) : ReorderLessons(S, place)

Next ==
    \/ \E h \in Handlers :
           \/ EnrollRoute(h) \/ LearnRoutes(h) \/ GatewayRoutes(h)
           \/ Proceed(h) \/ GeneratePdfFails(h)
    \/ Pays \/ Timers
    \/ CourseRoutes \/ SectionRoutes \/ LessonRoutes
    \/ Restart

\* The server goes on with the requests it has accepted, and its timers fire.
Fairness ==
    /\ \A h \in Handlers : WF_vars(Proceed(h))
    /\ WF_vars(Timers)

Spec == Init /\ [][Next]_vars

FairSpec == Spec /\ Fairness

----------------------------------------------------------------------------
(* What should hold *)

\* The rows have their types and belong to rows that exist: no progress on a lesson
\* that is gone, no enrollment in a course that is gone (the rows that deleting a
\* section, a lesson or a course takes with it, against requests under way).
TypeOK ==
    /\ courses \in [CourseIds -> Course \cup {Absent}]
    /\ sections \in [SectionIds -> Section \cup {Absent}]
    /\ lessons \in [LessonIds -> Lesson \cup {Absent}]
    /\ \A u \in Users, c \in CourseIds : enrollment[u][c] \in Enrollment \cup {Absent}
    /\ \A u \in Users, l \in LessonIds : progress[u][l] \in Progress \cup {Absent}
    /\ \A u \in Users, c \in CourseIds : Enrolled(u, c) => courses[c] # Absent
    /\ \A u \in Users, l \in LessonIds : progress[u][l] # Absent => lessons[l] # Absent
    /\ \A n \in SectionIds : sections[n] # Absent => courses[sections[n].course] # Absent
    /\ \A l \in LessonIds : lessons[l] # Absent => sections[lessons[l].section] # Absent
    /\ payments \in [PaymentIds -> Payment \cup {Absent}]
    /\ used \subseteq Users /\ paid \subseteq PaymentIds
    /\ timer \in [PaymentIds -> {"none", "set", "marked"}]

Succeeded(u, c) ==
    {p \in PaymentIds : payments[p] # Absent /\ payments[p].user = u /\ payments[p].course = c
                            /\ payments[p].status = "SUCCESS"}

\* Nobody is enrolled in a course that has always cost something without a
\* payment that succeeded (enroll and the capture, with the price changing between
\* the look at it and the row).
EnrollmentHasGround ==
    \A u \in Users, c \in CourseIds :
        Enrolled(u, c) => c \in wasFree \/ Succeeded(u, c) # {}

\* With the real gateway a course is sold once to a user, however many orders
\* captures and coupons meet, and what was sold is there unless the course was
\* deleted under the buyer.
SoldOnce ==
    provider = "razorpay" =>
        \A u \in Users, c \in CourseIds :
            /\ Cardinality(Succeeded(u, c)) <= 1
            /\ Succeeded(u, c) # {} /\ c \notin edited => Enrolled(u, c)

\* A course is completed only over lessons that were all done, and not over none;
\* those that were not deleted since are done still.
CompletionWasEarned ==
    \A u \in Users, c \in CourseIds :
        Enrolled(u, c) /\ enrollment[u][c].completed =>
            /\ snapshot[u][c] # {}
            /\ \A l \in snapshot[u][c] : lessons[l] # Absent /\ c \notin edited => Done(u, l)

Serving(u, c) ==
    \E h \in Handlers : call[h].at \in OfCourse /\ call[h].user = u /\ call[h].course = c

\* Who has done every published lesson of a course nobody edited, loses no request
\* to a restart and has none under way, has completed the course: two requests that
\* finish the last lessons together do not both leave it to the other.
NotLeftOpen ==
    \A u \in Users, c \in CourseIds :
        /\ Enrolled(u, c) /\ c \notin edited /\ u \notin lost /\ ~Serving(u, c)
        /\ PublishedLessons(c) # {} /\ DoneOf(u, PublishedLessons(c)) = PublishedLessons(c)
        => enrollment[u][c].completed

\* In a course nobody edited, a lesson without a video is done only after the one
\* before it.
TextInOrder ==
    \A u \in Users, l \in LessonIds :
        lessons[l] # Absent /\ ~lessons[l].video /\ Done(u, l) /\ CourseOf(l) \notin edited =>
            Unlocked(u, l, LessonsOf(CourseOf(l)))

\* The list of courses never shows more progress than the page of the course, and shows
\* the same while no more lessons are completed than it reads; the user's own courses
\* always do.  The locks of the two course pages are those of the lesson page while
\* every lesson is published and no two have the same place.
PagesAgree ==
    \A u \in Users, c \in CourseIds :
        Enrolled(u, c) /\ courses[c].published =>
            /\ \A rows \in ProgressRead(u) :
                   LET listed == FindAllPublished(u, rows)[c].progress
                   IN  /\ listed <= FindOneCourse(u, c).progress
                       /\ Cardinality(CompletedIn(u)) <= ProgressRows =>
                              listed = FindOneCourse(u, c).progress
            /\ GetMyCourses(u)[c].progress = FindOneCourse(u, c).progress
            /\ PublishedLessons(c) = LessonsOf(c)
                   /\ (\A l, m \in LessonsOf(c) : l # m => Place(l) # Place(m))
               => /\ GetCourseLearnContent(u, c).open = FindOneCourse(u, c).open
                  /\ FindOneCourse(u, c).open = {l \in LessonsOf(c) : GetSingleLesson(u, l)}

\* The report counts no certificate without a completion and no completion without
\* an enrollment, and its totals are those of the courses.
ReportAddsUp ==
    LET report == GetAnalytics
    IN  /\ report.certificatesIssued <= report.totalCompletions
        /\ report.totalCompletions <= report.totalEnrollments
        /\ \A c \in DOMAIN report.courses :
               report.courses[c].completions <= report.courses[c].enrollments
        /\ report.totalEnrollments > 0 => \E c \in DOMAIN report.courses :
               report.courses[c].completionRate >= report.completionRate

Generating(u, c) ==
    \E h \in Handlers : call[h].at \in {"render", "link"}
                            /\ call[h].user = u /\ call[h].course = c

\* A certificate that is stored stays the same unless another was being rendered
\* before it was stored.
CertificateSettles ==
    [][\A u \in Users, c \in CourseIds :
           /\ Enrolled(u, c) /\ enrollment[u][c].certificate # 0 /\ ~Generating(u, c)
           /\ enrollment'[u][c] # Absent
           => /\ enrollment'[u][c].certificate = enrollment[u][c].certificate
              /\ ~Generating(u, c)']_vars

\* A lesson that could be opened can be opened while nothing but the publication
\* of lessons and courses changes: who paid keeps access.
AccessKept ==
    [][\A u \in Users, l \in LessonIds :
           /\ GetSingleLesson(u, l)
           /\ sections' = sections
           /\ \A m \in LessonIds : lessons'[m] = lessons[m]
                  \/ (lessons[m] # Absent /\ lessons'[m] # Absent
                          /\ lessons'[m].order = lessons[m].order)
           => GetSingleLesson(u, l)']_vars

\* Who completes a course gets the certificate unless a restart or a failure of
\* the browser or the storage cuts the task, or the course goes.
CertificateArrives ==
    \A u \in Users, c \in CourseIds :
        (Enrolled(u, c) /\ enrollment[u][c].completed)
            ~> (~Enrolled(u, c) \/ u \in lost \/ (Enrolled(u, c) /\ enrollment[u][c].certificate # 0))

\* Rows belong to rows that exist, and enrollments are free or paid for, once.
EnrollmentsSound == TypeOK /\ EnrollmentHasGround /\ SoldOnce

\* Lessons are done in their order and a course is completed when they are done.
CompletionsSound == CompletionWasEarned /\ NotLeftOpen /\ TextInOrder

\* What learners and the administrator are shown agrees.
PagesSound == PagesAgree /\ ReportAddsUp

\* What a user was given, access and a certificate, stays as it is.
GivenStays == AccessKept /\ CertificateSettles
=============================================================================

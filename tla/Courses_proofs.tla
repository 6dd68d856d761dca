---------------------------- MODULE Courses_proofs ----------------------------
(***************************************************************************)
(* Proofs about the courses.  The rows agree with each other, a handler    *)
(* holds what was true when it read, and what it holds stays true because  *)
(* payments that succeeded stay, lessons stay done, and a course is marked *)
(* as edited whenever its lessons change.                                  *)
(***************************************************************************)
EXTENDS Courses, FiniteSetTheorems, FunctionTheorems, TLAPS

----------------------------------------------------------------------------
(* The invariant *)

CatalogueInv ==
    /\ courses \in [CourseIds -> Course \cup {Absent}]
    /\ sections \in [SectionIds -> Section \cup {Absent}]
    /\ lessons \in [LessonIds -> Lesson \cup {Absent}]
    /\ \A n \in SectionIds : sections[n] # Absent => courses[sections[n].course] # Absent
    /\ \A l \in LessonIds : lessons[l] # Absent => sections[lessons[l].section] # Absent
    /\ \A c \in CourseIds : courses[c] # Absent => (courses[c].free => c \in wasFree)

\* A payment the gateway or a timer holds is stored; timers are of the mock gateway.
MoneyInv ==
    /\ payments \in [PaymentIds -> Payment \cup {Absent}]
    /\ used \subseteq Users /\ paid \subseteq PaymentIds
    /\ timer \in [PaymentIds -> {"none", "set", "marked"}]
    /\ \A p \in PaymentIds : p \in paid => payments[p] # Absent
    /\ \A p \in PaymentIds : timer[p] # "none" => payments[p] # Absent /\ provider = "mock"
    /\ \A p \in PaymentIds : timer[p] = "marked" => payments[p].status = "SUCCESS"

\* A payment that succeeded gave an enrollment, and another would need one more.
Sold ==
    provider = "razorpay" =>
        /\ \A p, q \in PaymentIds :
               /\ payments[p] # Absent /\ payments[q] # Absent
               /\ payments[p].status = "SUCCESS" /\ payments[q].status = "SUCCESS"
               /\ payments[p].user = payments[q].user /\ payments[p].course = payments[q].course
               => p = q
        /\ \A p \in PaymentIds :
               payments[p] # Absent /\ payments[p].status = "SUCCESS" =>
                   \/ Enrolled(payments[p].user, payments[p].course)
                   \/ courses[payments[p].course] = Absent /\ payments[p].course \in edited

EnrollInv ==
    /\ enrollment \in [Users -> [CourseIds -> Enrollment \cup {Absent}]]
    /\ \A u \in Users, c \in CourseIds : Enrolled(u, c) => courses[c] # Absent
    /\ EnrollmentHasGround
    /\ Sold

\* Lessons of a course nobody edited are done by its users only.
DoneEnrolled ==
    \A u \in Users, l \in LessonIds, c \in CourseIds :
        c \notin edited /\ l \in LessonsOf(c) /\ Done(u, l) => Enrolled(u, c)

ProgressInv ==
    /\ progress \in [Users -> [LessonIds -> Progress \cup {Absent}]]
    /\ \A u \in Users, l \in LessonIds : progress[u][l] # Absent => lessons[l] # Absent
    /\ DoneEnrolled
    /\ TextInOrder

Finished(u, c) == Enrolled(u, c) /\ enrollment[u][c].completed

SnapshotsInv ==
    /\ snapshot \in [Users -> [CourseIds -> SUBSET LessonIds]]
    /\ issued \in Nat
    /\ \A u \in Users, c \in CourseIds : Finished(u, c) => snapshot[u][c] # {}
    /\ \A u \in Users, c \in CourseIds :
           c \notin edited => \A l \in snapshot[u][c] : l \in LessonsOf(c) /\ Done(u, l)

OrderCall == [at : {"take", "order", "store"}, user : Users, course : CourseIds,
              coupon : {"none", "part", "full"}]

MarkCall == [at : {"mark"}, user : Users, course : CourseIds, lesson : LessonIds,
             done : BOOLEAN, watched : BOOLEAN]

CountCall == [at : {"count", "finish"}, user : Users, course : CourseIds,
              lessons : SUBSET LessonIds]

GenerateCall == [at : {"generate", "render"}, user : Users, course : CourseIds]

\* What a handler that marks a lesson knows, while the course is not edited.
MarkIsDue(k, c) ==
    k.lesson \in LessonsOf(c) =>
        /\ k.course = c /\ Enrolled(k.user, c)
        /\ k.done /\ ~lessons[k.lesson].video => Unlocked(k.user, k.lesson, LessonsOf(c))

Holds(k) ==
    /\ k.at \in OfCourse => k.user \in Users /\ k.course \in CourseIds
    /\ k.at = "insert" => k.course \in wasFree
    /\ k.at \in {"take", "order", "store"} => k \in OrderCall
    /\ k.at \in {"generate", "render"} => k \in GenerateCall
    /\ k.at = "capture" => k.payment \in PaymentIds /\ payments[k.payment] # Absent
    /\ k.at = "mark" => k \in MarkCall /\ \A c \in CourseIds : c \notin edited => MarkIsDue(k, c)
    /\ k.at \in {"count", "finish"} =>
           /\ k \in CountCall /\ k.lessons # {}
           /\ k.course \notin edited => k.lessons = PublishedLessons(k.course)
    /\ k.at = "finish" /\ k.course \notin edited =>
           \A l \in k.lessons : Done(k.user, l)
    /\ k.at = "link" => k.certificate \in Nat
    /\ k.at = "delete" => k.course \in CourseIds

CallsInv == DOMAIN call = Handlers /\ \A h \in Handlers : Holds(call[h])

\* Everything that is published is done.
AllDone(u, c) ==
    PublishedLessons(c) # {} /\ \A l \in PublishedLessons(c) : Done(u, l)

Finishing(h, u, c) ==
    call[h].at \in {"check", "count", "finish"} /\ call[h].user = u /\ call[h].course = c

\* Who has done everything has completed the course or has a handler that will see to it.
NobodyForgotten ==
    \A u \in Users, c \in CourseIds :
        c \notin edited /\ u \notin lost /\ Enrolled(u, c) /\ AllDone(u, c) =>
            enrollment[u][c].completed \/ \E h \in Handlers : Finishing(h, u, c)

CoursesInv ==
    /\ CatalogueInv /\ MoneyInv /\ EnrollInv /\ ProgressInv /\ SnapshotsInv
    /\ CallsInv /\ NobodyForgotten

----------------------------------------------------------------------------
(* What no step takes back *)

\* The lessons of a course that is not marked as edited are what they were.
LayoutStays ==
    \A c \in CourseIds : c \notin edited' =>
        /\ \A n \in SectionIds :
               /\ n \in SectionsOf(c)' <=> n \in SectionsOf(c)
               /\ n \in SectionsOf(c) => sections'[n] = sections[n]
        /\ \A l \in LessonIds :
               /\ l \in LessonsOf(c)' <=> l \in LessonsOf(c)
               /\ l \in LessonsOf(c) => lessons'[l] = lessons[l]

CatalogueStays ==
    /\ wasFree \subseteq wasFree' /\ edited \subseteq edited'
    /\ LayoutStays
    /\ \A l \in LessonIds : lessons[l] # Absent /\ lessons'[l] # Absent =>
           lessons'[l].section = lessons[l].section

MoneyStays ==
    /\ provider' = provider
    /\ \A p \in PaymentIds : payments[p] # Absent =>
           /\ payments'[p] # Absent
           /\ payments'[p].user = payments[p].user /\ payments'[p].course = payments[p].course
           /\ payments[p].status = "SUCCESS" => payments'[p].status = "SUCCESS"

EnrollmentsStay ==
    \A u \in Users, c \in CourseIds : Enrolled(u, c) =>
        \/ Enrolled(u, c)'
        \/ c \in edited' /\ \A l \in LessonsOf(c) : lessons'[l] = Absent

DoneStays ==
    \A u \in Users, l \in LessonIds : Done(u, l) => Done(u, l)' \/ lessons'[l] = Absent

Stays == CatalogueStays /\ MoneyStays /\ EnrollmentsStay /\ DoneStays

\* A lesson stays unlocked while its course keeps its lessons in their places.
LEMMA UnlockedAgain ==
    ASSUME NEW u \in Users, NEW c \in CourseIds, NEW S \in SUBSET LessonIds,
           S = LessonsOf(c), S = LessonsOf(c)',
           \A m \in S : Place(m)' = Place(m), \A m \in S : Done(u, m) => Done(u, m)',
           NEW l \in S, Unlocked(u, l, LessonsOf(c))
    PROVE  Unlocked(u, l, LessonsOf(c))'
<1>1. \A m, k \in S : Before(m, k)' <=> Before(m, k)
  BY DEF Before
<1>2. Previous(l, S)' = Previous(l, S) /\ Previous(l, S) \subseteq S \cup {NoLesson}
  <2>1. {m \in S : Before(m, l)}' = {m \in S : Before(m, l)}
    BY <1>1
  <2>2. {m \in S \ {l} : Place(m) = Place(l)}' = {m \in S \ {l} : Place(m) = Place(l)}
    OBVIOUS
  <2>3. \A E : E \subseteq S =>
            {m \in E : \A k \in E : ~Before(m, k)'} = {m \in E : \A k \in E : ~Before(m, k)}
    BY <1>1
  <2>. QED
    BY <2>1, <2>2, <2>3 DEF Previous
<1>. QED
  BY <1>2 DEF Unlocked

LEMMA UnlockedStays ==
    ASSUME CoursesInv, Stays, NEW u \in Users, NEW c \in CourseIds, c \notin edited',
           NEW l \in LessonIds, l \in LessonsOf(c), Unlocked(u, l, LessonsOf(c))
    PROVE  Unlocked(u, l, LessonsOf(c))'
<1>1. PICK S \in SUBSET LessonIds : S = LessonsOf(c) /\ S = LessonsOf(c)'
  BY DEF Stays, CatalogueStays, LayoutStays, LessonsOf
<1>2. \A m \in S : lessons'[m] = lessons[m] /\ lessons[m] # Absent
                       /\ lessons[m].section \in SectionsOf(c)
  BY <1>1 DEF Stays, CatalogueStays, LayoutStays, LessonsOf
<1>3. \A m \in S : sections'[lessons[m].section] = sections[lessons[m].section]
  BY <1>2 DEF Stays, CatalogueStays, LayoutStays, SectionsOf
<1>4. \A m \in S : Place(m)' = Place(m)
  BY <1>2, <1>3 DEF Place
<1>5. \A m \in S : Done(u, m) => Done(u, m)'
  BY <1>2 DEF Stays, DoneStays
<1>. QED
  BY <1>1, <1>4, <1>5, UnlockedAgain

LEMMA HoldsStays ==
    ASSUME CoursesInv, Stays, NEW k, Holds(k)
    PROVE  Holds(k)'
<1>1. /\ k.at \in OfCourse => k.user \in Users /\ k.course \in CourseIds
      /\ k.at \in {"take", "order", "store"} => k \in OrderCall
      /\ k.at \in {"generate", "render"} => k \in GenerateCall
      /\ k.at = "insert" => k.course \in wasFree'
      /\ k.at = "link" => k.certificate \in Nat
      /\ k.at = "delete" => k.course \in CourseIds
  BY DEF Holds, Stays, CatalogueStays
<1>2. k.at = "capture" => k.payment \in PaymentIds /\ payments'[k.payment] # Absent
  BY DEF Holds, Stays, MoneyStays
<1>3. ASSUME k.at = "mark", NEW c \in CourseIds, c \notin edited'
      PROVE  MarkIsDue(k, c)'
  <2>1. k \in MarkCall /\ MarkIsDue(k, c)
    BY <1>3 DEF Holds, Stays, CatalogueStays
  <2>2. SUFFICES ASSUME k.lesson \in LessonsOf(c)
                 PROVE  /\ k.course = c /\ Enrolled(k.user, c)'
                        /\ k.done /\ ~lessons'[k.lesson].video =>
                               Unlocked(k.user, k.lesson, LessonsOf(c))'
    BY <1>3, <2>1 DEF MarkIsDue, MarkCall, Stays, CatalogueStays, LayoutStays
  <2>3. k.user \in Users /\ k.lesson \in LessonIds
    BY <2>1 DEF MarkCall
  <2>4. Enrolled(k.user, c)'
    BY <1>3, <2>1, <2>2, <2>3 DEF MarkIsDue, Stays, EnrollmentsStay
  <2>5. lessons'[k.lesson] = lessons[k.lesson]
    BY <1>3, <2>2, <2>3 DEF Stays, CatalogueStays, LayoutStays
  <2>. QED
    BY <1>3, <2>1, <2>2, <2>3, <2>4, <2>5, UnlockedStays DEF MarkIsDue
<1>4. ASSUME k.at \in {"count", "finish"}, k.course \notin edited'
      PROVE  /\ k.lessons = PublishedLessons(k.course)'
             /\ k.at = "finish" => \A l \in k.lessons : Done(k.user, l)'
  <2>1. k \in CountCall /\ k.lessons = PublishedLessons(k.course)
    BY <1>4 DEF Holds, Stays, CatalogueStays
  <2>2. PICK c \in CourseIds : c = k.course
    BY <2>1 DEF CountCall
  <2>3. PublishedLessons(c)' = PublishedLessons(c)
    BY <1>4, <2>2 DEF Stays, CatalogueStays, LayoutStays, PublishedLessons, LessonsOf
  <2>4. \A l \in PublishedLessons(c) : lessons'[l] # Absent
    BY <1>4, <2>2 DEF Stays, CatalogueStays, LayoutStays, PublishedLessons, LessonsOf
  <2>5. k.at = "finish" => \A l \in k.lessons : Done(k.user, l)
    BY <1>4 DEF Holds, Stays, CatalogueStays
  <2>. QED
    BY <2>1, <2>2, <2>3, <2>4, <2>5 DEF Stays, DoneStays, CountCall
<1>5. k.at = "mark" => k \in MarkCall
  BY DEF Holds
<1>6. k.at \in {"count", "finish"} => k \in CountCall /\ k.lessons # {}
  BY DEF Holds
<1>. QED
  BY <1>1, <1>2, <1>3, <1>4, <1>5, <1>6 DEF Holds

LEMMA CallsStay ==
    ASSUME CoursesInv, Stays, NEW h \in Handlers, NEW k,
           call' = [call EXCEPT ![h] = k], Holds(k)'
    PROVE  CallsInv'
  BY HoldsStays DEF CoursesInv, CallsInv

LEMMA SameCalls ==
    ASSUME CoursesInv, Stays, call' = call
    PROVE  CallsInv'
  BY HoldsStays DEF CoursesInv, CallsInv

LEMMA IdleHolds == Holds(Idle)'
  BY DEF Holds, Idle, OfCourse

----------------------------------------------------------------------------
(* The parts of the invariant that a step leaves alone *)

LEMMA SameCatalogue ==
    ASSUME CoursesInv, UNCHANGED catalogue
    PROVE  /\ CatalogueInv' /\ CatalogueStays
           /\ UNCHANGED <<courses, sections, lessons, wasFree, edited>>
<1>1. UNCHANGED <<courses, sections, lessons, wasFree, edited>>
  BY DEF catalogue
<1>2. CatalogueInv'
  BY <1>1 DEF CoursesInv, CatalogueInv
<1>3. CatalogueStays
  BY <1>1 DEF CatalogueStays, LayoutStays, SectionsOf, LessonsOf
<1>. QED
  BY <1>1, <1>2, <1>3

LEMMA SameMoney ==
    ASSUME CoursesInv, UNCHANGED money
    PROVE  MoneyInv' /\ MoneyStays /\ UNCHANGED <<payments, provider>>
<1>1. UNCHANGED <<payments, used, paid, timer, provider>>
  BY DEF money
<1>. QED
  BY <1>1 DEF CoursesInv, MoneyInv, MoneyStays

\* Nobody is enrolled anew or put out, nothing is paid.
LEMMA SameEnrolled ==
    ASSUME CoursesInv, UNCHANGED <<payments, provider>>,
           enrollment' \in [Users -> [CourseIds -> Enrollment \cup {Absent}]],
           \A u \in Users, c \in CourseIds : Enrolled(u, c)' <=> Enrolled(u, c),
           wasFree \subseteq wasFree', edited \subseteq edited',
           \A c \in CourseIds : courses[c] # Absent => courses'[c] # Absent,
           \A c \in CourseIds : c \in edited /\ courses[c] = Absent => courses'[c] = Absent
    PROVE  EnrollInv' /\ EnrollmentsStay
<1>1. \A u \in Users, c \in CourseIds : Enrolled(u, c)' => courses'[c] # Absent
  BY DEF CoursesInv, EnrollInv
<1>2. EnrollmentHasGround'
  BY DEF CoursesInv, EnrollInv, EnrollmentHasGround, Succeeded
<1>3. \A p \in PaymentIds : payments[p] # Absent =>
          payments[p].user \in Users /\ payments[p].course \in CourseIds
  BY DEF CoursesInv, MoneyInv, Payment
<1>4. Sold'
  BY <1>3 DEF CoursesInv, EnrollInv, Sold
<1>. QED
  BY <1>1, <1>2, <1>4 DEF EnrollInv, EnrollmentsStay

\* Rows of lesson_progress only go, with their lessons.
LEMMA NothingDone ==
    ASSUME CoursesInv, Stays,
           progress' \in [Users -> [LessonIds -> Progress \cup {Absent}]],
           \A u \in Users, l \in LessonIds : progress'[u][l] # Absent =>
               progress'[u][l] = progress[u][l] /\ lessons'[l] # Absent,
           CatalogueInv'
    PROVE  ProgressInv' /\ \A u \in Users, l \in LessonIds : Done(u, l)' => Done(u, l)
<1>1. \A u \in Users, l \in LessonIds : Done(u, l)' => Done(u, l)
  BY DEF Done
<1>2. DoneEnrolled'
  BY <1>1 DEF DoneEnrolled, CoursesInv, ProgressInv, Stays, EnrollmentsStay, CatalogueStays,
              LayoutStays
<1>3. ASSUME NEW u \in Users, NEW l \in LessonIds,
             lessons'[l] # Absent, ~lessons'[l].video, Done(u, l)', CourseOf(l)' \notin edited'
      PROVE  Unlocked(u, l, LessonsOf(CourseOf(l)))'
  <2>1. PICK c : c = CourseOf(l)'
    OBVIOUS
  <2>2. c \in CourseIds /\ l \in LessonsOf(c)'
    BY <1>3, <2>1, RowAssumption
    DEF CatalogueInv, CourseOf, LessonsOf, SectionsOf, Lesson, Section
  <2>3. l \in LessonsOf(c) /\ lessons'[l] = lessons[l] /\ c \notin edited
    BY <1>3, <2>1, <2>2 DEF Stays, CatalogueStays, LayoutStays
  <2>4. CourseOf(l) = c /\ lessons[l] # Absent
    BY <2>3 DEF LessonsOf, SectionsOf, CourseOf
  <2>5. Unlocked(u, l, LessonsOf(c))
    BY <1>1, <1>3, <2>3, <2>4 DEF CoursesInv, ProgressInv, TextInOrder
  <2>6. Unlocked(u, l, LessonsOf(c))'
    BY <1>3, <2>1, <2>2, <2>3, <2>5, UnlockedStays
  <2>. QED
    BY <2>1, <2>6
<1>4. TextInOrder'
  BY <1>3 DEF TextInOrder
<1>. QED
  BY <1>1, <1>2, <1>4 DEF ProgressInv

LEMMA NothingFinished ==
    ASSUME CoursesInv, Stays, issued' \in Nat,
           snapshot' \in [Users -> [CourseIds -> SUBSET LessonIds]],
           \A u \in Users, c \in CourseIds :
               \/ snapshot'[u][c] = snapshot[u][c] /\ (Finished(u, c)' => Finished(u, c))
               \/ snapshot'[u][c] = {} /\ ~Finished(u, c)'
    PROVE  SnapshotsInv'
<1>1. ASSUME NEW u \in Users, NEW c \in CourseIds, c \notin edited',
             NEW l \in snapshot'[u][c]
      PROVE  l \in LessonsOf(c)' /\ Done(u, l)'
  <2>1. l \in snapshot[u][c] /\ l \in LessonIds /\ c \notin edited
    BY <1>1 DEF Stays, CatalogueStays
  <2>2. l \in LessonsOf(c) /\ Done(u, l)
    BY <2>1 DEF CoursesInv, SnapshotsInv
  <2>3. l \in LessonsOf(c)' /\ lessons'[l] # Absent
    BY <1>1, <2>1, <2>2 DEF Stays, CatalogueStays, LayoutStays, LessonsOf
  <2>. QED
    BY <2>1, <2>2, <2>3 DEF Stays, DoneStays
<1>. QED
  BY <1>1 DEF CoursesInv, SnapshotsInv

\* Nothing is done, and no handler that sees to a completion drops it.
LEMMA NoneForgotten ==
    ASSUME CoursesInv, Stays, lost \subseteq lost',
           \A u \in Users, l \in LessonIds : Done(u, l)' => Done(u, l),
           \A u \in Users, c \in CourseIds :
               Finished(u, c) /\ Enrolled(u, c)' => enrollment'[u][c].completed,
           \A h \in Handlers, u \in Users, c \in CourseIds :
               /\ Finishing(h, u, c) /\ u \notin lost' /\ c \notin edited'
               /\ AllDone(u, c) /\ Enrolled(u, c) /\ ~enrollment[u][c].completed
               => Finishing(h, u, c)' \/ enrollment'[u][c].completed
    PROVE  NobodyForgotten'
<1>1. SUFFICES ASSUME NEW u \in Users, NEW c \in CourseIds,
                      c \notin edited', u \notin lost', Enrolled(u, c)', AllDone(u, c)'
               PROVE  enrollment'[u][c].completed \/ \E h \in Handlers : Finishing(h, u, c)'
  BY DEF NobodyForgotten
<1>2. c \notin edited /\ u \notin lost
  BY <1>1 DEF Stays, CatalogueStays
<1>3. PublishedLessons(c)' = PublishedLessons(c) /\ PublishedLessons(c) \subseteq LessonsOf(c)
      /\ LessonsOf(c) \subseteq LessonIds
  BY <1>1 DEF Stays, CatalogueStays, LayoutStays, PublishedLessons, LessonsOf
<1>4. AllDone(u, c)
  BY <1>1, <1>3 DEF AllDone
<1>5. Enrolled(u, c)
  BY <1>2, <1>3, <1>4 DEF AllDone, CoursesInv, ProgressInv, DoneEnrolled
<1>6. CASE enrollment[u][c].completed
  BY <1>1, <1>5, <1>6 DEF Finished
<1>7. CASE ~enrollment[u][c].completed
  BY <1>1, <1>2, <1>4, <1>5, <1>7 DEF CoursesInv, NobodyForgotten
<1>. QED
  BY <1>6, <1>7

----------------------------------------------------------------------------
(* Steps of handlers that write nothing *)

\* k takes the place of what h is doing and does not drop a completion.
SeesOn(h, k) ==
    \A u \in Users, c \in CourseIds :
        /\ Finishing(h, u, c) /\ u \notin lost /\ c \notin edited
        /\ AllDone(u, c) /\ Enrolled(u, c) /\ ~enrollment[u][c].completed
        => k.at \in {"check", "count", "finish"} /\ k.user = u /\ k.course = c

LEMMA Unfinishing ==
    ASSUME NEW h \in Handlers, NEW k, call[h].at \notin {"check", "count", "finish"}
    PROVE  SeesOn(h, k)
  BY DEF SeesOn, Finishing

LEMMA RowsUnchanged ==
    ASSUME CoursesInv, CatalogueInv', CatalogueStays, MoneyStays, UNCHANGED learning,
           \A l \in LessonIds : lessons[l] # Absent => lessons'[l] # Absent
    PROVE  /\ Stays /\ ProgressInv' /\ SnapshotsInv'
           /\ UNCHANGED enrollment
           /\ \A u \in Users, l \in LessonIds : Done(u, l)' => Done(u, l)
           /\ \A u \in Users, c \in CourseIds :
                  Finished(u, c) /\ Enrolled(u, c)' => enrollment'[u][c].completed
<1>1. UNCHANGED <<enrollment, progress, snapshot, issued>>
  BY DEF learning
<1>2. Stays
  BY <1>1 DEF Stays, EnrollmentsStay, DoneStays, Enrolled, Done
<1>3. ProgressInv' /\ \A u \in Users, l \in LessonIds : Done(u, l)' => Done(u, l)
  BY <1>1, <1>2, NothingDone DEF CoursesInv, ProgressInv
<1>4. SnapshotsInv'
  BY <1>1, <1>2, NothingFinished DEF CoursesInv, SnapshotsInv, Finished, Enrolled
<1>. QED
  BY <1>1, <1>2, <1>3, <1>4 DEF Finished, Enrolled

\* A handler goes on; the money, if it is touched, is accounted for.
LEMMA MoneyStep ==
    ASSUME CoursesInv, NEW h \in Handlers, NEW k, call' = [call EXCEPT ![h] = k],
           UNCHANGED <<catalogue, learning>>, lost \subseteq lost',
           MoneyInv', MoneyStays, EnrollInv',
           Stays => Holds(k)', SeesOn(h, k)
    PROVE  CoursesInv' /\ Stays
<1>1. CatalogueInv' /\ CatalogueStays /\ UNCHANGED <<courses, sections, lessons, wasFree, edited>>
  BY SameCatalogue
<1>2. /\ Stays /\ ProgressInv' /\ SnapshotsInv' /\ UNCHANGED enrollment
      /\ \A u \in Users, l \in LessonIds : Done(u, l)' => Done(u, l)
      /\ \A u \in Users, c \in CourseIds :
             Finished(u, c) /\ Enrolled(u, c)' => enrollment'[u][c].completed
  BY <1>1, RowsUnchanged
<1>3. CallsInv'
  BY <1>2, CallsStay
<1>4. \A i \in Handlers : call'[i] = IF i = h THEN k ELSE call[i]
  BY DEF CoursesInv, CallsInv
<1>5. NobodyForgotten'
  <2>1. ASSUME NEW i \in Handlers, NEW u \in Users, NEW c \in CourseIds,
               Finishing(i, u, c), u \notin lost', c \notin edited', AllDone(u, c),
               Enrolled(u, c), ~enrollment[u][c].completed
        PROVE  Finishing(i, u, c)'
    BY <1>1, <1>4, <2>1 DEF SeesOn, Finishing
  <2>. QED
    BY <1>2, <2>1, NoneForgotten
<1>. QED
  BY <1>1, <1>2, <1>3, <1>5 DEF CoursesInv

LEMMA HandlerStep ==
    ASSUME CoursesInv, NEW h \in Handlers, NEW k, call' = [call EXCEPT ![h] = k],
           UNCHANGED <<catalogue, money, learning>>, lost \subseteq lost',
           Stays => Holds(k)', SeesOn(h, k)
    PROVE  CoursesInv' /\ Stays
<1>1. UNCHANGED <<catalogue, learning, enrollment>>
  BY DEF learning
<1>2. MoneyInv' /\ MoneyStays /\ UNCHANGED <<payments, provider>>
  BY SameMoney
<1>3. UNCHANGED <<courses, sections, lessons, wasFree, edited>>
  BY SameCatalogue
<1>4. EnrollInv'
  BY <1>1, <1>2, <1>3, SameEnrolled DEF CoursesInv, EnrollInv, Enrolled
<1>. QED
  BY <1>1, <1>2, <1>4, MoneyStep

LEMMA BeginEnrollKeeps ==
    ASSUME CoursesInv, NEW h \in Handlers, NEW u \in Users, NEW c \in CourseIds,
           NEW coupon \in {"none", "part", "full"}, BeginEnroll(h, u, c, coupon)
    PROVE  CoursesInv' /\ Stays
<1>1. UNCHANGED <<catalogue, money, learning>> /\ lost' = lost /\ call[h].at = "idle"
  BY DEF BeginEnroll, Begin, Idle
<1>2. SeesOn(h, call'[h])
  BY <1>1, Unfinishing
<1>3. CASE /\ courses[c].free
           /\ Begin(h, [at |-> "insert", user |-> u, course |-> c])
  <2>1. PICK k : k = [at |-> "insert", user |-> u, course |-> c]
    OBVIOUS
  <2>2. c \in wasFree' /\ call' = [call EXCEPT ![h] = k]
    BY <1>1, <1>3, <2>1 DEF CoursesInv, CatalogueInv, catalogue, Begin, BeginEnroll
  <2>3. Holds(k)'
    BY <2>1, <2>2 DEF Holds, OfCourse
  <2>. QED
    BY <1>1, <2>2, <2>3, HandlerStep, Unfinishing
<1>4. CASE Begin(h, [at |-> IF coupon = "full" THEN "take" ELSE "order",
                     user |-> u, course |-> c, coupon |-> coupon])
  <2>1. PICK k : k = [at |-> IF coupon = "full" THEN "take" ELSE "order",
                      user |-> u, course |-> c, coupon |-> coupon]
    OBVIOUS
  <2>2. call' = [call EXCEPT ![h] = k]
    BY <1>4, <2>1 DEF Begin
  <2>3. k.at \in {"take", "order"} /\ k \in OrderCall
    BY <2>1 DEF OrderCall
  <2>4. Holds(k)'
    BY <2>3 DEF Holds, OfCourse, OrderCall
  <2>. QED
    BY <1>1, <2>2, <2>4, HandlerStep, Unfinishing
<1>. QED
  BY <1>3, <1>4 DEF BeginEnroll

LEMMA BeginCaptureKeeps ==
    ASSUME CoursesInv, NEW h \in Handlers, NEW p \in PaymentIds, BeginCapture(h, p)
    PROVE  CoursesInv' /\ Stays
<1>1. UNCHANGED <<catalogue, money, learning>> /\ lost' = lost /\ call[h].at = "idle"
      /\ p \in paid /\ UNCHANGED payments
  BY DEF BeginCapture, Begin, Idle, money
<1>2. PICK k : k = [at |-> "capture", payment |-> p, user |-> payments[p].user]
  OBVIOUS
<1>3. call' = [call EXCEPT ![h] = k]
  BY <1>2 DEF BeginCapture, Begin
<1>4. payments'[p] # Absent
  BY <1>1 DEF CoursesInv, MoneyInv
<1>5. Holds(k)'
  BY <1>2, <1>4 DEF Holds, OfCourse
<1>. QED
  BY <1>1, <1>3, <1>5, HandlerStep, Unfinishing

LEMMA GuardPendingKeeps ==
    ASSUME CoursesInv, NEW h \in Handlers, GuardPending(h)
    PROVE  CoursesInv' /\ Stays
<1>1. UNCHANGED <<catalogue, money, learning>> /\ lost' = lost /\ call[h].at = "order"
  BY DEF GuardPending
<1>2. call[h] \in OrderCall
  BY <1>1 DEF CoursesInv, CallsInv, Holds
<1>3. PICK k : k = [call[h] EXCEPT !.at = "store"]
  OBVIOUS
<1>4. CASE call' = [call EXCEPT ![h] = Idle]
  BY <1>1, <1>4, IdleHolds, HandlerStep, Unfinishing
<1>5. CASE call' = [call EXCEPT ![h] = k]
  <2>1. k.at = "store" /\ k \in OrderCall
    BY <1>2, <1>3 DEF OrderCall
  <2>2. Holds(k)'
    BY <2>1 DEF Holds, OfCourse, OrderCall
  <2>. QED
    BY <1>1, <1>5, <2>2, HandlerStep, Unfinishing
<1>. QED
  BY <1>3, <1>4, <1>5 DEF GuardPending, End, Then

----------------------------------------------------------------------------
(* Steps that take money or enroll *)

\* Rows are written only for those who had none, in courses that are there.
Joined ==
    \A u \in Users, c \in CourseIds :
        \/ enrollment'[u][c] = enrollment[u][c]
        \/ /\ ~Enrolled(u, c) /\ courses[c] # Absent
           /\ Enrolled(u, c)' /\ ~Finished(u, c)' /\ enrollment'[u][c].certificate = 0

LEMMA JoinedRows ==
    ASSUME CoursesInv, UNCHANGED <<catalogue, progress, snapshot, issued>>, MoneyStays, Joined
    PROVE  /\ Stays /\ CatalogueInv' /\ ProgressInv' /\ SnapshotsInv'
           /\ \A u \in Users, l \in LessonIds : Done(u, l)' => Done(u, l)
           /\ \A u \in Users, c \in CourseIds :
                  Finished(u, c) /\ Enrolled(u, c)' => enrollment'[u][c].completed
<1>1. CatalogueInv' /\ CatalogueStays /\ UNCHANGED <<courses, sections, lessons, wasFree, edited>>
  BY SameCatalogue
<1>2. Stays
  BY <1>1 DEF Stays, EnrollmentsStay, DoneStays, Done, Joined, Enrolled
<1>3. ProgressInv' /\ \A u \in Users, l \in LessonIds : Done(u, l)' => Done(u, l)
  BY <1>1, <1>2, NothingDone DEF CoursesInv, ProgressInv
<1>4. SnapshotsInv'
  BY <1>2, NothingFinished DEF CoursesInv, SnapshotsInv, Joined, Finished, Enrolled
<1>. QED
  BY <1>1, <1>2, <1>3, <1>4 DEF Joined, Finished, Enrolled

LEMMA JoinStep ==
    ASSUME CoursesInv, NEW h \in Handlers, call' = [call EXCEPT ![h] = Idle],
           UNCHANGED <<catalogue, progress, snapshot, issued, lost>>,
           MoneyInv', MoneyStays, EnrollInv', Joined,
           call[h].at \notin {"check", "count", "finish"}
    PROVE  CoursesInv' /\ Stays
<1>1. /\ Stays /\ CatalogueInv' /\ ProgressInv' /\ SnapshotsInv'
      /\ \A u \in Users, l \in LessonIds : Done(u, l)' => Done(u, l)
      /\ \A u \in Users, c \in CourseIds :
             Finished(u, c) /\ Enrolled(u, c)' => enrollment'[u][c].completed
  BY JoinedRows
<1>2. CallsInv'
  BY <1>1, IdleHolds, CallsStay
<1>3. \A i \in Handlers : i # h => call'[i] = call[i]
  BY DEF CoursesInv, CallsInv
<1>4. NobodyForgotten'
  BY <1>1, <1>3, NoneForgotten DEF Finishing
<1>. QED
  BY <1>1, <1>2, <1>4 DEF CoursesInv

LEMMA GatewayStep ==
    ASSUME CoursesInv, UNCHANGED <<call, catalogue, progress, snapshot, issued, lost>>,
           MoneyInv', MoneyStays, EnrollInv', Joined
    PROVE  CoursesInv' /\ Stays
<1>1. /\ Stays /\ CatalogueInv' /\ ProgressInv' /\ SnapshotsInv'
      /\ \A u \in Users, l \in LessonIds : Done(u, l)' => Done(u, l)
      /\ \A u \in Users, c \in CourseIds :
             Finished(u, c) /\ Enrolled(u, c)' => enrollment'[u][c].completed
  BY JoinedRows
<1>2. CallsInv'
  BY <1>1, SameCalls
<1>3. NobodyForgotten'
  BY <1>1, NoneForgotten DEF Finishing
<1>. QED
  BY <1>1, <1>2, <1>3 DEF CoursesInv

LEMMA InsertJoins ==
    ASSUME CoursesInv, NEW u \in Users, NEW c \in CourseIds, MayInsert(u, c), Insert(u, c)
    PROVE  /\ enrollment' \in [Users -> [CourseIds -> Enrollment \cup {Absent}]]
           /\ Joined /\ Enrolled(u, c)'
           /\ \A v \in Users, d \in CourseIds :
                  Enrolled(v, d)' <=> Enrolled(v, d) \/ (v = u /\ d = c)
<1>1. enrollment \in [Users -> [CourseIds -> Enrollment \cup {Absent}]]
  BY DEF CoursesInv, EnrollInv
<1>2. PICK row : row = [completed |-> FALSE, certificate |-> 0]
  OBVIOUS
<1>3. row \in Enrollment /\ row # Absent /\ ~row.completed /\ row.certificate = 0
  <2>1. row \in Enrollment /\ ~row.completed /\ row.certificate = 0
    BY <1>2 DEF Enrollment
  <2>. QED
    BY <2>1, RowAssumption
<1>4. enrollment' = [enrollment EXCEPT ![u] = [enrollment[u] EXCEPT ![c] = row]]
  BY <1>2 DEF Insert
<1>5. enrollment' \in [Users -> [CourseIds -> Enrollment \cup {Absent}]]
  BY <1>1, <1>3, <1>4
<1>6. \A v \in Users, d \in CourseIds :
          enrollment'[v][d] = IF v = u /\ d = c THEN row ELSE enrollment[v][d]
  BY <1>1, <1>4
<1>. QED
  BY <1>3, <1>5, <1>6 DEF Joined, Enrolled, Finished, MayInsert

\* What succeeded before succeeds still.
LEMMA GroundStays ==
    ASSUME MoneyStays, NEW u \in Users, NEW c \in CourseIds, Succeeded(u, c) # {}
    PROVE  Succeeded(u, c)' # {}
  BY DEF MoneyStays, Succeeded

LEMMA Enrolling ==
    ASSUME CoursesInv, NEW u \in Users, NEW c \in CourseIds, MayInsert(u, c), Insert(u, c),
           UNCHANGED catalogue, MoneyStays, c \in wasFree \/ Succeeded(u, c)' # {}, Sold'
    PROVE  EnrollInv'
<1>1. UNCHANGED <<courses, sections, lessons, wasFree, edited>>
  BY SameCatalogue
<1>2. /\ enrollment' \in [Users -> [CourseIds -> Enrollment \cup {Absent}]]
      /\ \A v \in Users, d \in CourseIds :
             Enrolled(v, d)' <=> Enrolled(v, d) \/ (v = u /\ d = c)
  BY InsertJoins
<1>3. \A v \in Users, d \in CourseIds : Enrolled(v, d)' => courses'[d] # Absent
  BY <1>1, <1>2 DEF MayInsert, CoursesInv, EnrollInv
<1>4. EnrollmentHasGround'
  BY <1>1, <1>2, GroundStays DEF EnrollmentHasGround, CoursesInv, EnrollInv
<1>. QED
  BY <1>2, <1>3, <1>4 DEF EnrollInv

\* A row of payments is new or keeps its user, its course and its success.
LEMMA PaymentWritten ==
    ASSUME CoursesInv, NEW p \in PaymentIds, NEW row \in Payment,
           payments' = [payments EXCEPT ![p] = row],
           \/ payments[p] = Absent
           \/ /\ row.user = payments[p].user /\ row.course = payments[p].course
              /\ payments[p].status = "SUCCESS" => row.status = "SUCCESS",
           provider' = provider, used' \subseteq Users, paid' = paid,
           timer' \in [PaymentIds -> {"none", "set", "marked"}],
           \A q \in PaymentIds :
               \/ timer'[q] = timer[q]
               \/ timer'[q] = "none"
               \/ /\ q = p /\ provider = "mock"
                  /\ timer'[q] = "marked" => row.status = "SUCCESS"
    PROVE  MoneyInv' /\ MoneyStays
<1>1. payments \in [PaymentIds -> Payment \cup {Absent}] /\ row # Absent
  BY RowAssumption DEF CoursesInv, MoneyInv
<1>2. payments' \in [PaymentIds -> Payment \cup {Absent}]
      /\ \A q \in PaymentIds : payments'[q] = IF q = p THEN row ELSE payments[q]
  BY <1>1
<1>3. MoneyStays
  BY <1>1, <1>2 DEF MoneyStays
<1>4. \A q \in PaymentIds : q \in paid' => payments'[q] # Absent
  BY <1>1, <1>2 DEF CoursesInv, MoneyInv
<1>5. \A q \in PaymentIds : timer'[q] # "none" => payments'[q] # Absent /\ provider' = "mock"
  BY <1>1, <1>2 DEF CoursesInv, MoneyInv
<1>6. \A q \in PaymentIds : timer'[q] = "marked" => payments'[q].status = "SUCCESS"
  BY <1>1, <1>2 DEF CoursesInv, MoneyInv
<1>7. paid' \subseteq PaymentIds
  BY DEF CoursesInv, MoneyInv
<1>. QED
  BY <1>2, <1>3, <1>4, <1>5, <1>6, <1>7 DEF MoneyInv

\* A payment that does not succeed with the real gateway sells nothing.
LEMMA NothingSold ==
    ASSUME CoursesInv, MoneyStays,
           provider = "razorpay" =>
               \A p \in PaymentIds : payments'[p] # Absent /\ payments'[p].status = "SUCCESS" =>
                   payments[p] # Absent /\ payments[p].status = "SUCCESS",
           \A u \in Users, c \in CourseIds : Enrolled(u, c) => Enrolled(u, c)',
           UNCHANGED <<courses, edited>>
    PROVE  Sold'
<1>1. provider' = provider
  BY DEF MoneyStays
<1>2. \A p \in PaymentIds : payments[p] # Absent =>
          /\ payments[p].user \in Users /\ payments[p].course \in CourseIds
          /\ payments'[p].user = payments[p].user /\ payments'[p].course = payments[p].course
  BY DEF CoursesInv, MoneyInv, Payment, MoneyStays
<1>. QED
  BY <1>1, <1>2 DEF CoursesInv, EnrollInv, Sold

\* A payment that succeeds with its enrollment is the first for its course.
LEMMA OneSold ==
    ASSUME CoursesInv, MoneyStays, NEW p \in PaymentIds, NEW row \in Payment,
           payments' = [payments EXCEPT ![p] = row], row.status = "SUCCESS",
           MayInsert(row.user, row.course), Insert(row.user, row.course),
           UNCHANGED <<courses, edited>>
    PROVE  Sold'
<1>1. row.user \in Users /\ row.course \in CourseIds
  BY DEF Payment
<1>2. /\ Enrolled(row.user, row.course)'
      /\ \A u \in Users, c \in CourseIds : Enrolled(u, c) => Enrolled(u, c)'
  <2>1. PICK u \in Users, c \in CourseIds : u = row.user /\ c = row.course
    BY <1>1
  <2>. QED
    BY <2>1, InsertJoins
<1>3. /\ \A q \in PaymentIds : payments'[q] = IF q = p THEN row ELSE payments[q]
      /\ \A q \in PaymentIds : payments[q] # Absent =>
             payments[q].user \in Users /\ payments[q].course \in CourseIds
  BY DEF CoursesInv, MoneyInv, Payment
<1>4. provider = "razorpay" => \A q \in PaymentIds :
          payments[q] # Absent /\ payments[q].status = "SUCCESS" =>
              ~(payments[q].user = row.user /\ payments[q].course = row.course)
  BY DEF MayInsert, CoursesInv, EnrollInv, Sold
<1>5. provider' = provider
  BY DEF MoneyStays
<1>. QED
  BY <1>1, <1>2, <1>3, <1>4, <1>5 DEF CoursesInv, EnrollInv, Sold

\* Nobody is enrolled, though a payment may be written.
LEMMA EnrollmentsKept ==
    ASSUME CoursesInv, UNCHANGED <<catalogue, enrollment>>, MoneyStays, Sold'
    PROVE  EnrollInv' /\ Joined
<1>1. UNCHANGED <<courses, sections, lessons, wasFree, edited>>
  BY SameCatalogue
<1>2. EnrollmentHasGround'
  BY <1>1, GroundStays DEF EnrollmentHasGround, CoursesInv, EnrollInv, Enrolled
<1>. QED
  BY <1>1, <1>2 DEF CoursesInv, EnrollInv, Enrolled, Joined

LEMMA EnrollFreeKeeps ==
    ASSUME CoursesInv, NEW h \in Handlers, EnrollFree(h)
    PROVE  CoursesInv' /\ Stays
<1>1. /\ UNCHANGED <<catalogue, money, progress, snapshot, issued, lost>>
      /\ call[h].at = "insert" /\ call' = [call EXCEPT ![h] = Idle]
  BY DEF EnrollFree, End
<1>2. PICK u \in Users, c \in CourseIds :
          u = call[h].user /\ c = call[h].course /\ c \in wasFree
  BY <1>1 DEF CoursesInv, CallsInv, Holds, OfCourse
<1>3. MoneyInv' /\ MoneyStays /\ UNCHANGED <<payments, provider>>
  BY <1>1, SameMoney
<1>4. UNCHANGED <<courses, edited>>
  BY <1>1, SameCatalogue
<1>5. CASE MayInsert(u, c) /\ Insert(u, c)
  <2>1. Joined /\ \A v \in Users, d \in CourseIds : Enrolled(v, d) => Enrolled(v, d)'
    BY <1>5, InsertJoins
  <2>2. Sold'
    BY <1>3, <1>4, <2>1, NothingSold
  <2>3. EnrollInv'
    BY <1>1, <1>2, <1>3, <1>5, <2>2, Enrolling
  <2>. QED
    BY <1>1, <1>3, <2>1, <2>3, JoinStep
<1>6. CASE UNCHANGED enrollment
  <2>1. Sold'
    BY <1>3, <1>4, <1>6, NothingSold DEF Enrolled
  <2>2. EnrollInv' /\ Joined
    BY <1>1, <1>3, <1>6, <2>1, EnrollmentsKept
  <2>. QED
    BY <1>1, <1>3, <2>2, JoinStep
<1>. QED
  BY <1>2, <1>5, <1>6 DEF EnrollFree

LEMMA TakeFreeKeeps ==
    ASSUME CoursesInv, NEW h \in Handlers, TakeFree(h)
    PROVE  CoursesInv' /\ Stays
<1>1. /\ UNCHANGED <<catalogue, paid, timer, provider, progress, snapshot, issued, lost>>
      /\ call[h].at = "take" /\ call' = [call EXCEPT ![h] = Idle]
  BY DEF TakeFree, End
<1>2. PICK u \in Users, c \in CourseIds : u = call[h].user /\ c = call[h].course
  BY <1>1 DEF CoursesInv, CallsInv, Holds, OfCourse
<1>3. UNCHANGED <<courses, edited>>
  BY <1>1, SameCatalogue
<1>4. ASSUME MayInsert(u, c), Insert(u, c), used' = used \cup {u},
             NEW p \in PaymentIds, payments[p] = Absent,
             payments' = [payments EXCEPT ![p] = [user |-> u, course |-> c,
                              status |-> "SUCCESS", free |-> TRUE]]
      PROVE  CoursesInv' /\ Stays
  <2>1. PICK row : row = [user |-> u, course |-> c, status |-> "SUCCESS", free |-> TRUE]
    OBVIOUS
  <2>2. row \in Payment /\ row.user = u /\ row.course = c /\ row.status = "SUCCESS"
    BY <2>1 DEF Payment
  <2>3. payments' = [payments EXCEPT ![p] = row]
    BY <1>4, <2>1
  <2>4. used' \subseteq Users
    BY <1>4 DEF CoursesInv, MoneyInv
  <2>5. MoneyInv' /\ MoneyStays
    BY <1>1, <1>4, <2>2, <2>3, <2>4, PaymentWritten DEF CoursesInv, MoneyInv
  <2>6. Sold'
    BY <1>3, <1>4, <2>2, <2>3, <2>5, OneSold
  <2>7. Succeeded(u, c)' # {}
    <3>1. payments'[p] = row /\ row # Absent
      BY <2>2, <2>3, RowAssumption DEF CoursesInv, MoneyInv
    <3>. QED
      BY <2>2, <3>1 DEF Succeeded
  <2>8. EnrollInv'
    BY <1>1, <1>4, <2>5, <2>6, <2>7, Enrolling
  <2>9. Joined
    BY <1>4, InsertJoins
  <2>. QED
    BY <1>1, <2>5, <2>8, <2>9, JoinStep
<1>5. CASE UNCHANGED <<used, payments, enrollment>>
  <2>1. MoneyInv' /\ MoneyStays
    BY <1>1, <1>5, SameMoney DEF money
  <2>2. Sold'
    BY <1>3, <1>5, <2>1, NothingSold DEF Enrolled
  <2>3. EnrollInv' /\ Joined
    BY <1>1, <1>5, <2>1, <2>2, EnrollmentsKept
  <2>. QED
    BY <1>1, <2>1, <2>3, JoinStep
<1>. QED
  BY <1>2, <1>4, <1>5 DEF TakeFree

LEMMA StorePaymentKeeps ==
    ASSUME CoursesInv, NEW h \in Handlers, StorePayment(h)
    PROVE  CoursesInv' /\ Stays
<1>1. /\ UNCHANGED <<catalogue, paid, provider, learning, enrollment, progress, snapshot,
                     issued, lost>>
      /\ call[h].at = "store" /\ call' = [call EXCEPT ![h] = Idle]
  BY DEF StorePayment, End, learning
<1>2. PICK u \in Users, c \in CourseIds : u = call[h].user /\ c = call[h].course
  BY <1>1 DEF CoursesInv, CallsInv, Holds, OfCourse
<1>3. UNCHANGED <<courses, edited>>
  BY <1>1, SameCatalogue
<1>4. ASSUME used' = (IF call[h].coupon = "part" THEN used \cup {u} ELSE used),
             NEW p \in PaymentIds, payments[p] = Absent,
             payments' = [payments EXCEPT ![p] = [user |-> u, course |-> c,
                              status |-> "PENDING", free |-> FALSE]],
             timer' = IF provider = "mock" THEN [timer EXCEPT ![p] = "set"] ELSE timer
      PROVE  CoursesInv' /\ Stays
  <2>1. PICK row : row = [user |-> u, course |-> c, status |-> "PENDING", free |-> FALSE]
    OBVIOUS
  <2>2. row \in Payment /\ row.status = "PENDING"
    BY <2>1 DEF Payment
  <2>3. payments' = [payments EXCEPT ![p] = row]
    BY <1>4, <2>1
  <2>4. used' \subseteq Users
    BY <1>4 DEF CoursesInv, MoneyInv
  <2>5. /\ timer' \in [PaymentIds -> {"none", "set", "marked"}]
        /\ \A q \in PaymentIds :
               timer'[q] = timer[q] \/ (q = p /\ provider = "mock" /\ timer'[q] = "set")
    BY <1>4 DEF CoursesInv, MoneyInv
  <2>6. MoneyInv' /\ MoneyStays
    <3>1. \A q \in PaymentIds :
              \/ timer'[q] = timer[q]
              \/ timer'[q] = "none"
              \/ q = p /\ provider = "mock" /\ (timer'[q] = "marked" => row.status = "SUCCESS")
      BY <2>5
    <3>. QED
      BY <1>1, <1>4, <2>2, <2>3, <2>4, <2>5, <3>1, PaymentWritten
  <2>7. \A q \in PaymentIds : payments'[q] = IF q = p THEN row ELSE payments[q]
    BY <2>3 DEF CoursesInv, MoneyInv
  <2>8. Sold'
    BY <1>1, <1>3, <2>2, <2>6, <2>7, NothingSold DEF Enrolled
  <2>9. EnrollInv' /\ Joined
    BY <1>1, <2>6, <2>8, EnrollmentsKept
  <2>. QED
    BY <1>1, <2>6, <2>9, JoinStep
<1>5. CASE UNCHANGED <<used, payments, timer>>
  <2>1. UNCHANGED money
    BY <1>1, <1>5 DEF money
  <2>. QED
    BY <1>1, <2>1, IdleHolds, HandlerStep, Unfinishing
<1>. QED
  BY <1>2, <1>4, <1>5 DEF StorePayment

LEMMA CaptureKeeps ==
    ASSUME CoursesInv, NEW h \in Handlers, Capture(h)
    PROVE  CoursesInv' /\ Stays
<1>1. /\ UNCHANGED <<catalogue, used, paid, timer, provider, progress, snapshot, issued, lost>>
      /\ call[h].at = "capture" /\ call' = [call EXCEPT ![h] = Idle]
  BY DEF Capture, End
<1>2. PICK p \in PaymentIds : p = call[h].payment /\ payments[p] # Absent
  BY <1>1 DEF CoursesInv, CallsInv, Holds
<1>3. payments[p] \in Payment
  BY <1>2 DEF CoursesInv, MoneyInv
<1>4. PICK u \in Users, c \in CourseIds : u = payments[p].user /\ c = payments[p].course
  BY <1>3 DEF Payment
<1>5. UNCHANGED <<courses, edited>>
  BY <1>1, SameCatalogue
<1>6. CASE /\ MayInsert(u, c) /\ Insert(u, c)
           /\ payments' = [payments EXCEPT ![p].status = "SUCCESS"]
  <2>1. PICK row : row = [payments[p] EXCEPT !.status = "SUCCESS"]
    OBVIOUS
  <2>2. row \in Payment /\ row.user = u /\ row.course = c /\ row.status = "SUCCESS"
    BY <1>3, <1>4, <2>1 DEF Payment
  <2>3. payments' = [payments EXCEPT ![p] = row]
    BY <1>6, <2>1
  <2>4. MoneyInv' /\ MoneyStays
    BY <1>1, <1>4, <2>2, <2>3, PaymentWritten DEF CoursesInv, MoneyInv
  <2>5. Sold'
    BY <1>5, <1>6, <2>2, <2>3, <2>4, OneSold
  <2>6. Succeeded(u, c)' # {}
    <3>1. payments'[p] = row /\ row # Absent
      BY <2>2, <2>3, RowAssumption DEF CoursesInv, MoneyInv
    <3>. QED
      BY <2>2, <3>1 DEF Succeeded
  <2>7. EnrollInv'
    BY <1>1, <1>6, <2>4, <2>5, <2>6, Enrolling
  <2>8. Joined
    BY <1>6, InsertJoins
  <2>. QED
    BY <1>1, <2>4, <2>7, <2>8, JoinStep
<1>7. CASE UNCHANGED <<payments, enrollment>>
  <2>1. MoneyInv' /\ MoneyStays
    BY <1>1, <1>7, SameMoney DEF money
  <2>2. Sold'
    BY <1>5, <1>7, <2>1, NothingSold DEF Enrolled
  <2>3. EnrollInv' /\ Joined
    BY <1>1, <1>7, <2>1, <2>2, EnrollmentsKept
  <2>. QED
    BY <1>1, <2>1, <2>3, JoinStep
<1>. QED
  BY <1>2, <1>4, <1>6, <1>7 DEF Capture

\* The status of a stored payment is set by the gateway or by a timer.
LEMMA StatusSet ==
    ASSUME CoursesInv, NEW p \in PaymentIds, payments[p] # Absent,
           NEW status \in {"SUCCESS", "FAILED"},
           payments' = [payments EXCEPT ![p].status = status],
           status = "FAILED" => payments[p].status # "SUCCESS",
           status = "SUCCESS" => provider = "mock",
           timer' \in [PaymentIds -> {"none", "set", "marked"}],
           \A q \in PaymentIds :
               timer'[q] = timer[q] \/ (q = p /\ provider = "mock" /\ status = "SUCCESS"),
           UNCHANGED <<catalogue, used, paid, provider, learning, call, lost>>
    PROVE  CoursesInv' /\ Stays
<1>1. UNCHANGED <<enrollment, progress, snapshot, issued>>
  BY DEF learning
<1>2. PICK row : row = [payments[p] EXCEPT !.status = status]
  OBVIOUS
<1>3. /\ row \in Payment /\ row.status = status
      /\ row.user = payments[p].user /\ row.course = payments[p].course
  BY <1>2 DEF CoursesInv, MoneyInv, Payment
<1>4. payments' = [payments EXCEPT ![p] = row]
  BY <1>2
<1>5. used' \subseteq Users
  BY DEF CoursesInv, MoneyInv
<1>6. MoneyInv' /\ MoneyStays
  <2>1. \A q \in PaymentIds :
            \/ timer'[q] = timer[q]
            \/ timer'[q] = "none"
            \/ q = p /\ provider = "mock" /\ (timer'[q] = "marked" => row.status = "SUCCESS")
    BY <1>3
  <2>2. payments[p].status = "SUCCESS" => row.status = "SUCCESS"
    BY <1>3
  <2>3. provider' = provider /\ paid' = paid
    OBVIOUS
  <2>. QED
    BY <1>3, <1>4, <1>5, <2>1, <2>2, <2>3, PaymentWritten
<1>7. \A q \in PaymentIds : payments'[q] = IF q = p THEN row ELSE payments[q]
  BY <1>4 DEF CoursesInv, MoneyInv
<1>8. UNCHANGED <<courses, edited>>
  BY SameCatalogue
<1>9. Sold'
  BY <1>1, <1>3, <1>6, <1>7, <1>8, NothingSold DEF Enrolled
<1>10. EnrollInv' /\ Joined
  BY <1>1, <1>6, <1>9, EnrollmentsKept
<1>. QED
  BY <1>1, <1>6, <1>10, GatewayStep

LEMMA MockEnrollmentKeeps ==
    ASSUME CoursesInv, NEW p \in PaymentIds, MockEnrollment(p)
    PROVE  CoursesInv' /\ Stays
<1>1. /\ UNCHANGED <<catalogue, payments, used, paid, provider, progress, snapshot, issued,
                     call, lost>>
      /\ timer[p] = "marked" /\ timer' = [timer EXCEPT ![p] = "none"]
  BY DEF MockEnrollment
<1>2. payments[p] \in Payment /\ payments[p] # Absent /\ payments[p].status = "SUCCESS"
      /\ provider = "mock"
  BY <1>1 DEF CoursesInv, MoneyInv
<1>3. PICK u \in Users, c \in CourseIds : u = payments[p].user /\ c = payments[p].course
  BY <1>2 DEF Payment
<1>4. MoneyInv' /\ MoneyStays
  BY <1>1 DEF CoursesInv, MoneyInv, MoneyStays
<1>5. Sold'
  BY <1>1, <1>2 DEF Sold
<1>6. CASE MayInsert(u, c) /\ Insert(u, c)
  <2>1. Succeeded(u, c)' # {}
    BY <1>1, <1>2, <1>3 DEF Succeeded
  <2>2. EnrollInv'
    BY <1>1, <1>4, <1>5, <1>6, <2>1, Enrolling
  <2>3. Joined
    BY <1>6, InsertJoins
  <2>. QED
    BY <1>1, <1>4, <2>2, <2>3, GatewayStep
<1>7. CASE UNCHANGED enrollment
  <2>1. EnrollInv' /\ Joined
    BY <1>1, <1>4, <1>5, <1>7, EnrollmentsKept
  <2>. QED
    BY <1>1, <1>4, <2>1, GatewayStep
<1>. QED
  BY <1>3, <1>6, <1>7 DEF MockEnrollment

LEMMA PaysKeep ==
    ASSUME CoursesInv, Pays \/ Timers
    PROVE  CoursesInv' /\ Stays
<1>1. ASSUME NEW p \in PaymentIds, Pay(p)
      PROVE  CoursesInv' /\ Stays
  <2>1. /\ UNCHANGED <<catalogue, payments, used, timer, provider, learning, call, lost>>
        /\ paid' = paid \cup {p} /\ payments[p] # Absent
    BY <1>1 DEF Pay
  <2>2. UNCHANGED <<enrollment, progress, snapshot, issued>>
    BY <2>1 DEF learning
  <2>3. MoneyInv' /\ MoneyStays
    BY <2>1 DEF CoursesInv, MoneyInv, MoneyStays
  <2>4. UNCHANGED <<courses, edited>>
    BY <2>1, SameCatalogue
  <2>5. Sold'
    BY <2>1, <2>2, <2>3, <2>4, NothingSold DEF Enrolled
  <2>6. EnrollInv' /\ Joined
    BY <2>1, <2>2, <2>3, <2>5, EnrollmentsKept
  <2>. QED
    BY <2>1, <2>2, <2>3, <2>6, GatewayStep
<1>2. ASSUME NEW p \in PaymentIds, PaymentFailed(p)
      PROVE  CoursesInv' /\ Stays
  BY <1>2, StatusSet DEF PaymentFailed, CoursesInv, MoneyInv
<1>3. ASSUME NEW p \in PaymentIds, MockPayment(p)
      PROVE  CoursesInv' /\ Stays
  <2>1. payments[p] # Absent /\ provider = "mock"
    BY <1>3 DEF MockPayment, CoursesInv, MoneyInv
  <2>2. /\ timer' \in [PaymentIds -> {"none", "set", "marked"}]
        /\ \A q \in PaymentIds : timer'[q] = timer[q] \/ q = p
    BY <1>3 DEF MockPayment, CoursesInv, MoneyInv
  <2>. QED
    BY <1>3, <2>1, <2>2, StatusSet DEF MockPayment
<1>. QED
  BY <1>1, <1>2, <1>3, MockEnrollmentKeeps DEF Pays, Timers

----------------------------------------------------------------------------
(* Lessons *)

LEMMA CourseOfLesson ==
    ASSUME CoursesInv, NEW l \in LessonIds, lessons[l] # Absent
    PROVE  /\ CourseOf(l) \in CourseIds /\ l \in LessonsOf(CourseOf(l))
           /\ lessons[l] \in Lesson
           /\ \A c \in CourseIds : l \in LessonsOf(c) => c = CourseOf(l)
<1>1. lessons[l] \in Lesson /\ lessons[l].section \in SectionIds
  BY DEF CoursesInv, CatalogueInv, Lesson
<1>2. sections[lessons[l].section] \in Section
  BY <1>1 DEF CoursesInv, CatalogueInv
<1>. QED
  BY <1>1, <1>2, RowAssumption DEF CourseOf, LessonsOf, SectionsOf, Section

LEMMA MarkBegun ==
    ASSUME CoursesInv, NEW u \in Users, NEW l \in LessonIds, NEW done \in BOOLEAN,
           NEW watched \in BOOLEAN, lessons[l] # Absent, Enrolled(u, CourseOf(l)),
           done /\ ~lessons[l].video => Unlocked(u, l, LessonsOf(CourseOf(l))),
           NEW k, k = [at |-> "mark", user |-> u, course |-> CourseOf(l), lesson |-> l,
                       done |-> done, watched |-> watched]
    PROVE  Holds(k)
<1>1. k \in MarkCall /\ k.at = "mark" /\ k.course = CourseOf(l) /\ k.lesson = l /\ k.user = u
      /\ k.done = done
  BY CourseOfLesson DEF MarkCall
<1>2. \A c \in CourseIds : MarkIsDue(k, c)
  BY <1>1, CourseOfLesson DEF MarkIsDue
<1>. QED
  BY <1>1, <1>2, CourseOfLesson DEF Holds, OfCourse

LEMMA BeginProgressKeeps ==
    ASSUME CoursesInv, NEW h \in Handlers, NEW u \in Users, NEW l \in LessonIds,
           NEW watched \in BOOLEAN, BeginProgress(h, u, l, watched)
    PROVE  CoursesInv' /\ Stays
<1>1. /\ UNCHANGED <<catalogue, money, learning>> /\ lost' = lost /\ call[h].at = "idle"
      /\ lessons[l] # Absent /\ Enrolled(u, CourseOf(l))
  BY DEF BeginProgress, Begin, Idle
<1>2. PICK done \in BOOLEAN : done = (watched /\ lessons[l].video)
  BY <1>1, CourseOfLesson DEF Lesson
<1>3. PICK k : k = [at |-> "mark", user |-> u, course |-> CourseOf(l), lesson |-> l,
                    done |-> done, watched |-> watched]
  OBVIOUS
<1>4. Holds(k)
  BY <1>1, <1>2, <1>3, MarkBegun
<1>5. call' = [call EXCEPT ![h] = k]
  BY <1>2, <1>3 DEF BeginProgress, Begin
<1>. QED
  BY <1>1, <1>4, <1>5, HoldsStays, HandlerStep, Unfinishing

LEMMA BeginCompleteKeeps ==
    ASSUME CoursesInv, NEW h \in Handlers, NEW u \in Users, NEW l \in LessonIds,
           BeginComplete(h, u, l)
    PROVE  CoursesInv' /\ Stays
<1>1. /\ UNCHANGED <<catalogue, money, learning>> /\ lost' = lost /\ call[h].at = "idle"
      /\ lessons[l] # Absent /\ Enrolled(u, CourseOf(l))
      /\ Unlocked(u, l, LessonsOf(CourseOf(l)))
  BY DEF BeginComplete, Begin, Idle
<1>2. PICK k : k = [at |-> "mark", user |-> u, course |-> CourseOf(l), lesson |-> l,
                    done |-> TRUE, watched |-> FALSE]
  OBVIOUS
<1>3. Holds(k)
  BY <1>1, <1>2, MarkBegun
<1>4. call' = [call EXCEPT ![h] = k]
  BY <1>2 DEF BeginComplete, Begin
<1>. QED
  BY <1>1, <1>3, <1>4, HoldsStays, HandlerStep, Unfinishing

\* The row of a lesson that is there is written, and what was done stays done.
LEMMA LessonMarked ==
    ASSUME CoursesInv, NEW h \in Handlers, call[h].at = "mark",
           NEW u \in Users, u = call[h].user, NEW l \in LessonIds, l = call[h].lesson,
           lessons[l] # Absent, NEW row \in Progress,
           row.done <=> call[h].done \/ Done(u, l),
           progress' = [progress EXCEPT ![u] = [progress[u] EXCEPT ![l] = row]],
           NEW k, call' = [call EXCEPT ![h] = k],
           IF call[h].done THEN k = [at |-> "check", user |-> u, course |-> call[h].course]
           ELSE k = Idle,
           UNCHANGED <<catalogue, money, enrollment, snapshot, issued, lost>>
    PROVE  CoursesInv' /\ Stays
<1>1. /\ call[h] \in MarkCall
      /\ \A c \in CourseIds : c \notin edited => MarkIsDue(call[h], c)
      /\ call[h].course \in CourseIds
  BY DEF CoursesInv, CallsInv, Holds, MarkCall
<1>2. CatalogueInv' /\ CatalogueStays /\ UNCHANGED <<courses, sections, lessons, wasFree, edited>>
  BY SameCatalogue
<1>3. MoneyInv' /\ MoneyStays /\ UNCHANGED <<payments, provider>>
  BY SameMoney
<1>4. /\ progress' \in [Users -> [LessonIds -> Progress \cup {Absent}]]
      /\ \A v \in Users, m \in LessonIds :
             progress'[v][m] = IF v = u /\ m = l THEN row ELSE progress[v][m]
  BY DEF CoursesInv, ProgressInv
<1>5. row # Absent
  BY RowAssumption
<1>6. \A v \in Users, m \in LessonIds :
          Done(v, m)' <=> Done(v, m) \/ (v = u /\ m = l /\ call[h].done)
  BY <1>4, <1>5 DEF Done
<1>7. Stays
  BY <1>2, <1>3, <1>6 DEF Stays, EnrollmentsStay, DoneStays, Enrolled
<1>8. EnrollInv'
  BY <1>2, <1>3, SameEnrolled DEF Enrolled, CoursesInv, EnrollInv
<1>9. ProgressInv'
  <2>1. DoneEnrolled'
    <3>1. \A c \in CourseIds : LessonsOf(c)' = LessonsOf(c)
      BY <1>2 DEF LessonsOf, SectionsOf
    <3>. QED
      BY <1>1, <1>2, <1>6, <3>1 DEF DoneEnrolled, CoursesInv, ProgressInv, MarkIsDue, Enrolled
  <2>2. ASSUME NEW v \in Users, NEW m \in LessonIds,
               lessons[m] # Absent, ~lessons[m].video, Done(v, m)', CourseOf(m) \notin edited
        PROVE  Unlocked(v, m, LessonsOf(CourseOf(m)))'
    <3>1. PICK c \in CourseIds : c = CourseOf(m) /\ m \in LessonsOf(c)
      BY <2>2, CourseOfLesson
    <3>2. Unlocked(v, m, LessonsOf(c))
      BY <1>1, <1>6, <2>2, <3>1 DEF CoursesInv, ProgressInv, TextInOrder, MarkIsDue
    <3>3. Unlocked(v, m, LessonsOf(c))'
      BY <1>2, <1>7, <2>2, <3>1, <3>2, UnlockedStays
    <3>4. CourseOf(m)' = c
      BY <1>2, <3>1 DEF CourseOf
    <3>. QED
      BY <3>3, <3>4
  <2>3. TextInOrder'
    BY <1>2, <2>2 DEF TextInOrder, CourseOf
  <2>4. \A v \in Users, m \in LessonIds : progress'[v][m] # Absent => lessons'[m] # Absent
    BY <1>2, <1>4 DEF CoursesInv, ProgressInv
  <2>. QED
    BY <1>4, <2>1, <2>3, <2>4 DEF ProgressInv
<1>10. SnapshotsInv'
  BY <1>7, NothingFinished DEF CoursesInv, SnapshotsInv, Finished, Enrolled
<1>11. CallsInv'
  <2>1. Holds(k)'
    <3>1. CASE call[h].done
      <4>1. k.at = "check" /\ k.user \in Users /\ k.course \in CourseIds
        BY <1>1, <3>1
      <4>. QED
        BY <4>1 DEF Holds, OfCourse
    <3>2. CASE ~call[h].done
      BY <3>2, IdleHolds
    <3>. QED
      BY <3>1, <3>2
  <2>. QED
    BY <1>7, <2>1, CallsStay
<1>12. NobodyForgotten'
  <2>1. SUFFICES ASSUME NEW v \in Users, NEW c \in CourseIds, c \notin edited, v \notin lost,
                        Enrolled(v, c), AllDone(v, c)'
                 PROVE  enrollment[v][c].completed \/ \E i \in Handlers : Finishing(i, v, c)'
    BY <1>2 DEF NobodyForgotten, Enrolled
  <2>2. PublishedLessons(c)' = PublishedLessons(c) /\ PublishedLessons(c) \subseteq LessonsOf(c)
        /\ LessonsOf(c) \subseteq LessonIds
    BY <1>2 DEF PublishedLessons, LessonsOf, SectionsOf
  <2>3. \A i \in Handlers : call'[i] = IF i = h THEN k ELSE call[i]
    BY DEF CoursesInv, CallsInv
  <2>4. CASE AllDone(v, c)
    <3>1. enrollment[v][c].completed \/ \E i \in Handlers : Finishing(i, v, c)
      BY <2>1, <2>4 DEF CoursesInv, NobodyForgotten
    <3>. QED
      BY <2>3, <3>1 DEF Finishing
  <2>5. CASE ~AllDone(v, c)
    <3>1. v = u /\ l \in LessonsOf(c) /\ call[h].done
      BY <1>6, <2>1, <2>2, <2>5 DEF AllDone
    <3>2. call[h].course = c
      BY <1>1, <2>1, <3>1 DEF MarkIsDue
    <3>3. Finishing(h, v, c)'
      BY <2>3, <3>1, <3>2 DEF Finishing
    <3>. QED
      BY <3>3
  <2>. QED
    BY <2>4, <2>5
<1>. QED
  BY <1>2, <1>3, <1>7, <1>8, <1>9, <1>10, <1>11, <1>12 DEF CoursesInv

LEMMA MarkLessonKeeps ==
    ASSUME CoursesInv, NEW h \in Handlers, MarkLesson(h)
    PROVE  CoursesInv' /\ Stays
<1>1. /\ UNCHANGED <<catalogue, money, enrollment, snapshot, issued, lost>>
      /\ call[h].at = "mark"
  BY DEF MarkLesson
<1>2. PICK u \in Users, l \in LessonIds, done \in BOOLEAN, watched \in BOOLEAN :
          /\ u = call[h].user /\ l = call[h].lesson
          /\ done = call[h].done /\ watched = call[h].watched
  BY <1>1 DEF CoursesInv, CallsInv, Holds, MarkCall
<1>3. CASE lessons[l] = Absent
  <2>1. call' = [call EXCEPT ![h] = Idle] /\ UNCHANGED learning
    BY <1>1, <1>2, <1>3 DEF MarkLesson, End, learning
  <2>. QED
    BY <1>1, <2>1, IdleHolds, HandlerStep, Unfinishing
<1>4. CASE lessons[l] # Absent
  <2>. PICK seen \in BOOLEAN : seen = Watched(call[h], progress[u][l])
    BY <1>2 DEF Watched, CoursesInv, ProgressInv, Progress
  <2>1. PICK row : row = [done |-> done \/ (progress[u][l] # Absent /\ progress[u][l].done),
                          watched |-> seen]
    OBVIOUS
  <2>2. row \in Progress /\ (row.done <=> done \/ Done(u, l))
    BY <2>1 DEF Progress, Done, CoursesInv, ProgressInv
  <2>3. progress' = [progress EXCEPT ![u] = [progress[u] EXCEPT ![l] = row]]
    BY <1>2, <1>4, <2>1 DEF MarkLesson
  <2>4. PICK k : k = IF done THEN [at |-> "check", user |-> u, course |-> call[h].course]
                     ELSE Idle
    OBVIOUS
  <2>5. call' = [call EXCEPT ![h] = k]
    BY <1>2, <1>4, <2>4 DEF MarkLesson, Then, End
  <2>. QED
    BY <1>1, <1>2, <1>4, <2>2, <2>3, <2>4, <2>5, LessonMarked
<1>. QED
  BY <1>3, <1>4

----------------------------------------------------------------------------
(* Completion and certificate *)

LEMMA ReadLessonsKeeps ==
    ASSUME CoursesInv, NEW h \in Handlers, ReadLessons(h)
    PROVE  CoursesInv' /\ Stays
<1>1. UNCHANGED <<catalogue, money, learning>> /\ lost' = lost /\ call[h].at = "check"
  BY DEF ReadLessons
<1>2. PICK u \in Users, c \in CourseIds : u = call[h].user /\ c = call[h].course
  BY <1>1 DEF CoursesInv, CallsInv, Holds, OfCourse
<1>3. CASE ~Enrolled(u, c) \/ PublishedLessons(c) = {} \/ enrollment[u][c].completed
  <2>1. call' = [call EXCEPT ![h] = Idle]
    BY <1>2, <1>3 DEF ReadLessons, End
  <2>2. SeesOn(h, Idle)
    BY <1>2, <1>3 DEF SeesOn, Finishing, AllDone
  <2>. QED
    BY <1>1, <2>1, <2>2, IdleHolds, HandlerStep
<1>4. CASE ~(~Enrolled(u, c) \/ PublishedLessons(c) = {} \/ enrollment[u][c].completed)
  <2>1. PICK k : k = [at |-> "count", user |-> u, course |-> c, lessons |-> PublishedLessons(c)]
    OBVIOUS
  <2>2. call' = [call EXCEPT ![h] = k]
    BY <1>2, <1>4, <2>1 DEF ReadLessons, Then
  <2>3. k \in CountCall /\ k.at = "count" /\ k.user = u /\ k.course = c
        /\ k.lessons = PublishedLessons(c)
    BY <2>1 DEF CountCall, PublishedLessons, LessonsOf
  <2>4. Holds(k)
    BY <1>4, <2>3 DEF Holds, OfCourse
  <2>5. SeesOn(h, k)
    BY <1>2, <2>3 DEF SeesOn, Finishing
  <2>. QED
    BY <1>1, <2>2, <2>4, <2>5, HoldsStays, HandlerStep
<1>. QED
  BY <1>3, <1>4

\* Counting as many lessons as there are finds every one of them done.
LEMMA CountedAll ==
    ASSUME NEW S \in SUBSET LessonIds, NEW D \in SUBSET S
    PROVE  Cardinality(D) >= Cardinality(S) <=> D = S
<1>1. IsFiniteSet(S)
  BY CoursesAssumption, FS_Subset
<1>2. IsFiniteSet(D) /\ Cardinality(D) \in Nat /\ Cardinality(S) \in Nat
      /\ Cardinality(D) <= Cardinality(S)
      /\ (Cardinality(D) = Cardinality(S) => D = S)
  BY <1>1, FS_Subset, FS_CardinalityType
<1>. QED
  BY <1>2

LEMMA CountLessonsKeeps ==
    ASSUME CoursesInv, NEW h \in Handlers, CountLessons(h)
    PROVE  CoursesInv' /\ Stays
<1>1. UNCHANGED <<catalogue, money, learning>> /\ lost' = lost /\ call[h].at = "count"
  BY DEF CountLessons
<1>2. /\ call[h] \in CountCall /\ call[h].lessons # {}
      /\ call[h].course \notin edited => call[h].lessons = PublishedLessons(call[h].course)
  BY <1>1 DEF CoursesInv, CallsInv, Holds
<1>3. PICK u \in Users, c \in CourseIds, S \in SUBSET LessonIds :
          u = call[h].user /\ c = call[h].course /\ S = call[h].lessons
  BY <1>2 DEF CountCall
<1>4. PICK D \in SUBSET S : D = {l \in S : Done(u, l)}
  OBVIOUS
<1>5. PICK k : k = [call[h] EXCEPT !.at = "finish"]
  OBVIOUS
<1>6. CASE D = S
  <2>1. call' = [call EXCEPT ![h] = k]
    BY <1>3, <1>4, <1>5, <1>6, CountedAll DEF CountLessons, Then
  <2>2. k \in CountCall /\ k.at = "finish" /\ k.user = u /\ k.course = c /\ k.lessons = S
    BY <1>2, <1>3, <1>5 DEF CountCall
  <2>3. Holds(k)
    BY <1>2, <1>3, <1>4, <1>6, <2>2 DEF Holds, OfCourse
  <2>4. SeesOn(h, k)
    BY <1>3, <2>2 DEF SeesOn, Finishing
  <2>. QED
    BY <1>1, <2>1, <2>3, <2>4, HoldsStays, HandlerStep
<1>7. CASE D # S
  <2>1. call' = [call EXCEPT ![h] = Idle]
    BY <1>3, <1>4, <1>7, CountedAll DEF CountLessons, End
  <2>2. SeesOn(h, Idle)
    BY <1>2, <1>3, <1>4, <1>7 DEF SeesOn, Finishing, AllDone
  <2>. QED
    BY <1>1, <2>1, <2>2, IdleHolds, HandlerStep
<1>. QED
  BY <1>6, <1>7

\* The handler writes over a row of an enrollment and takes no completion back.
Writes(h, u, c, row) ==
    /\ enrollment[u][c].completed => row.completed
    /\ enrollment' = [enrollment EXCEPT ![u] = [enrollment[u] EXCEPT ![c] = row]]
    /\ snapshot' \in [Users -> [CourseIds -> SUBSET LessonIds]]
    /\ \A v \in Users, d \in CourseIds : (v = u /\ d = c) \/ snapshot'[v][d] = snapshot[v][d]
    /\ row.completed => snapshot'[u][c] # {}
    /\ c \notin edited => \A l \in snapshot'[u][c] : l \in LessonsOf(c) /\ Done(u, l)
    /\ \A v \in Users, d \in CourseIds :
           Finishing(h, v, d) => v = u /\ d = c /\ row.completed

LEMMA EnrollmentWritten ==
    ASSUME CoursesInv, NEW h \in Handlers, NEW k, call' = [call EXCEPT ![h] = k],
           Stays => Holds(k)',
           NEW u \in Users, NEW c \in CourseIds, Enrolled(u, c), NEW row \in Enrollment,
           Writes(h, u, c, row),
           UNCHANGED <<catalogue, money, progress, issued, lost>>
    PROVE  CoursesInv' /\ Stays
<1>1. CatalogueInv' /\ CatalogueStays /\ UNCHANGED <<courses, sections, lessons, wasFree, edited>>
  BY SameCatalogue
<1>2. MoneyInv' /\ MoneyStays /\ UNCHANGED <<payments, provider>>
  BY SameMoney
<1>3. /\ enrollment' \in [Users -> [CourseIds -> Enrollment \cup {Absent}]]
      /\ \A v \in Users, d \in CourseIds :
             enrollment'[v][d] = IF v = u /\ d = c THEN row ELSE enrollment[v][d]
  BY DEF CoursesInv, EnrollInv, Writes
<1>4. \A v \in Users, d \in CourseIds : Enrolled(v, d)' <=> Enrolled(v, d)
  BY <1>3, RowAssumption DEF Enrolled
<1>5. EnrollInv' /\ EnrollmentsStay
  BY <1>1, <1>2, <1>3, <1>4, SameEnrolled
<1>6. Stays
  BY <1>1, <1>2, <1>5 DEF Stays, DoneStays, Done
<1>7. ProgressInv' /\ \A v \in Users, l \in LessonIds : Done(v, l)' => Done(v, l)
  BY <1>1, <1>6, NothingDone DEF CoursesInv, ProgressInv
<1>8. SnapshotsInv'
  <2>1. \A v \in Users, d \in CourseIds : Finished(v, d)' => snapshot'[v][d] # {}
    BY <1>3, <1>4 DEF Finished, CoursesInv, SnapshotsInv, Writes
  <2>2. \A v \in Users, l \in LessonIds : Done(v, l)' <=> Done(v, l)
    BY DEF Done
  <2>3. \A d \in CourseIds : LessonsOf(d)' = LessonsOf(d)
    BY <1>1 DEF LessonsOf, SectionsOf
  <2>4. ASSUME NEW v \in Users, NEW d \in CourseIds, d \notin edited, NEW l \in snapshot'[v][d]
        PROVE  l \in LessonsOf(d)' /\ Done(v, l)'
    <3>1. l \in LessonIds
      BY <2>4 DEF Writes
    <3>2. l \in LessonsOf(d) /\ Done(v, l)
      BY <2>4 DEF CoursesInv, SnapshotsInv, Writes
    <3>. QED
      BY <2>2, <2>3, <3>1, <3>2
  <2>. QED
    BY <1>1, <2>1, <2>4 DEF CoursesInv, SnapshotsInv, Writes
<1>9. CallsInv'
  BY <1>6, CallsStay
<1>10. NobodyForgotten'
  <2>1. \A i \in Handlers : call'[i] = IF i = h THEN k ELSE call[i]
    BY DEF CoursesInv, CallsInv
  <2>2. \A v \in Users, d \in CourseIds :
            Finished(v, d) /\ Enrolled(v, d)' => enrollment'[v][d].completed
    BY <1>3 DEF Finished, Writes
  <2>3. ASSUME NEW i \in Handlers, NEW v \in Users, NEW d \in CourseIds, Finishing(i, v, d)
        PROVE  Finishing(i, v, d)' \/ enrollment'[v][d].completed
    BY <1>3, <2>1, <2>3 DEF Finishing, Writes
  <2>. QED
    BY <1>6, <1>7, <2>2, <2>3, NoneForgotten
<1>. QED
  BY <1>1, <1>2, <1>5, <1>6, <1>7, <1>8, <1>9, <1>10 DEF CoursesInv

LEMMA FinishCourseKeeps ==
    ASSUME CoursesInv, NEW h \in Handlers, FinishCourse(h)
    PROVE  CoursesInv' /\ Stays
<1>1. UNCHANGED <<catalogue, money, progress, issued, lost>> /\ call[h].at = "finish"
  BY DEF FinishCourse
<1>2. /\ call[h] \in CountCall /\ call[h].lessons # {}
      /\ call[h].course \notin edited =>
             /\ call[h].lessons = PublishedLessons(call[h].course)
             /\ \A l \in call[h].lessons : Done(call[h].user, l)
  BY <1>1 DEF CoursesInv, CallsInv, Holds
<1>3. PICK u \in Users, c \in CourseIds, S \in SUBSET LessonIds :
          u = call[h].user /\ c = call[h].course /\ S = call[h].lessons
  BY <1>2 DEF CountCall
<1>4. CASE Enrolled(u, c)
  <2>1. PICK row : row = [enrollment[u][c] EXCEPT !.completed = TRUE]
    OBVIOUS
  <2>2. row \in Enrollment /\ row.completed
    <3>1. enrollment[u][c] \in Enrollment
      BY <1>4 DEF Enrolled, CoursesInv, EnrollInv
    <3>. QED
      BY <2>1, <3>1 DEF Enrollment
  <2>3. PICK k : k = [at |-> "generate", user |-> u, course |-> c]
    OBVIOUS
  <2>4. /\ enrollment' = [enrollment EXCEPT ![u] = [enrollment[u] EXCEPT ![c] = row]]
        /\ snapshot' = [snapshot EXCEPT ![u] = [snapshot[u] EXCEPT ![c] = S]]
        /\ call' = [call EXCEPT ![h] = k]
    BY <1>3, <1>4, <2>1, <2>3 DEF FinishCourse, Then
  <2>5. /\ snapshot' \in [Users -> [CourseIds -> SUBSET LessonIds]]
        /\ snapshot'[u][c] = S
        /\ \A v \in Users, d \in CourseIds :
               (v = u /\ d = c) \/ snapshot'[v][d] = snapshot[v][d]
    BY <2>4 DEF CoursesInv, SnapshotsInv
  <2>6. /\ c \notin edited => \A l \in snapshot'[u][c] : l \in LessonsOf(c) /\ Done(u, l)
        /\ row.completed => snapshot'[u][c] # {}
    BY <1>2, <1>3, <2>5 DEF PublishedLessons
  <2>7. \A v \in Users, d \in CourseIds :
            Finishing(h, v, d) => v = u /\ d = c /\ row.completed
    BY <1>3, <2>2 DEF Finishing
  <2>8. k.at = "generate" /\ k \in GenerateCall
    BY <2>3 DEF GenerateCall
  <2>9. Holds(k)'
    BY <2>8 DEF Holds, OfCourse, GenerateCall
  <2>10. Writes(h, u, c, row)
    BY <2>2, <2>4, <2>5, <2>6, <2>7 DEF Writes
  <2>. QED
    BY <1>1, <1>4, <2>2, <2>4, <2>9, <2>10, EnrollmentWritten
<1>5. CASE ~Enrolled(u, c)
  <2>1. call' = [call EXCEPT ![h] = Idle] /\ UNCHANGED learning
    BY <1>1, <1>3, <1>5 DEF FinishCourse, End, learning
  <2>2. SeesOn(h, Idle)
    BY <1>3, <1>5 DEF SeesOn, Finishing
  <2>. QED
    BY <1>1, <2>1, <2>2, IdleHolds, HandlerStep
<1>. QED
  BY <1>4, <1>5

LEMMA StoreCertificateKeeps ==
    ASSUME CoursesInv, NEW h \in Handlers, StoreCertificate(h)
    PROVE  CoursesInv' /\ Stays
<1>1. UNCHANGED <<catalogue, money, progress, snapshot, issued, lost>> /\ call[h].at = "link"
      /\ call' = [call EXCEPT ![h] = Idle]
  BY DEF StoreCertificate, End
<1>2. PICK u \in Users, c \in CourseIds, n \in Nat :
          u = call[h].user /\ c = call[h].course /\ n = call[h].certificate
  BY <1>1 DEF CoursesInv, CallsInv, Holds, OfCourse
<1>3. CASE Enrolled(u, c)
  <2>1. PICK row : row = [enrollment[u][c] EXCEPT !.certificate = n]
    OBVIOUS
  <2>2. row \in Enrollment /\ row.completed = enrollment[u][c].completed
    BY <1>3, <2>1 DEF Enrolled, Enrollment, CoursesInv, EnrollInv
  <2>3. enrollment' = [enrollment EXCEPT ![u] = [enrollment[u] EXCEPT ![c] = row]]
    BY <1>2, <1>3, <2>1 DEF StoreCertificate
  <2>4. /\ snapshot' \in [Users -> [CourseIds -> SUBSET LessonIds]]
        /\ row.completed => snapshot'[u][c] # {}
        /\ c \notin edited => \A l \in snapshot'[u][c] : l \in LessonsOf(c) /\ Done(u, l)
    BY <1>1, <1>3, <2>2 DEF CoursesInv, SnapshotsInv, Finished
  <2>5. \A v \in Users, d \in CourseIds : ~Finishing(h, v, d)
    BY <1>1 DEF Finishing
  <2>6. Writes(h, u, c, row)
    BY <1>1, <2>2, <2>3, <2>4, <2>5 DEF Writes
  <2>. QED
    BY <1>1, <1>3, <2>2, <2>6, IdleHolds, EnrollmentWritten
<1>4. CASE ~Enrolled(u, c)
  <2>1. UNCHANGED learning
    BY <1>1, <1>2, <1>4 DEF StoreCertificate, learning
  <2>. QED
    BY <1>1, <2>1, IdleHolds, HandlerStep, Unfinishing
<1>. QED
  BY <1>3, <1>4

LEMMA CertificateMade ==
    ASSUME CoursesInv, NEW h \in Handlers, call[h].at = "render", NEW k,
           call' = [call EXCEPT ![h] = k], Holds(k)', issued' \in Nat,
           UNCHANGED <<catalogue, money, enrollment, progress, snapshot, lost>>
    PROVE  CoursesInv' /\ Stays
<1>1. CatalogueInv' /\ CatalogueStays /\ UNCHANGED <<courses, sections, lessons, wasFree, edited>>
  BY SameCatalogue
<1>2. MoneyInv' /\ MoneyStays /\ UNCHANGED <<payments, provider>>
  BY SameMoney
<1>3. EnrollInv' /\ EnrollmentsStay
  BY <1>1, <1>2, SameEnrolled DEF CoursesInv, EnrollInv, Enrolled
<1>4. Stays
  BY <1>1, <1>2, <1>3 DEF Stays, DoneStays, Done
<1>5. ProgressInv' /\ \A v \in Users, l \in LessonIds : Done(v, l)' => Done(v, l)
  BY <1>1, <1>4, NothingDone DEF CoursesInv, ProgressInv
<1>6. SnapshotsInv'
  BY <1>4, NothingFinished DEF CoursesInv, SnapshotsInv, Finished, Enrolled
<1>7. CallsInv'
  BY <1>4, CallsStay
<1>8. \A i \in Handlers : i # h => call'[i] = call[i]
  BY DEF CoursesInv, CallsInv
<1>9. NobodyForgotten'
  BY <1>4, <1>5, <1>8, NoneForgotten DEF Finishing, Finished
<1>. QED
  BY <1>1, <1>2, <1>3, <1>4, <1>5, <1>6, <1>7, <1>9 DEF CoursesInv

LEMMA GeneratesKeep ==
    ASSUME CoursesInv, NEW h \in Handlers,
           \/ \E u \in Users, c \in CourseIds : GetCertificate(h, u, c)
           \/ BeginGenerate(h) \/ GeneratePdf(h) \/ GeneratePdfFails(h)
    PROVE  CoursesInv' /\ Stays
<1>1. ASSUME NEW u \in Users, NEW c \in CourseIds, GetCertificate(h, u, c)
      PROVE  CoursesInv' /\ Stays
  <2>1. UNCHANGED <<catalogue, money, learning>> /\ lost' = lost /\ call[h].at = "idle"
    BY <1>1 DEF GetCertificate, Begin, Idle
  <2>2. PICK k : k = [at |-> "generate", user |-> u, course |-> c]
    OBVIOUS
  <2>3. k.at = "generate" /\ k \in GenerateCall
    BY <2>2 DEF GenerateCall
  <2>4. Holds(k)'
    BY <2>3 DEF Holds, OfCourse, GenerateCall
  <2>5. call' = [call EXCEPT ![h] = k]
    BY <1>1, <2>2 DEF GetCertificate, Begin
  <2>. QED
    BY <2>1, <2>4, <2>5, HandlerStep, Unfinishing
<1>2. CASE BeginGenerate(h)
  <2>1. UNCHANGED <<catalogue, money, learning>> /\ lost' = lost /\ call[h].at = "generate"
    BY <1>2 DEF BeginGenerate
  <2>2. call[h] \in GenerateCall
    BY <2>1 DEF CoursesInv, CallsInv, Holds
  <2>3. PICK k : k = [call[h] EXCEPT !.at = "render"]
    OBVIOUS
  <2>4. k.at = "render" /\ k \in GenerateCall
    BY <2>2, <2>3 DEF GenerateCall
  <2>5. Holds(k)'
    BY <2>4 DEF Holds, OfCourse, GenerateCall
  <2>6. call' = [call EXCEPT ![h] = k] \/ call' = [call EXCEPT ![h] = Idle]
    BY <1>2, <2>3 DEF BeginGenerate, Then, End
  <2>. QED
    BY <2>1, <2>5, <2>6, IdleHolds, HandlerStep, Unfinishing
<1>3. CASE GeneratePdf(h)
  <2>1. /\ UNCHANGED <<catalogue, money, enrollment, progress, snapshot, lost>>
        /\ call[h].at = "render" /\ issued' = issued + 1
    BY <1>3 DEF GeneratePdf
  <2>2. PICK u \in Users, c \in CourseIds : u = call[h].user /\ c = call[h].course
    BY <2>1 DEF CoursesInv, CallsInv, Holds, OfCourse
  <2>3. PICK k : k = [at |-> "link", user |-> u, course |-> c, certificate |-> issued + 1]
    OBVIOUS
  <2>4. Holds(k)'
    BY <2>3 DEF Holds, OfCourse, CoursesInv, SnapshotsInv
  <2>5. call' = [call EXCEPT ![h] = k]
    BY <1>3, <2>2, <2>3 DEF GeneratePdf, Then
  <2>6. issued' \in Nat
    BY <2>1 DEF CoursesInv, SnapshotsInv
  <2>. QED
    BY <2>1, <2>4, <2>5, <2>6, CertificateMade
<1>4. CASE GeneratePdfFails(h)
  <2>1. UNCHANGED <<catalogue, money, learning>> /\ lost \subseteq lost' /\ call[h].at = "render"
        /\ call' = [call EXCEPT ![h] = Idle]
    BY <1>4 DEF GeneratePdfFails, End
  <2>. QED
    BY <2>1, IdleHolds, HandlerStep, Unfinishing
<1>. QED
  BY <1>1, <1>2, <1>3, <1>4

----------------------------------------------------------------------------
(* The administrator *)

\* No step but a change of the catalogue: nobody is enrolled, paid or asked.
LEMMA EditedStep ==
    ASSUME CoursesInv, CatalogueInv', CatalogueStays, UNCHANGED <<money, learning, call, lost>>,
           \A l \in LessonIds : lessons[l] # Absent => lessons'[l] # Absent,
           \A c \in CourseIds : courses[c] # Absent => courses'[c] # Absent,
           \A c \in CourseIds : c \in edited /\ courses[c] = Absent => courses'[c] = Absent
    PROVE  CoursesInv' /\ Stays
<1>1. MoneyInv' /\ MoneyStays /\ UNCHANGED <<payments, provider>>
  BY SameMoney
<1>2. /\ Stays /\ ProgressInv' /\ SnapshotsInv' /\ UNCHANGED enrollment
      /\ \A u \in Users, l \in LessonIds : Done(u, l)' => Done(u, l)
      /\ \A u \in Users, c \in CourseIds :
             Finished(u, c) /\ Enrolled(u, c)' => enrollment'[u][c].completed
  BY <1>1, RowsUnchanged
<1>3. EnrollInv'
  <2>1. wasFree \subseteq wasFree' /\ edited \subseteq edited'
    BY DEF CatalogueStays
  <2>2. /\ enrollment' \in [Users -> [CourseIds -> Enrollment \cup {Absent}]]
        /\ \A u \in Users, c \in CourseIds : Enrolled(u, c)' <=> Enrolled(u, c)
    BY <1>2 DEF CoursesInv, EnrollInv, Enrolled
  <2>. QED
    BY <1>1, <2>1, <2>2, SameEnrolled
<1>4. CallsInv'
  BY <1>2, SameCalls
<1>5. NobodyForgotten'
  <2>1. \A h \in Handlers, u \in Users, c \in CourseIds :
            Finishing(h, u, c) => Finishing(h, u, c)'
    BY DEF Finishing
  <2>. QED
    BY <1>2, <2>1, NoneForgotten
<1>. QED
  BY <1>1, <1>2, <1>3, <1>4, <1>5 DEF CoursesInv

\* What is changed in a course marks it as edited.
LEMMA LayoutChanged ==
    ASSUME CoursesInv, edited \subseteq edited',
           \A n \in SectionIds : sections'[n] # sections[n] =>
               /\ sections[n] # Absent => sections[n].course \in edited'
               /\ sections'[n] # Absent => sections'[n].course \in edited',
           \A l \in LessonIds : lessons'[l] # lessons[l] =>
               /\ lessons[l] # Absent => sections[lessons[l].section].course \in edited'
               /\ lessons'[l] # Absent => sections'[lessons'[l].section].course \in edited'
    PROVE  LayoutStays
<1>1. SUFFICES ASSUME NEW c \in CourseIds, c \notin edited'
               PROVE  /\ \A n \in SectionIds :
                             /\ n \in SectionsOf(c)' <=> n \in SectionsOf(c)
                             /\ n \in SectionsOf(c) => sections'[n] = sections[n]
                      /\ \A l \in LessonIds :
                             /\ l \in LessonsOf(c)' <=> l \in LessonsOf(c)
                             /\ l \in LessonsOf(c) => lessons'[l] = lessons[l]
  BY DEF LayoutStays
<1>2. \A n \in SectionIds :
          /\ n \in SectionsOf(c)' <=> n \in SectionsOf(c)
          /\ n \in SectionsOf(c) => sections'[n] = sections[n]
  BY <1>1 DEF SectionsOf
<1>3. ASSUME NEW l \in LessonIds, l \in LessonsOf(c) \/ l \in LessonsOf(c)'
      PROVE  lessons'[l] = lessons[l]
  BY <1>1, <1>3 DEF LessonsOf, SectionsOf
<1>4. \A l \in LessonIds : l \in LessonsOf(c)' <=> l \in LessonsOf(c)
  <2>1. \A n : n \in SectionsOf(c)' <=> n \in SectionsOf(c)
    BY <1>2 DEF SectionsOf
  <2>. QED
    BY <1>3, <2>1 DEF LessonsOf
<1>. QED
  BY <1>2, <1>3, <1>4

LEMMA CourseWritten ==
    ASSUME CoursesInv, NEW c \in CourseIds, NEW row \in Course, SetCourse(c, row),
           UNCHANGED <<sections, lessons, edited, money, learning, call, lost>>,
           courses[c] # Absent \/ c \notin edited
    PROVE  CoursesInv' /\ Stays
<1>1. row # Absent
  BY RowAssumption
<1>2. /\ courses' \in [CourseIds -> Course \cup {Absent}]
      /\ \A d \in CourseIds : courses'[d] = IF d = c THEN row ELSE courses[d]
  BY DEF SetCourse, CoursesInv, CatalogueInv
<1>3. wasFree \subseteq wasFree' /\ (row.free => c \in wasFree')
  BY <1>1 DEF SetCourse
<1>4. CatalogueInv'
  <2>1. \A n \in SectionIds : sections'[n] # Absent => courses'[sections'[n].course] # Absent
    BY <1>1, <1>2, RowAssumption DEF CoursesInv, CatalogueInv, Section
  <2>2. \A d \in CourseIds : courses'[d] # Absent => (courses'[d].free => d \in wasFree')
    BY <1>2, <1>3 DEF CoursesInv, CatalogueInv
  <2>. QED
    BY <1>2, <2>1, <2>2 DEF CoursesInv, CatalogueInv
<1>5. CatalogueStays
  BY <1>3 DEF CatalogueStays, LayoutStays, SectionsOf, LessonsOf
<1>. QED
  BY <1>1, <1>2, <1>4, <1>5, EditedStep

LEMMA CourseRoutesKeep ==
    ASSUME CoursesInv, CourseRoutes
    PROVE  CoursesInv' /\ Stays
<1>1. ASSUME NEW c \in CourseIds, NEW free \in BOOLEAN, NEW priced \in BOOLEAN,
             CreateCourse(c, free, priced)
      PROVE  CoursesInv' /\ Stays
  <2>1. PICK row : row = [free |-> free, priced |-> priced, published |-> FALSE]
    OBVIOUS
  <2>2. row \in Course
    BY <2>1 DEF Course
  <2>. QED
    BY <1>1, <2>1, <2>2, CourseWritten DEF CreateCourse, Edit
<1>2. ASSUME NEW c \in CourseIds, NEW free \in BOOLEAN, NEW priced \in BOOLEAN,
             UpdateCourse(c, free, priced)
      PROVE  CoursesInv' /\ Stays
  <2>1. PICK row : row = [courses[c] EXCEPT !.free = free, !.priced = priced]
    OBVIOUS
  <2>2. row \in Course
    BY <1>2, <2>1 DEF Course, UpdateCourse, CoursesInv, CatalogueInv
  <2>. QED
    BY <1>2, <2>1, <2>2, CourseWritten DEF UpdateCourse, Edit
<1>3. ASSUME NEW c \in CourseIds, NEW published \in BOOLEAN, PublishCourse(c, published)
      PROVE  CoursesInv' /\ Stays
  <2>1. PICK row : row = [courses[c] EXCEPT !.published = published]
    OBVIOUS
  <2>2. row \in Course
    BY <1>3, <2>1 DEF Course, PublishCourse, CoursesInv, CatalogueInv
  <2>. QED
    BY <1>3, <2>1, <2>2, CourseWritten DEF PublishCourse, Edit
<1>4. ASSUME NEW c \in CourseIds, NEW h \in Handlers, BeginDeleteCourse(h, c)
      PROVE  CoursesInv' /\ Stays
  <2>1. PICK k : k = [at |-> "delete", course |-> c]
    OBVIOUS
  <2>2. Holds(k)'
    BY <2>1 DEF Holds, OfCourse
  <2>3. call' = [call EXCEPT ![h] = k] /\ call[h].at = "idle"
    BY <1>4, <2>1 DEF BeginDeleteCourse, Begin, Idle
  <2>. QED
    BY <1>4, <2>2, <2>3, HandlerStep, Unfinishing DEF BeginDeleteCourse, Edit
<1>. QED
  BY <1>1, <1>2, <1>3, <1>4 DEF CourseRoutes

\* Sections are added or get another order.
LEMMA SectionsWritten ==
    ASSUME CoursesInv, sections' \in [SectionIds -> Section \cup {Absent}],
           edited \subseteq edited',
           UNCHANGED <<courses, lessons, wasFree, money, learning, call, lost>>,
           \A n \in SectionIds : sections[n] # Absent =>
               sections'[n] # Absent /\ sections'[n].course = sections[n].course,
           \A n \in SectionIds : sections'[n] # sections[n] =>
               sections'[n].course \in edited' /\ courses[sections'[n].course] # Absent
    PROVE  CoursesInv' /\ Stays
<1>1. /\ lessons \in [LessonIds -> Lesson \cup {Absent}]
      /\ \A n \in SectionIds : sections[n] # Absent => courses[sections[n].course] # Absent
      /\ \A l \in LessonIds : lessons[l] # Absent =>
             lessons[l].section \in SectionIds /\ sections[lessons[l].section] # Absent
  BY RowAssumption DEF CoursesInv, CatalogueInv, Lesson
<1>2. CatalogueInv'
  BY <1>1 DEF CoursesInv, CatalogueInv
<1>3. LayoutStays
  BY <1>1, LayoutChanged
<1>4. CatalogueStays
  BY <1>3 DEF CatalogueStays
<1>. QED
  BY <1>2, <1>4, EditedStep

\* Lessons are added or edited in their sections.
LEMMA LessonsWritten ==
    ASSUME CoursesInv, lessons' \in [LessonIds -> Lesson \cup {Absent}],
           edited \subseteq edited',
           UNCHANGED <<courses, sections, wasFree, money, learning, call, lost>>,
           \A l \in LessonIds : lessons[l] # Absent =>
               lessons'[l] # Absent /\ lessons'[l].section = lessons[l].section,
           \A l \in LessonIds : lessons'[l] # lessons[l] =>
               /\ sections[lessons'[l].section] # Absent
               /\ sections[lessons'[l].section].course \in edited'
    PROVE  CoursesInv' /\ Stays
<1>1. \A l \in LessonIds : lessons[l] # Absent => sections[lessons[l].section] # Absent
  BY DEF CoursesInv, CatalogueInv
<1>2. CatalogueInv'
  BY <1>1 DEF CoursesInv, CatalogueInv
<1>3. LayoutStays
  BY LayoutChanged
<1>4. CatalogueStays
  BY <1>3 DEF CatalogueStays
<1>. QED
  BY <1>2, <1>4, EditedStep

\* Lessons go, and with them what was done of them.
LEMMA LessonsGone ==
    ASSUME CoursesInv, CatalogueInv', CatalogueStays, UNCHANGED <<money, lost, issued>>,
           EnrollInv', EnrollmentsStay, NEW gone \in SUBSET LessonIds, Without(gone),
           snapshot' \in [Users -> [CourseIds -> SUBSET LessonIds]],
           \A u \in Users, c \in CourseIds :
               \/ snapshot'[u][c] = snapshot[u][c] /\ enrollment'[u][c] = enrollment[u][c]
               \/ snapshot'[u][c] = {} /\ enrollment'[u][c] = Absent,
           Stays => CallsInv',
           \A h \in Handlers : call'[h] = call[h] \/ call[h].at = "delete"
    PROVE  CoursesInv' /\ Stays
<1>1. MoneyInv' /\ MoneyStays
  BY SameMoney
<1>2. /\ progress' \in [Users -> [LessonIds -> Progress \cup {Absent}]]
      /\ \A u \in Users, l \in LessonIds :
             progress'[u][l] = IF l \in gone THEN Absent ELSE progress[u][l]
      /\ \A l \in LessonIds : lessons'[l] = IF l \in gone THEN Absent ELSE lessons[l]
  BY DEF Without, CoursesInv, ProgressInv
<1>3. Stays
  BY <1>1, <1>2 DEF Stays, DoneStays, Done
<1>4. ProgressInv' /\ \A u \in Users, l \in LessonIds : Done(u, l)' => Done(u, l)
  <2>1. \A u \in Users, l \in LessonIds : progress'[u][l] # Absent =>
            progress'[u][l] = progress[u][l] /\ lessons'[l] # Absent
    BY <1>2 DEF CoursesInv, ProgressInv
  <2>. QED
    BY <1>2, <1>3, <2>1, NothingDone
<1>5. SnapshotsInv'
  <2>1. \A u \in Users, c \in CourseIds :
            \/ snapshot'[u][c] = snapshot[u][c] /\ (Finished(u, c)' => Finished(u, c))
            \/ snapshot'[u][c] = {} /\ ~Finished(u, c)'
    BY DEF Finished, Enrolled
  <2>2. issued' \in Nat
    BY DEF CoursesInv, SnapshotsInv
  <2>. QED
    BY <1>3, <2>1, <2>2, NothingFinished
<1>6. NobodyForgotten'
  <2>1. \A u \in Users, c \in CourseIds :
            Finished(u, c) /\ Enrolled(u, c)' => enrollment'[u][c].completed
    BY DEF Finished, Enrolled
  <2>2. \A h \in Handlers, u \in Users, c \in CourseIds :
            Finishing(h, u, c) => Finishing(h, u, c)'
    BY DEF Finishing
  <2>. QED
    BY <1>3, <1>4, <2>1, <2>2, NoneForgotten
<1>. QED
  BY <1>1, <1>3, <1>4, <1>5, <1>6 DEF CoursesInv

LEMMA SectionRoutesKeep ==
    ASSUME CoursesInv, SectionRoutes
    PROVE  CoursesInv' /\ Stays
<1>1. /\ sections \in [SectionIds -> Section \cup {Absent}]
      /\ \A n \in SectionIds : sections[n] # Absent => courses[sections[n].course] # Absent
      /\ Absent \notin Section
  BY RowAssumption DEF CoursesInv, CatalogueInv
<1>2. ASSUME NEW n \in SectionIds, NEW row \in Section,
             Edit, UNCHANGED <<courses, lessons, wasFree, learning, call>>,
             sections' = [sections EXCEPT ![n] = row],
             sections[n] # Absent => sections[n].course = row.course,
             courses[row.course] # Absent, edited' = edited \cup {row.course}
      PROVE  CoursesInv' /\ Stays
  <2>1. /\ sections' \in [SectionIds -> Section \cup {Absent}]
        /\ \A m \in SectionIds : sections'[m] = IF m = n THEN row ELSE sections[m]
    BY <1>1, <1>2
  <2>2. UNCHANGED <<courses, lessons, wasFree, money, learning, call, lost>>
        /\ edited \subseteq edited' /\ row.course \in edited'
    BY <1>2 DEF Edit
  <2>3. \A m \in SectionIds : sections[m] # Absent =>
            sections'[m] # Absent /\ sections'[m].course = sections[m].course
    BY <1>1, <1>2, <2>1
  <2>4. \A m \in SectionIds : sections'[m] # sections[m] =>
            sections'[m].course \in edited' /\ courses[sections'[m].course] # Absent
    BY <1>2, <2>1, <2>2
  <2>. QED
    BY <2>1, <2>2, <2>3, <2>4, SectionsWritten
<1>3. ASSUME NEW n \in SectionIds, NEW c \in CourseIds, NEW order \in Orders,
             CreateSection(n, c, order)
      PROVE  CoursesInv' /\ Stays
  <2>1. PICK row : row = [course |-> c, order |-> order]
    OBVIOUS
  <2>2. row \in Section /\ row.course = c
    BY <2>1, CoursesAssumption DEF Section
  <2>. QED
    BY <1>2, <1>3, <2>1, <2>2 DEF CreateSection
<1>4. ASSUME NEW n \in SectionIds, NEW order \in Orders, UpdateSection(n, order)
      PROVE  CoursesInv' /\ Stays
  <2>1. PICK row : row = [sections[n] EXCEPT !.order = order]
    OBVIOUS
  <2>2. row \in Section /\ row.course = sections[n].course
    BY <1>1, <1>4, <2>1, CoursesAssumption DEF Section, UpdateSection
  <2>. QED
    BY <1>1, <1>2, <1>4, <2>1, <2>2 DEF UpdateSection
<1>5. ASSUME NEW S \in SUBSET SectionIds, NEW place \in Rankings(S), ReorderSections(S, place)
      PROVE  CoursesInv' /\ Stays
  <2>1. \A n \in S : place[n] \in Nat /\ sections[n] \in Section
    BY <1>1, <1>5 DEF Rankings, ReorderSections
  <2>2. \A n \in S : [sections[n] EXCEPT !.order = place[n]] \in Section
                     /\ [sections[n] EXCEPT !.order = place[n]].course = sections[n].course
    BY <2>1 DEF Section
  <2>3. /\ \A n \in SectionIds : sections'[n] =
               IF n \in S THEN [sections[n] EXCEPT !.order = place[n]] ELSE sections[n]
        /\ DOMAIN sections' = SectionIds
        /\ sections' = [n \in SectionIds |-> sections'[n]]
        /\ UNCHANGED <<courses, lessons, wasFree, money, learning, call, lost>>
        /\ edited' = edited \cup {sections[n].course : n \in S}
        /\ \A n \in S : sections[n] # Absent
    BY <1>5 DEF ReorderSections, Edit
  <2>4. \A n \in S : sections'[n] \in Section /\ sections'[n].course = sections[n].course
    BY <2>2, <2>3
  <2>5. \A n \in SectionIds : n \notin S => sections'[n] = sections[n]
    BY <2>3
  <2>6. sections' \in [SectionIds -> Section \cup {Absent}]
    BY <1>1, <2>3, <2>4, <2>5
  <2>7. \A n \in SectionIds : sections[n] # Absent =>
            sections'[n] # Absent /\ sections'[n].course = sections[n].course
    BY <1>1, <2>4, <2>5
  <2>8. \A n \in SectionIds : sections'[n] # sections[n] =>
            sections'[n].course \in edited' /\ courses[sections'[n].course] # Absent
    BY <1>1, <2>3, <2>4, <2>5
  <2>. QED
    BY <2>3, <2>6, <2>7, <2>8, SectionsWritten
<1>6. ASSUME NEW n \in SectionIds, DeleteSection(n)
      PROVE  CoursesInv' /\ Stays
  <2>1. PICK gone \in SUBSET LessonIds :
            gone = {l \in LessonIds : lessons[l] # Absent /\ lessons[l].section = n}
    OBVIOUS
  <2>2. /\ Without(gone) /\ sections' = [sections EXCEPT ![n] = Absent]
        /\ edited' = edited \cup {sections[n].course} /\ sections[n] # Absent
        /\ UNCHANGED <<courses, wasFree, money, lost, enrollment, snapshot, issued, call>>
    BY <1>6, <2>1 DEF DeleteSection, Edit
  <2>3. /\ sections' \in [SectionIds -> Section \cup {Absent}]
        /\ \A m \in SectionIds : sections'[m] = IF m = n THEN Absent ELSE sections[m]
        /\ lessons' \in [LessonIds -> Lesson \cup {Absent}]
        /\ \A l \in LessonIds : lessons'[l] = IF l \in gone THEN Absent ELSE lessons[l]
    BY <1>1, <2>2 DEF Without, CoursesInv, CatalogueInv
  <2>4. CatalogueInv'
    BY <1>1, <2>1, <2>2, <2>3 DEF CoursesInv, CatalogueInv, Lesson, Section
  <2>5. LayoutStays
    BY <2>1, <2>2, <2>3, LayoutChanged
  <2>6. CatalogueStays
    BY <2>2, <2>3, <2>5 DEF CatalogueStays
  <2>7. UNCHANGED <<payments, provider>>
    BY <2>2 DEF money
  <2>8. EnrollInv' /\ EnrollmentsStay
    BY <2>2, <2>6, <2>7, SameEnrolled DEF CoursesInv, EnrollInv, Enrolled, CatalogueStays
  <2>9. /\ snapshot' \in [Users -> [CourseIds -> SUBSET LessonIds]]
        /\ \A u \in Users, c \in CourseIds :
               snapshot'[u][c] = snapshot[u][c] /\ enrollment'[u][c] = enrollment[u][c]
        /\ \A h \in Handlers : call'[h] = call[h]
    BY <2>2 DEF CoursesInv, SnapshotsInv
  <2>10. Stays => CallsInv'
    BY <2>2, SameCalls
  <2>. QED
    BY <2>2, <2>4, <2>6, <2>8, <2>9, <2>10, LessonsGone
<1>. QED
  BY <1>3, <1>4, <1>5, <1>6 DEF SectionRoutes

LEMMA LessonRoutesKeep ==
    ASSUME CoursesInv, LessonRoutes
    PROVE  CoursesInv' /\ Stays
<1>1. /\ lessons \in [LessonIds -> Lesson \cup {Absent}]
      /\ \A l \in LessonIds : lessons[l] # Absent => sections[lessons[l].section] # Absent
      /\ Absent \notin Lesson /\ NewLessons \subseteq Lesson
  BY RowAssumption, CoursesAssumption DEF CoursesInv, CatalogueInv
<1>2. ASSUME NEW l \in LessonIds, NEW row \in Lesson,
             Edit, UNCHANGED <<courses, sections, wasFree, learning, call>>,
             lessons' = [lessons EXCEPT ![l] = row],
             lessons[l] # Absent => lessons[l].section = row.section,
             sections[row.section] # Absent,
             edited' = edited \cup {sections[row.section].course}
      PROVE  CoursesInv' /\ Stays
  <2>1. /\ lessons' \in [LessonIds -> Lesson \cup {Absent}]
        /\ \A m \in LessonIds : lessons'[m] = IF m = l THEN row ELSE lessons[m]
    BY <1>1, <1>2
  <2>2. UNCHANGED <<courses, sections, wasFree, money, learning, call, lost>>
        /\ edited \subseteq edited' /\ sections[row.section].course \in edited'
    BY <1>2 DEF Edit
  <2>3. \A m \in LessonIds : lessons[m] # Absent =>
            lessons'[m] # Absent /\ lessons'[m].section = lessons[m].section
    BY <1>1, <1>2, <2>1
  <2>4. \A m \in LessonIds : lessons'[m] # lessons[m] =>
            /\ sections[lessons'[m].section] # Absent
            /\ sections[lessons'[m].section].course \in edited'
    BY <1>2, <2>1, <2>2
  <2>. QED
    BY <2>1, <2>2, <2>3, <2>4, LessonsWritten
<1>3. ASSUME NEW l \in LessonIds, NEW row \in NewLessons, CreateLesson(l, row)
      PROVE  CoursesInv' /\ Stays
  BY <1>1, <1>2, <1>3 DEF CreateLesson
<1>4. ASSUME NEW l \in LessonIds, NEW row \in NewLessons, UpdateLesson(l, row)
      PROVE  CoursesInv' /\ Stays
  BY <1>1, <1>2, <1>4 DEF UpdateLesson, CourseOf
<1>5. ASSUME NEW S \in SUBSET LessonIds, NEW place \in Rankings(S), ReorderLessons(S, place)
      PROVE  CoursesInv' /\ Stays
  <2>1. \A l \in S : place[l] \in Nat /\ lessons[l] \in Lesson
    BY <1>1, <1>5 DEF Rankings, ReorderLessons
  <2>2. \A l \in S : [lessons[l] EXCEPT !.order = place[l]] \in Lesson
                     /\ [lessons[l] EXCEPT !.order = place[l]].section = lessons[l].section
    BY <2>1 DEF Lesson
  <2>3. /\ \A l \in LessonIds : lessons'[l] =
               IF l \in S THEN [lessons[l] EXCEPT !.order = place[l]] ELSE lessons[l]
        /\ DOMAIN lessons' = LessonIds
        /\ lessons' = [l \in LessonIds |-> lessons'[l]]
        /\ UNCHANGED <<courses, sections, wasFree, money, learning, call, lost>>
        /\ edited' = edited \cup {CourseOf(l) : l \in S}
        /\ \A l \in S : lessons[l] # Absent
    BY <1>5 DEF ReorderLessons, Edit
  <2>4. \A l \in S : lessons'[l] \in Lesson /\ lessons'[l].section = lessons[l].section
    BY <2>2, <2>3
  <2>5. \A l \in LessonIds : l \notin S => lessons'[l] = lessons[l]
    BY <2>3
  <2>6. lessons' \in [LessonIds -> Lesson \cup {Absent}]
    BY <1>1, <2>3, <2>4, <2>5
  <2>7. \A l \in LessonIds : lessons[l] # Absent =>
            lessons'[l] # Absent /\ lessons'[l].section = lessons[l].section
    BY <1>1, <2>4, <2>5
  <2>8. \A l \in LessonIds : lessons'[l] # lessons[l] =>
            /\ sections[lessons'[l].section] # Absent
            /\ sections[lessons'[l].section].course \in edited'
    BY <1>1, <2>3, <2>4, <2>5 DEF CourseOf
  <2>. QED
    BY <2>3, <2>6, <2>7, <2>8, LessonsWritten
<1>6. ASSUME NEW l \in LessonIds, DeleteLesson(l)
      PROVE  CoursesInv' /\ Stays
  <2>1. PICK gone \in SUBSET LessonIds : gone = {l}
    OBVIOUS
  <2>2. /\ Without(gone) /\ edited' = edited \cup {CourseOf(l)} /\ lessons[l] # Absent
        /\ UNCHANGED <<courses, sections, wasFree, money, lost, enrollment, snapshot, issued, call>>
    BY <1>6, <2>1 DEF DeleteLesson, Edit
  <2>3. /\ lessons' \in [LessonIds -> Lesson \cup {Absent}]
        /\ \A m \in LessonIds : lessons'[m] = IF m \in gone THEN Absent ELSE lessons[m]
    BY <1>1, <2>2 DEF Without
  <2>4. CatalogueInv'
    BY <1>1, <2>2, <2>3 DEF CoursesInv, CatalogueInv
  <2>5. LayoutStays
    BY <2>1, <2>2, <2>3, LayoutChanged DEF CourseOf
  <2>6. CatalogueStays
    BY <2>2, <2>3, <2>5 DEF CatalogueStays
  <2>7. UNCHANGED <<payments, provider>>
    BY <2>2 DEF money
  <2>8. EnrollInv' /\ EnrollmentsStay
    BY <2>2, <2>6, <2>7, SameEnrolled DEF CoursesInv, EnrollInv, Enrolled, CatalogueStays
  <2>9. /\ snapshot' \in [Users -> [CourseIds -> SUBSET LessonIds]]
        /\ \A u \in Users, c \in CourseIds :
               snapshot'[u][c] = snapshot[u][c] /\ enrollment'[u][c] = enrollment[u][c]
        /\ \A h \in Handlers : call'[h] = call[h]
    BY <2>2 DEF CoursesInv, SnapshotsInv
  <2>10. Stays => CallsInv'
    BY <2>2, SameCalls
  <2>. QED
    BY <2>2, <2>4, <2>6, <2>8, <2>9, <2>10, LessonsGone
<1>. QED
  BY <1>3, <1>4, <1>5, <1>6 DEF LessonRoutes

LEMMA DeleteCourseKeeps ==
    ASSUME CoursesInv, NEW h \in Handlers, DeleteCourse(h)
    PROVE  CoursesInv' /\ Stays
<1>1. PICK c \in CourseIds : c = call[h].course
  BY DEF DeleteCourse, CoursesInv, CallsInv, Holds
<1>2. PICK gone \in SUBSET LessonIds, cut \in SUBSET SectionIds :
          gone = LessonsOf(c) /\ cut = SectionsOf(c)
  BY DEF LessonsOf, SectionsOf
<1>3. /\ call[h].at = "delete" /\ call' = [call EXCEPT ![h] = Idle]
      /\ courses' = [courses EXCEPT ![c] = Absent] /\ wasFree' = wasFree
      /\ Without(gone) /\ edited' = edited \cup {c}
      /\ sections' = [n \in SectionIds |-> IF n \in cut THEN Absent ELSE sections[n]]
      /\ enrollment' = [u \in Users |-> [enrollment[u] EXCEPT ![c] = Absent]]
      /\ snapshot' = [u \in Users |-> [snapshot[u] EXCEPT ![c] = {}]]
      /\ UNCHANGED <<money, issued, lost>>
  BY <1>1, <1>2 DEF DeleteCourse, SetCourse, End
<1>4. /\ courses' \in [CourseIds -> Course \cup {Absent}]
      /\ sections' \in [SectionIds -> Section \cup {Absent}]
      /\ lessons' \in [LessonIds -> Lesson \cup {Absent}]
      /\ \A d \in CourseIds : courses'[d] = IF d = c THEN Absent ELSE courses[d]
      /\ \A n \in SectionIds : sections'[n] = IF n \in cut THEN Absent ELSE sections[n]
      /\ \A l \in LessonIds : lessons'[l] = IF l \in gone THEN Absent ELSE lessons[l]
  BY <1>3 DEF Without, CoursesInv, CatalogueInv
<1>5. \A n \in SectionIds : n \in cut <=> sections[n] # Absent /\ sections[n].course = c
  BY <1>2 DEF SectionsOf
<1>6. \A l \in LessonIds : l \in gone <=> lessons[l] # Absent /\ lessons[l].section \in cut
  BY <1>2 DEF LessonsOf
<1>7. CatalogueInv'
  <2>1. \A n \in SectionIds : sections[n] # Absent =>
            sections[n].course \in CourseIds /\ courses[sections[n].course] # Absent
    BY RowAssumption DEF CoursesInv, CatalogueInv, Section
  <2>2. \A l \in LessonIds : lessons[l] # Absent =>
            lessons[l].section \in SectionIds /\ sections[lessons[l].section] # Absent
    BY RowAssumption DEF CoursesInv, CatalogueInv, Lesson
  <2>3. \A n \in SectionIds : sections'[n] # Absent => courses'[sections'[n].course] # Absent
    BY <1>4, <1>5, <2>1
  <2>4. \A l \in LessonIds : lessons'[l] # Absent => sections'[lessons'[l].section] # Absent
    BY <1>4, <1>6, <2>2
  <2>5. \A d \in CourseIds : courses'[d] # Absent => (courses'[d].free => d \in wasFree')
    BY <1>3, <1>4 DEF CoursesInv, CatalogueInv
  <2>. QED
    BY <1>4, <2>3, <2>4, <2>5 DEF CatalogueInv
<1>8. LayoutStays
  BY <1>3, <1>4, <1>5, <1>6, LayoutChanged
<1>9. CatalogueStays
  BY <1>3, <1>4, <1>8 DEF CatalogueStays
<1>10. /\ enrollment' \in [Users -> [CourseIds -> Enrollment \cup {Absent}]]
       /\ snapshot' \in [Users -> [CourseIds -> SUBSET LessonIds]]
       /\ \A u \in Users, d \in CourseIds :
              /\ enrollment'[u][d] = IF d = c THEN Absent ELSE enrollment[u][d]
              /\ snapshot'[u][d] = IF d = c THEN {} ELSE snapshot[u][d]
  BY <1>3 DEF CoursesInv, EnrollInv, SnapshotsInv
<1>11. \A u \in Users, d \in CourseIds : Enrolled(u, d)' <=> Enrolled(u, d) /\ d # c
  BY <1>10 DEF Enrolled
<1>12. EnrollInv'
  <2>1. UNCHANGED <<payments, provider>>
    BY <1>3 DEF money
  <2>2. EnrollmentHasGround'
    BY <1>3, <1>11, <2>1 DEF CoursesInv, EnrollInv, EnrollmentHasGround, Succeeded
  <2>3. \A p \in PaymentIds : payments[p] # Absent =>
            payments[p].user \in Users /\ payments[p].course \in CourseIds
    BY DEF CoursesInv, MoneyInv, Payment
  <2>4. Sold'
    BY <1>3, <1>4, <1>11, <2>1, <2>3 DEF CoursesInv, EnrollInv, Sold
  <2>5. \A u \in Users, d \in CourseIds : Enrolled(u, d)' => courses'[d] # Absent
    BY <1>4, <1>11 DEF CoursesInv, EnrollInv
  <2>. QED
    BY <1>10, <2>2, <2>4, <2>5 DEF EnrollInv
<1>13. EnrollmentsStay
  BY <1>2, <1>3, <1>4, <1>11 DEF EnrollmentsStay
<1>14. Stays => CallsInv'
  BY <1>3, IdleHolds, CallsStay
<1>15. \A i \in Handlers : call'[i] = call[i] \/ call[i].at = "delete"
  BY <1>3 DEF CoursesInv, CallsInv
<1>. QED
  BY <1>3, <1>7, <1>9, <1>10, <1>12, <1>13, <1>14, <1>15, LessonsGone

----------------------------------------------------------------------------
(* Every step *)

LEMMA RestartKeeps ==
    ASSUME CoursesInv, Restart
    PROVE  CoursesInv' /\ Stays
<1>1. /\ UNCHANGED <<catalogue, payments, used, paid, provider, learning>>
      /\ call' = [h \in Handlers |-> Idle] /\ timer' = [p \in PaymentIds |-> "none"]
      /\ lost \subseteq lost'
  BY DEF Restart
<1>2. \A h \in Handlers, u \in Users, c \in CourseIds : Finishing(h, u, c) => u \in lost'
  BY DEF Restart, Finishing, OfCourse
<1>3. CatalogueInv' /\ CatalogueStays /\ UNCHANGED <<courses, sections, lessons, wasFree, edited>>
  BY <1>1, SameCatalogue
<1>4. MoneyInv' /\ MoneyStays
  BY <1>1 DEF CoursesInv, MoneyInv, MoneyStays
<1>5. /\ Stays /\ ProgressInv' /\ SnapshotsInv' /\ UNCHANGED enrollment
      /\ \A u \in Users, l \in LessonIds : Done(u, l)' => Done(u, l)
      /\ \A u \in Users, c \in CourseIds :
             Finished(u, c) /\ Enrolled(u, c)' => enrollment'[u][c].completed
  BY <1>1, <1>3, <1>4, RowsUnchanged
<1>6. EnrollInv'
  BY <1>1, <1>3, <1>5, SameEnrolled DEF CoursesInv, EnrollInv, Enrolled
<1>7. CallsInv'
  <2>1. DOMAIN call' = Handlers /\ \A h \in Handlers : call'[h] = Idle
    BY <1>1
  <2>. QED
    BY <2>1, IdleHolds DEF CallsInv
<1>8. NobodyForgotten'
  BY <1>1, <1>2, <1>5, NoneForgotten
<1>. QED
  BY <1>3, <1>4, <1>5, <1>6, <1>7, <1>8 DEF CoursesInv

LEMMA StutterKeeps ==
    ASSUME CoursesInv, UNCHANGED vars
    PROVE  CoursesInv' /\ Stays
<1>1. UNCHANGED <<call, catalogue, money, learning, enrollment, progress, snapshot, issued, lost>>
  BY DEF vars, learning
<1>2. MoneyInv' /\ MoneyStays /\ UNCHANGED <<payments, provider>>
  BY <1>1, SameMoney
<1>3. UNCHANGED <<courses, edited>>
  BY <1>1, SameCatalogue
<1>4. Sold'
  BY <1>1, <1>2, <1>3, NothingSold DEF Enrolled
<1>5. EnrollInv' /\ Joined
  BY <1>1, <1>2, <1>4, EnrollmentsKept
<1>. QED
  BY <1>1, <1>2, <1>5, GatewayStep

LEMMA ProceedKeeps ==
    ASSUME CoursesInv, NEW h \in Handlers, Proceed(h)
    PROVE  CoursesInv' /\ Stays
  BY EnrollFreeKeeps, TakeFreeKeeps, GuardPendingKeeps, StorePaymentKeeps, CaptureKeeps,
     MarkLessonKeeps, ReadLessonsKeeps, CountLessonsKeeps, FinishCourseKeeps, GeneratesKeep,
     StoreCertificateKeeps, DeleteCourseKeeps DEF Proceed

LEMMA StepKeeps ==
    ASSUME CoursesInv, [Next]_vars
    PROVE  CoursesInv' /\ Stays
<1>1. ASSUME NEW h \in Handlers, EnrollRoute(h) \/ LearnRoutes(h) \/ GatewayRoutes(h)
      PROVE  CoursesInv' /\ Stays
  <2>1. CASE EnrollRoute(h)
    BY <2>1, BeginEnrollKeeps DEF EnrollRoute
  <2>2. CASE LearnRoutes(h)
    BY <2>2, BeginProgressKeeps, BeginCompleteKeeps, GeneratesKeep DEF LearnRoutes
  <2>3. CASE GatewayRoutes(h)
    BY <2>3, BeginCaptureKeeps DEF GatewayRoutes
  <2>. QED
    BY <1>1, <2>1, <2>2, <2>3
<1>2. ASSUME NEW h \in Handlers, Proceed(h) \/ GeneratePdfFails(h)
      PROVE  CoursesInv' /\ Stays
  BY <1>2, ProceedKeeps, GeneratesKeep
<1>. QED
  BY <1>1, <1>2, PaysKeep, CourseRoutesKeep, SectionRoutesKeep, LessonRoutesKeep,
     RestartKeeps, StutterKeeps DEF Next

LEMMA InitHolds == Init => CoursesInv
<1>. SUFFICES ASSUME Init PROVE CoursesInv
  OBVIOUS
<1>1. PICK s \in Starts :
          /\ provider = s.provider
          /\ courses = s.courses /\ sections = s.sections /\ lessons = s.lessons
          /\ enrollment = [u \in Users |-> [c \in CourseIds |->
                 IF <<u, c>> \in s.enrolled THEN [completed |-> FALSE, certificate |-> 0]
                 ELSE Absent]]
  BY DEF Init
<1>2. CatalogueInv
  BY <1>1, StartAssumption DEF Init, CatalogueInv
<1>3. MoneyInv
  BY DEF Init, MoneyInv
<1>4. PICK row : row = [completed |-> FALSE, certificate |-> 0]
  OBVIOUS
<1>5. row \in Enrollment /\ row # Absent /\ ~row.completed
  <2>1. row \in Enrollment /\ ~row.completed
    BY <1>4 DEF Enrollment
  <2>. QED
    BY <2>1, RowAssumption
<1>6. /\ enrollment \in [Users -> [CourseIds -> Enrollment \cup {Absent}]]
      /\ \A u \in Users, c \in CourseIds :
             enrollment[u][c] = IF <<u, c>> \in s.enrolled THEN row ELSE Absent
  BY <1>1, <1>4, <1>5
<1>7. \A u \in Users, c \in CourseIds : Enrolled(u, c) => courses[c] # Absent /\ c \in wasFree
  BY <1>1, <1>6, StartAssumption DEF Enrolled, Init
<1>8. EnrollInv
  <2>1. EnrollmentHasGround
    BY <1>7 DEF EnrollmentHasGround
  <2>2. Sold
    BY DEF Sold, Init
  <2>. QED
    BY <1>6, <1>7, <2>1, <2>2 DEF EnrollInv
<1>9. \A u \in Users, l \in LessonIds : progress[u][l] = Absent
  BY DEF Init
<1>10. ProgressInv
  <2>1. progress \in [Users -> [LessonIds -> Progress \cup {Absent}]]
    BY DEF Init
  <2>. QED
    BY <1>9, <2>1 DEF ProgressInv, DoneEnrolled, TextInOrder, Done
<1>11. SnapshotsInv
  <2>1. /\ snapshot \in [Users -> [CourseIds -> SUBSET LessonIds]] /\ issued \in Nat
        /\ \A u \in Users, c \in CourseIds : snapshot[u][c] = {}
    BY DEF Init
  <2>2. \A u \in Users, c \in CourseIds : ~Finished(u, c)
    BY <1>5, <1>6 DEF Finished, Enrolled
  <2>. QED
    BY <2>1, <2>2 DEF SnapshotsInv
<1>12. CallsInv
  BY DEF Init, CallsInv, Holds, Idle, OfCourse
<1>13. NobodyForgotten
  BY <1>9 DEF NobodyForgotten, AllDone, Done, PublishedLessons, LessonsOf
<1>. QED
  BY <1>2, <1>3, <1>8, <1>10, <1>11, <1>12, <1>13 DEF CoursesInv

\* The rows agree and every handler holds what was true when it read.
THEOREM CoursesInvariant == Spec => []CoursesInv
<1>1. CoursesInv /\ [Next]_vars => CoursesInv'
  BY StepKeeps
<1>. QED
  BY <1>1, InitHolds, PTL DEF Spec

----------------------------------------------------------------------------
(* What should hold *)

\* A set whose members are all the same has at most one.
LEMMA AtMostOne ==
    ASSUME NEW S, \A a, b \in S : a = b
    PROVE  Cardinality(S) <= 1
<1>1. CASE S = {}
  BY <1>1, FS_EmptySet
<1>2. CASE S # {}
  <2>1. PICK a : S = {a}
    BY <1>2
  <2>. QED
    BY <2>1, FS_Singleton
<1>. QED
  BY <1>1, <1>2

LEMMA EnrollmentsFollow ==
    ASSUME CoursesInv
    PROVE  EnrollmentsSound
<1>1. TypeOK
  <2>1. /\ \A u \in Users, c \in CourseIds : enrollment[u][c] \in Enrollment \cup {Absent}
        /\ \A u \in Users, l \in LessonIds : progress[u][l] \in Progress \cup {Absent}
    BY DEF CoursesInv, EnrollInv, ProgressInv
  <2>. QED
    BY <2>1 DEF TypeOK, CoursesInv, CatalogueInv, MoneyInv, EnrollInv, ProgressInv
<1>2. EnrollmentHasGround
  BY DEF CoursesInv, EnrollInv
<1>3. ASSUME provider = "razorpay", NEW u \in Users, NEW c \in CourseIds
      PROVE  /\ Cardinality(Succeeded(u, c)) <= 1
             /\ Succeeded(u, c) # {} /\ c \notin edited => Enrolled(u, c)
  <2>1. \A p, q \in Succeeded(u, c) : p = q
    BY <1>3 DEF CoursesInv, EnrollInv, Sold, Succeeded
  <2>2. Succeeded(u, c) # {} /\ c \notin edited => Enrolled(u, c)
    BY <1>3 DEF CoursesInv, EnrollInv, Sold, Succeeded
  <2>. QED
    BY <2>1, <2>2, AtMostOne
<1>4. SoldOnce
  BY <1>3 DEF SoldOnce
<1>. QED
  BY <1>1, <1>2, <1>4 DEF EnrollmentsSound

LEMMA CompletionsFollow ==
    ASSUME CoursesInv
    PROVE  CompletionsSound
<1>1. CompletionWasEarned
  BY DEF CompletionWasEarned, CoursesInv, SnapshotsInv, Finished
<1>2. NotLeftOpen
  <2>1. SUFFICES ASSUME NEW u \in Users, NEW c \in CourseIds, Enrolled(u, c), c \notin edited,
                        u \notin lost, ~Serving(u, c), PublishedLessons(c) # {},
                        DoneOf(u, PublishedLessons(c)) = PublishedLessons(c)
                 PROVE  enrollment[u][c].completed
    BY DEF NotLeftOpen
  <2>2. AllDone(u, c)
    BY <2>1 DEF AllDone, DoneOf
  <2>3. \A h \in Handlers : ~Finishing(h, u, c)
    BY <2>1 DEF Serving, Finishing, OfCourse
  <2>. QED
    BY <2>1, <2>2, <2>3 DEF CoursesInv, NobodyForgotten
<1>3. TextInOrder
  BY DEF CoursesInv, ProgressInv
<1>. QED
  BY <1>1, <1>2, <1>3 DEF CompletionsSound

\* Rows belong to rows that exist; nobody is enrolled in a course that always cost
\* something without a payment that succeeded; with the real gateway a course is
\* sold once, and what was sold is there unless the course went.
THEOREM EnrollmentsAreSound == Spec => []EnrollmentsSound
<1>1. CoursesInv => EnrollmentsSound
  BY EnrollmentsFollow
<1>. QED
  BY <1>1, CoursesInvariant, PTL

\* A course is completed over lessons that were done and completed by whoever has
\* done them all, and lessons without a video are done in their order.
THEOREM CompletionsAreSound == Spec => []CompletionsSound
<1>1. CoursesInv => CompletionsSound
  BY CompletionsFollow
<1>. QED
  BY <1>1, CoursesInvariant, PTL

----------------------------------------------------------------------------
(* What was given *)

LEMMA AccessStays ==
    ASSUME CoursesInv, CoursesInv', Stays, NEW u \in Users, NEW l \in LessonIds,
           GetSingleLesson(u, l), sections' = sections,
           \A m \in LessonIds : \/ lessons'[m] = lessons[m]
                                \/ /\ lessons[m] # Absent /\ lessons'[m] # Absent
                                   /\ lessons'[m].order = lessons[m].order
    PROVE  GetSingleLesson(u, l)'
<1>1. PICK c \in CourseIds : c = CourseOf(l) /\ l \in LessonsOf(c)
  BY CourseOfLesson DEF GetSingleLesson
<1>2. \A m \in LessonIds :
          /\ lessons'[m] # Absent <=> lessons[m] # Absent
          /\ lessons[m] # Absent => lessons'[m].section = lessons[m].section
                                    /\ lessons'[m].order = lessons[m].order
  BY DEF Stays, CatalogueStays
<1>3. lessons[l] # Absent /\ lessons'[l] # Absent /\ CourseOf(l)' = c
  BY <1>1, <1>2 DEF GetSingleLesson, CourseOf
<1>4. PICK S \in SUBSET LessonIds : S = LessonsOf(c) /\ S = LessonsOf(c)'
  BY <1>2 DEF LessonsOf, SectionsOf
<1>5. \A m \in S : lessons[m] # Absent /\ lessons'[m] # Absent
  BY <1>2, <1>4 DEF LessonsOf
<1>6. \A m \in S : Place(m)' = Place(m)
  BY <1>2, <1>5 DEF Place
<1>7. \A m \in S : Done(u, m) => Done(u, m)'
  BY <1>5 DEF Stays, DoneStays
<1>8. Enrolled(u, c)'
  BY <1>1, <1>3 DEF GetSingleLesson, Stays, EnrollmentsStay
<1>9. Unlocked(u, l, LessonsOf(c))'
  BY <1>1, <1>4, <1>6, <1>7, UnlockedAgain DEF GetSingleLesson
<1>. QED
  BY <1>3, <1>8, <1>9 DEF GetSingleLesson

Settles ==
    \A u \in Users, c \in CourseIds :
        /\ Enrolled(u, c) /\ enrollment[u][c].certificate # 0 /\ ~Generating(u, c)
        /\ enrollment'[u][c] # Absent
        => /\ enrollment'[u][c].certificate = enrollment[u][c].certificate
           /\ ~Generating(u, c)'

\* No handler comes to make a certificate, no row gets another one.
NoneMade ==
    /\ \A h \in Handlers : call'[h] = call[h] \/ call'[h].at \notin {"render", "link"}
    /\ \A u \in Users, c \in CourseIds : Enrolled(u, c) =>
           \/ enrollment'[u][c] = Absent
           \/ enrollment'[u][c].certificate = enrollment[u][c].certificate

LEMMA NoneMadeSettles == NoneMade => Settles
  BY DEF NoneMade, Settles, Generating

\* Where a handler holds a completed course.
Certifying == {"generate", "render", "link"}

\* No handler comes to deal with certificates, no row changes but for those who join.
NoneAsked ==
    /\ \A h \in Handlers : call'[h] = call[h] \/ call'[h].at \notin Certifying
    /\ Joined

LEMMA NoneAskedSettles == NoneAsked => Settles
<1>1. NoneAsked => NoneMade
  BY DEF NoneAsked, NoneMade, Joined, Certifying
<1>. QED
  BY <1>1, NoneMadeSettles

LEMMA Elsewhere ==
    ASSUME CoursesInv, NEW h \in Handlers, NEW k, call' = [call EXCEPT ![h] = k],
           k.at \notin Certifying, Joined
    PROVE  NoneAsked
<1>1. \A i \in Handlers : call'[i] = IF i = h THEN k ELSE call[i]
  BY DEF CoursesInv, CallsInv
<1>. QED
  BY <1>1 DEF NoneAsked

LEMMA Untouched ==
    ASSUME UNCHANGED call, UNCHANGED enrollment \/ Joined
    PROVE  NoneAsked
  BY DEF NoneAsked, Joined

LEMMA BeginsElsewhere ==
    ASSUME CoursesInv, NEW h \in Handlers, NEW k, Begin(h, k), k.at \notin Certifying,
           UNCHANGED learning
    PROVE  NoneAsked
<1>1. Joined
  BY DEF learning, Joined
<1>. QED
  BY <1>1, Elsewhere DEF Begin

LEMMA RoutesMakeNone ==
    ASSUME CoursesInv, NEW h \in Handlers,
           EnrollRoute(h) \/ LearnRoutes(h) \/ GatewayRoutes(h)
    PROVE  NoneAsked \/ \E u \in Users, c \in CourseIds : GetCertificate(h, u, c)
<1>2. ASSUME NEW u \in Users, NEW c \in CourseIds, NEW coupon \in {"none", "part", "full"},
             BeginEnroll(h, u, c, coupon)
      PROVE  NoneAsked
  <2>1. [at |-> "insert", user |-> u, course |-> c].at \notin Certifying
    BY DEF Certifying
  <2>2. [at |-> IF coupon = "full" THEN "take" ELSE "order",
         user |-> u, course |-> c, coupon |-> coupon].at \notin Certifying
    BY DEF Certifying
  <2>. QED
    BY BeginsElsewhere, <1>2, <2>1, <2>2 DEF BeginEnroll
<1>3. ASSUME NEW u \in Users, NEW l \in LessonIds, NEW watched \in BOOLEAN,
             BeginProgress(h, u, l, watched)
      PROVE  NoneAsked
  <2>1. PICK k : k = [at |-> "mark", user |-> u, course |-> CourseOf(l), lesson |-> l,
                      done |-> watched /\ lessons[l].video, watched |-> watched]
    OBVIOUS
  <2>. QED
    BY BeginsElsewhere, <1>3, <2>1 DEF BeginProgress, Certifying
<1>4. ASSUME NEW u \in Users, NEW l \in LessonIds, BeginComplete(h, u, l)
      PROVE  NoneAsked
  <2>1. PICK k : k = [at |-> "mark", user |-> u, course |-> CourseOf(l), lesson |-> l,
                      done |-> TRUE, watched |-> FALSE]
    OBVIOUS
  <2>. QED
    BY BeginsElsewhere, <1>4, <2>1 DEF BeginComplete, Certifying
<1>6. ASSUME NEW p \in PaymentIds, BeginCapture(h, p)
      PROVE  NoneAsked
  <2>1. PICK k : k = [at |-> "capture", payment |-> p, user |-> payments[p].user]
    OBVIOUS
  <2>. QED
    BY BeginsElsewhere, <1>6, <2>1 DEF BeginCapture, Certifying
<1>9. CASE EnrollRoute(h)
  BY <1>2, <1>9 DEF EnrollRoute
<1>10. CASE LearnRoutes(h)
  BY <1>3, <1>4, <1>10 DEF LearnRoutes
<1>11. CASE GatewayRoutes(h)
  BY <1>6, <1>11 DEF GatewayRoutes
<1>. QED
  BY <1>9, <1>10, <1>11

LEMMA CatalogueMakesNone ==
    ASSUME CoursesInv, CourseRoutes \/ SectionRoutes \/ LessonRoutes
    PROVE  NoneAsked
<1>1. ASSUME NEW c \in CourseIds, NEW i \in Handlers, BeginDeleteCourse(i, c)
      PROVE  NoneAsked
  <2>1. PICK k : k = [at |-> "delete", course |-> c]
    OBVIOUS
  <2>. QED
    BY BeginsElsewhere, <1>1, <2>1 DEF BeginDeleteCourse, Certifying
<1>2. ASSUME UNCHANGED <<enrollment, call>>
      PROVE  NoneAsked
  BY <1>2, Untouched
<1>3. ASSUME UNCHANGED <<learning, call>>
      PROVE  NoneAsked
  BY <1>2, <1>3 DEF learning
<1>4. CASE CourseRoutes
  <2>1. ASSUME NEW c \in CourseIds, NEW free, NEW priced,
               CreateCourse(c, free, priced) \/ UpdateCourse(c, free, priced)
        PROVE  UNCHANGED <<learning, call>>
    BY <2>1, Zenon DEF CreateCourse, UpdateCourse
  <2>2. ASSUME NEW c \in CourseIds, NEW published, PublishCourse(c, published)
        PROVE  UNCHANGED <<learning, call>>
    BY <2>2, Zenon DEF PublishCourse
  <2>. QED
    BY <1>1, <1>3, <1>4, <2>1, <2>2 DEF CourseRoutes
<1>5. CASE SectionRoutes
  BY <1>2, <1>3, <1>5 DEF SectionRoutes, CreateSection, UpdateSection, DeleteSection, ReorderSections
<1>6. CASE LessonRoutes
  BY <1>2, <1>3, <1>6 DEF LessonRoutes, CreateLesson, UpdateLesson, DeleteLesson, ReorderLessons
<1>. QED
  BY <1>4, <1>5, <1>6

LEMMA MoneyMakesNone ==
    ASSUME CoursesInv, Pays \/ Timers
    PROVE  NoneAsked
<1>1. ASSUME NEW p \in PaymentIds, Pay(p) \/ PaymentFailed(p) \/ MockPayment(p)
      PROVE  NoneAsked
  <2>1. UNCHANGED <<learning, call>>
    BY <1>1 DEF Pay, PaymentFailed, MockPayment
  <2>. QED
    BY <2>1, Untouched DEF learning
<1>2. ASSUME NEW p \in PaymentIds, MockEnrollment(p)
      PROVE  NoneAsked
  <2>1. payments[p].user \in Users /\ payments[p].course \in CourseIds
    BY <1>2 DEF MockEnrollment, CoursesInv, MoneyInv, Payment
  <2>2. Joined
    BY <1>2, <2>1, InsertJoins DEF MockEnrollment, Joined
  <2>. QED
    BY <1>2, <2>2, Untouched DEF MockEnrollment
<1>. QED
  BY <1>1, <1>2 DEF Pays, Timers

LEMMA HandlersMakeNone ==
    ASSUME CoursesInv, NEW h \in Handlers,
           \/ EnrollFree(h) \/ TakeFree(h) \/ GuardPending(h) \/ StorePayment(h) \/ Capture(h)
           \/ MarkLesson(h) \/ ReadLessons(h) \/ CountLessons(h) \/ GeneratePdfFails(h)
    PROVE  NoneAsked
<1>1. ASSUME UNCHANGED learning, NEW k, call' = [call EXCEPT ![h] = k],
             k.at \notin Certifying
      PROVE  NoneAsked
  BY <1>1, Elsewhere DEF learning, Joined
<1>2. Idle.at \notin Certifying
  BY DEF Idle, Certifying
<1>3. ASSUME NEW u \in Users, NEW c \in CourseIds, call' = [call EXCEPT ![h] = Idle],
             (MayInsert(u, c) /\ Insert(u, c)) \/ UNCHANGED enrollment
      PROVE  NoneAsked
  <2>1. Joined
    BY <1>3, InsertJoins DEF Joined
  <2>. QED
    BY <1>2, <1>3, <2>1, Elsewhere
<1>4. CASE EnrollFree(h) \/ TakeFree(h)
  <2>1. call[h].user \in Users /\ call[h].course \in CourseIds
    BY <1>4 DEF EnrollFree, TakeFree, CoursesInv, CallsInv, Holds, OfCourse
  <2>. QED
    BY <1>3, <1>4, <2>1 DEF EnrollFree, TakeFree, End
<1>5. CASE Capture(h)
  <2>1. PICK p \in PaymentIds : p = call[h].payment /\ payments[p] # Absent
    BY <1>5 DEF Capture, CoursesInv, CallsInv, Holds
  <2>2. payments[p].user \in Users /\ payments[p].course \in CourseIds
    BY <2>1 DEF CoursesInv, MoneyInv, Payment
  <2>. QED
    BY <1>3, <1>5, <2>1, <2>2 DEF Capture, End
<1>6. CASE GuardPending(h)
  <2>1. call[h] \in OrderCall
    BY <1>6 DEF GuardPending, CoursesInv, CallsInv, Holds
  <2>2. PICK k : k = [call[h] EXCEPT !.at = "store"]
    OBVIOUS
  <2>3. k.at = "store"
    BY <2>1, <2>2 DEF OrderCall
  <2>. QED
    BY <1>1, <1>2, <1>6, <2>2, <2>3 DEF GuardPending, End, Then, Certifying
<1>7. CASE StorePayment(h)
  BY <1>1, <1>2, <1>7 DEF StorePayment, End
<1>8. CASE MarkLesson(h)
  <2>1. PICK k : k = [at |-> "check", user |-> call[h].user, course |-> call[h].course]
    OBVIOUS
  <2>2. UNCHANGED enrollment /\ k.at \notin Certifying
        /\ (call' = [call EXCEPT ![h] = k] \/ call' = [call EXCEPT ![h] = Idle])
    BY <1>8, <2>1 DEF MarkLesson, Then, End, Certifying
  <2>. QED
    BY <1>2, <2>2, Elsewhere DEF Joined
<1>9. CASE ReadLessons(h)
  <2>1. PICK k : k = [at |-> "count", user |-> call[h].user, course |-> call[h].course,
                      lessons |-> PublishedLessons(call[h].course)]
    OBVIOUS
  <2>2. UNCHANGED learning /\ k.at \notin Certifying
        /\ (call' = [call EXCEPT ![h] = k] \/ call' = [call EXCEPT ![h] = Idle])
    BY <1>9, <2>1 DEF ReadLessons, Then, End, Certifying
  <2>. QED
    BY <1>1, <1>2, <2>2
<1>10. CASE CountLessons(h)
  <2>1. call[h] \in CountCall
    BY <1>10 DEF CountLessons, CoursesInv, CallsInv, Holds
  <2>2. PICK k : k = [call[h] EXCEPT !.at = "finish"]
    OBVIOUS
  <2>3. k.at = "finish"
    BY <2>1, <2>2 DEF CountCall
  <2>4. UNCHANGED learning
        /\ (call' = [call EXCEPT ![h] = k] \/ call' = [call EXCEPT ![h] = Idle])
    BY <1>10, <2>2 DEF CountLessons, Then, End
  <2>. QED
    BY <1>1, <1>2, <2>3, <2>4 DEF Certifying
<1>11. CASE GeneratePdfFails(h)
  BY <1>1, <1>2, <1>11 DEF GeneratePdfFails, End
<1>. QED
  BY <1>4, <1>5, <1>6, <1>7, <1>8, <1>9, <1>10, <1>11

\* The steps that make a certificate.
LEMMA MakersSettle ==
    ASSUME CoursesInv, NEW h \in Handlers,
           \/ FinishCourse(h) \/ BeginGenerate(h) \/ GeneratePdf(h) \/ StoreCertificate(h)
           \/ DeleteCourse(h) \/ \E u \in Users, c \in CourseIds : GetCertificate(h, u, c)
    PROVE  Settles
<1>1. \A k, i : call' = [call EXCEPT ![h] = k] /\ i \in Handlers =>
          call'[i] = IF i = h THEN k ELSE call[i]
  BY DEF CoursesInv, CallsInv
<1>2. Idle.at = "idle"
  BY DEF Idle
<1>3. /\ enrollment \in [Users -> [CourseIds -> Enrollment \cup {Absent}]]
      /\ \A u \in Users, c \in CourseIds : Enrolled(u, c) => enrollment[u][c] \in Enrollment
  BY DEF CoursesInv, EnrollInv, Enrolled
<1>4. CASE DeleteCourse(h)
  <2>1. \A i \in Handlers : call'[i] = IF i = h THEN Idle ELSE call[i]
    BY <1>1, <1>4 DEF DeleteCourse, End
  <2>2. PICK c \in CourseIds : c = call[h].course
    BY <1>4 DEF DeleteCourse, CoursesInv, CallsInv, Holds
  <2>3. \A u \in Users, d \in CourseIds :
            enrollment'[u][d] = IF d = c THEN Absent ELSE enrollment[u][d]
    BY <1>3, <1>4, <2>2 DEF DeleteCourse
  <2>. QED
    BY <1>2, <2>1, <2>3, NoneMadeSettles DEF NoneMade
<1>5. ASSUME NEW u \in Users, NEW c \in CourseIds, u = call[h].user, c = call[h].course,
             FinishCourse(h)
      PROVE  Settles
  <2>1. PICK k : k = [at |-> "generate", user |-> u, course |-> c]
    OBVIOUS
  <2>2. call' = [call EXCEPT ![h] = k] \/ call' = [call EXCEPT ![h] = Idle]
    BY <1>5, <2>1 DEF FinishCourse, Then, End
  <2>3. \A i \in Handlers : call'[i] = call[i] \/ call'[i].at \notin {"render", "link"}
    BY <1>1, <1>2, <2>1, <2>2
  <2>4. CASE Enrolled(u, c)
    <3>1. PICK row : row = [enrollment[u][c] EXCEPT !.completed = TRUE]
      OBVIOUS
    <3>2. row.certificate = enrollment[u][c].certificate
      BY <1>3, <2>4, <3>1 DEF Enrollment
    <3>3. enrollment' = [enrollment EXCEPT ![u] = [enrollment[u] EXCEPT ![c] = row]]
      BY <1>5, <2>4, <3>1 DEF FinishCourse
    <3>4. \A v \in Users, d \in CourseIds :
              enrollment'[v][d] = IF v = u /\ d = c THEN row ELSE enrollment[v][d]
      BY <1>3, <3>3
    <3>. QED
      BY <2>3, <3>2, <3>4, NoneMadeSettles DEF NoneMade
  <2>5. CASE ~Enrolled(u, c)
    <3>1. UNCHANGED enrollment
      BY <1>5, <2>5 DEF FinishCourse
    <3>. QED
      BY <2>3, <3>1, NoneMadeSettles DEF NoneMade
  <2>. QED
    BY <2>4, <2>5
<1>6. ASSUME NEW u \in Users, NEW c \in CourseIds, u = call[h].user, c = call[h].course,
             BeginGenerate(h)
      PROVE  Settles
  <2>1. UNCHANGED enrollment
    BY <1>6 DEF BeginGenerate, learning
  <2>2. PICK k : k = [call[h] EXCEPT !.at = "render"]
    OBVIOUS
  <2>3. k.user = u /\ k.course = c
    BY <1>6, <2>2 DEF BeginGenerate, CoursesInv, CallsInv, Holds, GenerateCall
  <2>4. \/ call' = [call EXCEPT ![h] = Idle]
        \/ call' = [call EXCEPT ![h] = k] /\ enrollment[u][c].certificate = 0
    BY <1>6, <2>2 DEF BeginGenerate, Then, End
  <2>5. CASE call' = [call EXCEPT ![h] = Idle]
    BY <1>1, <1>2, <2>1, <2>5, NoneMadeSettles DEF NoneMade
  <2>6. CASE call' = [call EXCEPT ![h] = k] /\ enrollment[u][c].certificate = 0
    <3>1. \A v \in Users, d \in CourseIds :
              Generating(v, d)' => Generating(v, d) \/ (v = u /\ d = c)
      BY <1>1, <2>3, <2>6 DEF Generating
    <3>. QED
      BY <2>1, <2>6, <3>1 DEF Settles
  <2>. QED
    BY <2>4, <2>5, <2>6
<1>7. ASSUME NEW u \in Users, NEW c \in CourseIds, u = call[h].user, c = call[h].course,
             GeneratePdf(h)
      PROVE  Settles
  <2>1. PICK k : k = [at |-> "link", user |-> u, course |-> c, certificate |-> issued + 1]
    OBVIOUS
  <2>2. call' = [call EXCEPT ![h] = k] /\ call[h].at = "render" /\ UNCHANGED enrollment
    BY <1>7, <2>1 DEF GeneratePdf, Then
  <2>3. \A v \in Users, d \in CourseIds : Generating(v, d)' => Generating(v, d)
    BY <1>1, <1>7, <2>1, <2>2 DEF Generating
  <2>. QED
    BY <2>2, <2>3 DEF Settles
<1>8. ASSUME NEW u \in Users, NEW c \in CourseIds, u = call[h].user, c = call[h].course,
             StoreCertificate(h)
      PROVE  Settles
  <2>1. call' = [call EXCEPT ![h] = Idle] /\ call[h].at = "link" /\ Generating(u, c)
    BY <1>8 DEF StoreCertificate, End, Generating
  <2>2. \A v \in Users, d \in CourseIds : Generating(v, d)' => Generating(v, d)
    BY <1>1, <1>2, <2>1 DEF Generating
  <2>3. \A v \in Users, d \in CourseIds :
            (v = u /\ d = c) \/ enrollment'[v][d] = enrollment[v][d]
    BY <1>3, <1>8 DEF StoreCertificate
  <2>. QED
    BY <2>1, <2>2, <2>3 DEF Settles
<1>9. ASSUME NEW u \in Users, NEW c \in CourseIds, GetCertificate(h, u, c)
      PROVE  Settles
  <2>1. PICK k : k = [at |-> "generate", user |-> u, course |-> c]
    OBVIOUS
  <2>2. call' = [call EXCEPT ![h] = k] /\ UNCHANGED enrollment
    BY <1>9, <2>1 DEF GetCertificate, Begin, learning
  <2>. QED
    BY <1>1, <2>1, <2>2, NoneMadeSettles DEF NoneMade
<1>10. \/ DeleteCourse(h) \/ \E u \in Users, c \in CourseIds : GetCertificate(h, u, c)
       \/ call[h].user \in Users /\ call[h].course \in CourseIds
  BY DEF FinishCourse, BeginGenerate, GeneratePdf, StoreCertificate, CoursesInv, CallsInv,
         Holds, OfCourse
<1>. QED
  BY <1>4, <1>5, <1>6, <1>7, <1>8, <1>9, <1>10

LEMMA StepSettles ==
    ASSUME CoursesInv, [Next]_vars
    PROVE  Settles
<1>1. ASSUME NEW h \in Handlers,
             EnrollRoute(h) \/ LearnRoutes(h) \/ GatewayRoutes(h) \/ Proceed(h)
                 \/ GeneratePdfFails(h)
      PROVE  Settles
  BY <1>1, RoutesMakeNone, HandlersMakeNone, MakersSettle, NoneAskedSettles DEF Proceed
<1>2. CASE Restart
  <2>1. UNCHANGED enrollment /\ \A h \in Handlers : call'[h] = Idle
    BY <1>2 DEF Restart, learning
  <2>. QED
    BY <2>1, NoneMadeSettles DEF NoneMade, Idle
<1>3. CASE UNCHANGED vars
  BY <1>3, Untouched, NoneAskedSettles DEF vars, learning
<1>. QED
  BY <1>1, <1>2, <1>3, MoneyMakesNone, CatalogueMakesNone, NoneAskedSettles DEF Next

\* Who could open a lesson can open it while only publications change; a certificate
\* that is stored stays the same unless another was being made already.
THEOREM WhatWasGivenStays == Spec => GivenStays
<1>1. CoursesInv /\ CoursesInv' /\ [Next]_vars =>
          [\A u \in Users, l \in LessonIds :
               /\ GetSingleLesson(u, l)
               /\ sections' = sections
               /\ \A m \in LessonIds : lessons'[m] = lessons[m]
                      \/ (lessons[m] # Absent /\ lessons'[m] # Absent
                              /\ lessons'[m].order = lessons[m].order)
               => GetSingleLesson(u, l)']_vars
  BY StepKeeps, AccessStays
<1>2. CoursesInv /\ [Next]_vars =>
          [\A u \in Users, c \in CourseIds :
               /\ Enrolled(u, c) /\ enrollment[u][c].certificate # 0 /\ ~Generating(u, c)
               /\ enrollment'[u][c] # Absent
               => /\ enrollment'[u][c].certificate = enrollment[u][c].certificate
                  /\ ~Generating(u, c)']_vars
  BY StepSettles DEF Settles
<1>3. Spec => AccessKept
  BY <1>1, CoursesInvariant, PTL DEF Spec, AccessKept
<1>4. Spec => CertificateSettles
  BY <1>2, CoursesInvariant, PTL DEF Spec, CertificateSettles
<1>. QED
  BY <1>3, <1>4 DEF GivenStays

----------------------------------------------------------------------------
(* Certificates are for completed courses *)

\* The course was deleted; its id is not given again.
Gone(c) == courses[c] = Absent /\ c \in edited

Given(u, c) == Finished(u, c) \/ Gone(c)

\* Who deals with a certificate holds a course that was completed.
EarnedCertificates ==
    /\ \A u \in Users, c \in CourseIds :
           Enrolled(u, c) /\ enrollment[u][c].certificate # 0 => enrollment[u][c].completed
    /\ \A h \in Handlers : call[h].at \in Certifying => Given(call[h].user, call[h].course)

\* A course is written over only if it is there or was never edited, or goes.
LEMMA CoursesWritten ==
    ASSUME [Next]_vars
    PROVE  \/ UNCHANGED courses
           \/ \E c \in CourseIds : \E row :
                  /\ courses' = [courses EXCEPT ![c] = row]
                  /\ courses[c] # Absent \/ c \notin edited
           \/ \E c, row : courses' = [courses EXCEPT ![c] = row] /\ row = Absent
<1>1. ASSUME NEW h \in Handlers, EnrollRoute(h) \/ LearnRoutes(h) \/ GatewayRoutes(h)
      PROVE  UNCHANGED courses
  BY <1>1 DEF EnrollRoute, LearnRoutes, GatewayRoutes, BeginEnroll, BeginProgress, BeginComplete,
              GetCertificate, BeginCapture, catalogue
<1>2. ASSUME NEW h \in Handlers, Proceed(h) \/ GeneratePdfFails(h), ~DeleteCourse(h)
      PROVE  UNCHANGED courses
  <2>1. CASE EnrollFree(h) \/ TakeFree(h) \/ GuardPending(h) \/ StorePayment(h) \/ Capture(h)
    BY <2>1 DEF EnrollFree, TakeFree, GuardPending, StorePayment, Capture, catalogue
  <2>2. CASE MarkLesson(h) \/ ReadLessons(h) \/ CountLessons(h) \/ FinishCourse(h)
    BY <2>2 DEF MarkLesson, ReadLessons, CountLessons, FinishCourse, catalogue
  <2>3. CASE \/ BeginGenerate(h) \/ GeneratePdf(h) \/ StoreCertificate(h) \/ GeneratePdfFails(h)
    BY <2>3 DEF BeginGenerate, GeneratePdf, StoreCertificate, GeneratePdfFails, catalogue
  <2>. QED
    BY <1>2, <2>1, <2>2, <2>3 DEF Proceed
<1>3. CASE Pays \/ Timers \/ Restart \/ UNCHANGED vars
  BY <1>3 DEF Pays, Timers, Pay, PaymentFailed, MockPayment, MockEnrollment, Restart, vars, catalogue
<1>4. CASE SectionRoutes
  BY <1>4 DEF SectionRoutes, CreateSection, UpdateSection, DeleteSection, ReorderSections
<1>5. CASE LessonRoutes
  BY <1>5 DEF LessonRoutes, CreateLesson, UpdateLesson, DeleteLesson, ReorderLessons
<1>6. ASSUME NEW c \in CourseIds, NEW h \in Handlers, BeginDeleteCourse(h, c)
      PROVE  UNCHANGED courses
  BY <1>6 DEF BeginDeleteCourse, catalogue
<1>7. ASSUME NEW c \in CourseIds, NEW free, NEW priced, CreateCourse(c, free, priced)
      PROVE  c \notin edited /\ \E row : courses' = [courses EXCEPT ![c] = row]
  BY <1>7 DEF CreateCourse, SetCourse
<1>8. ASSUME NEW c \in CourseIds, NEW free, NEW priced,
             UpdateCourse(c, free, priced) \/ PublishCourse(c, free)
      PROVE  courses[c] # Absent /\ \E row : courses' = [courses EXCEPT ![c] = row]
  BY <1>8 DEF UpdateCourse, PublishCourse, SetCourse
<1>9. CASE CourseRoutes
  BY <1>6, <1>7, <1>8, <1>9 DEF CourseRoutes
<1>10. ASSUME NEW h \in Handlers, DeleteCourse(h)
       PROVE  \E c : courses' = [courses EXCEPT ![c] = Absent]
  BY <1>10 DEF DeleteCourse, SetCourse
<1>. QED
  BY <1>1, <1>2, <1>3, <1>4, <1>5, <1>9, <1>10 DEF Next

LEMMA GoneStays ==
    ASSUME CoursesInv, [Next]_vars
    PROVE  \A c \in CourseIds : Gone(c) => Gone(c)'
<1>1. edited \subseteq edited' /\ DOMAIN courses = CourseIds
  BY StepKeeps DEF Stays, CatalogueStays, CoursesInv, CatalogueInv
<1>. QED
  BY <1>1, CoursesWritten DEF Gone

LEMMA NoneAskedEarns ==
    ASSUME CoursesInv, EarnedCertificates, NoneAsked,
           \A c \in CourseIds : Gone(c) => Gone(c)'
    PROVE  EarnedCertificates'
<1>1. \A u \in Users, c \in CourseIds : Given(u, c) => Given(u, c)'
  BY DEF Given, NoneAsked, Joined, Finished, Enrolled
<1>2. \A h \in Handlers : call[h].at \in Certifying =>
          call[h].user \in Users /\ call[h].course \in CourseIds
  BY DEF CoursesInv, CallsInv, Holds, OfCourse, Certifying
<1>3. ASSUME NEW h \in Handlers, call'[h].at \in Certifying
      PROVE  Given(call[h].user, call[h].course)'
  BY <1>1, <1>2, <1>3 DEF NoneAsked, EarnedCertificates
<1>4. \A u \in Users, c \in CourseIds :
          Enrolled(u, c)' /\ enrollment'[u][c].certificate # 0 => enrollment'[u][c].completed
  BY DEF EarnedCertificates, NoneAsked, Joined, Enrolled
<1>. QED
  BY <1>3, <1>4 DEF EarnedCertificates

\* The handler goes on, with a course that was completed if it deals with its certificate.
LEMMA HandlerEarns ==
    ASSUME CoursesInv, EarnedCertificates, NEW h \in Handlers, NEW k,
           call' = [call EXCEPT ![h] = k],
           \A u \in Users, c \in CourseIds : Given(u, c) => Given(u, c)',
           k.at \in Certifying => Given(k.user, k.course)',
           \A u \in Users, c \in CourseIds :
               Enrolled(u, c)' /\ enrollment'[u][c].certificate # 0 => enrollment'[u][c].completed
    PROVE  EarnedCertificates'
<1>1. \A i \in Handlers : call'[i] = IF i = h THEN k ELSE call[i]
  BY DEF CoursesInv, CallsInv
<1>2. \A i \in Handlers : call[i].at \in Certifying =>
          call[i].user \in Users /\ call[i].course \in CourseIds
  BY DEF CoursesInv, CallsInv, Holds, OfCourse, Certifying
<1>. QED
  BY <1>1, <1>2 DEF EarnedCertificates

LEMMA MakersEarn ==
    ASSUME CoursesInv, EarnedCertificates, NEW h \in Handlers,
           \A c \in CourseIds : Gone(c) => Gone(c)',
           NEW u \in Users, NEW c \in CourseIds,
           \/ GetCertificate(h, u, c)
           \/ /\ BeginGenerate(h) \/ GeneratePdf(h)
              /\ u = call[h].user /\ c = call[h].course
    PROVE  EarnedCertificates'
<1>1. UNCHANGED enrollment
  BY DEF GetCertificate, BeginGenerate, GeneratePdf, learning
<1>2. \A v \in Users, d \in CourseIds : Given(v, d) => Given(v, d)'
  BY <1>1 DEF Given, Finished, Enrolled
<1>3. Idle.at \notin Certifying
  BY DEF Idle, Certifying
<1>4. Given(u, c)
  BY DEF GetCertificate, BeginGenerate, GeneratePdf, Given, Finished, EarnedCertificates, Certifying
<1>5. \E k : /\ call' = [call EXCEPT ![h] = k]
             /\ k = Idle \/ (k.user = u /\ k.course = c)
  <2>1. CASE GetCertificate(h, u, c)
    <3>1. PICK k : k = [at |-> "generate", user |-> u, course |-> c]
      OBVIOUS
    <3>2. call' = [call EXCEPT ![h] = k] /\ k.user = u /\ k.course = c
      BY <2>1, <3>1 DEF GetCertificate, Begin
    <3>. QED
      BY <3>2
  <2>2. CASE BeginGenerate(h) /\ u = call[h].user /\ c = call[h].course
    <3>1. call[h] \in GenerateCall
      BY <2>2 DEF BeginGenerate, CoursesInv, CallsInv, Holds
    <3>2. PICK k : k = [call[h] EXCEPT !.at = "render"]
      OBVIOUS
    <3>3. k.user = u /\ k.course = c
      BY <2>2, <3>1, <3>2 DEF GenerateCall
    <3>. QED
      BY <2>2, <3>2, <3>3 DEF BeginGenerate, Then, End
  <2>3. CASE GeneratePdf(h) /\ u = call[h].user /\ c = call[h].course
    <3>1. PICK k : k = [at |-> "link", user |-> u, course |-> c, certificate |-> issued + 1]
      OBVIOUS
    <3>2. call' = [call EXCEPT ![h] = k] /\ k.user = u /\ k.course = c
      BY <2>3, <3>1 DEF GeneratePdf, Then
    <3>. QED
      BY <3>2
  <2>. QED
    BY <2>1, <2>2, <2>3
<1>6. PICK k : call' = [call EXCEPT ![h] = k] /\ (k = Idle \/ (k.user = u /\ k.course = c))
  BY <1>5
<1>7. k.at \in Certifying => Given(k.user, k.course)'
  <2>1. Given(u, c)'
    BY <1>2, <1>4
  <2>. QED
    BY <1>3, <1>6, <2>1
<1>8. \A v \in Users, d \in CourseIds :
          Enrolled(v, d)' /\ enrollment'[v][d].certificate # 0 => enrollment'[v][d].completed
  BY <1>1 DEF EarnedCertificates, Enrolled
<1>. QED
  BY <1>2, <1>6, <1>7, <1>8, HandlerEarns

\* The row is written over by a completion, or by a certificate for a completed course.
LEMMA RowEarns ==
    ASSUME CoursesInv, EarnedCertificates, NEW h \in Handlers,
           \A c \in CourseIds : Gone(c) => Gone(c)',
           NEW u \in Users, NEW c \in CourseIds, Enrolled(u, c),
           NEW row \in Enrollment, row.completed,
           enrollment' = [enrollment EXCEPT ![u] = [enrollment[u] EXCEPT ![c] = row]],
           NEW k, call' = [call EXCEPT ![h] = k],
           k = Idle \/ (k.user = u /\ k.course = c)
    PROVE  EarnedCertificates'
<1>1. \A v \in Users, d \in CourseIds :
          enrollment'[v][d] = IF v = u /\ d = c THEN row ELSE enrollment[v][d]
  BY DEF CoursesInv, EnrollInv
<1>2. Finished(u, c)'
  BY <1>1, RowAssumption DEF Finished, Enrolled
<1>3. \A v \in Users, d \in CourseIds : Given(v, d) => Given(v, d)'
  BY <1>1, <1>2 DEF Given, Finished, Enrolled
<1>4. Idle.at \notin Certifying
  BY DEF Idle, Certifying
<1>5. k.at \in Certifying => Given(k.user, k.course)'
  <2>1. Given(u, c)'
    BY <1>2 DEF Given
  <2>. QED
    BY <1>4, <2>1
<1>6. \A v \in Users, d \in CourseIds :
          Enrolled(v, d)' /\ enrollment'[v][d].certificate # 0 => enrollment'[v][d].completed
  BY <1>1 DEF EarnedCertificates, Enrolled
<1>. QED
  BY <1>3, <1>5, <1>6, HandlerEarns

LEMMA WritersEarn ==
    ASSUME CoursesInv, EarnedCertificates, NEW h \in Handlers,
           \A c \in CourseIds : Gone(c) => Gone(c)',
           FinishCourse(h) \/ StoreCertificate(h)
    PROVE  EarnedCertificates'
<1>1. PICK u \in Users, c \in CourseIds : u = call[h].user /\ c = call[h].course
  BY DEF FinishCourse, StoreCertificate, CoursesInv, CallsInv, Holds, OfCourse
<1>2. Idle.at \notin Certifying
  BY DEF Idle, Certifying
<1>3. Enrolled(u, c) => enrollment[u][c] \in Enrollment
  BY DEF CoursesInv, EnrollInv, Enrolled
<1>4. CASE ~Enrolled(u, c)
  <2>1. UNCHANGED enrollment /\ call' = [call EXCEPT ![h] = Idle]
    BY <1>1, <1>4 DEF FinishCourse, StoreCertificate, End
  <2>. QED
    BY <1>2, <2>1, Elsewhere, NoneAskedEarns DEF Joined
<1>5. CASE Enrolled(u, c) /\ FinishCourse(h)
  <2>1. PICK row : row = [enrollment[u][c] EXCEPT !.completed = TRUE]
    OBVIOUS
  <2>2. row \in Enrollment /\ row.completed
    BY <1>3, <1>5, <2>1 DEF Enrollment
  <2>3. PICK k : k = [at |-> "generate", user |-> u, course |-> c]
    OBVIOUS
  <2>4. enrollment' = [enrollment EXCEPT ![u] = [enrollment[u] EXCEPT ![c] = row]]
    BY <1>1, <1>5, <2>1 DEF FinishCourse
  <2>5. call' = [call EXCEPT ![h] = k]
    BY <1>1, <1>5, <2>3 DEF FinishCourse, Then
  <2>. QED
    BY <1>5, <2>2, <2>3, <2>4, <2>5, RowEarns
<1>6. CASE Enrolled(u, c) /\ StoreCertificate(h)
  <2>1. Finished(u, c) /\ call[h].certificate \in Nat
    <3>1. Given(u, c) /\ call[h].certificate \in Nat
      BY <1>1, <1>6 DEF StoreCertificate, EarnedCertificates, Certifying, CoursesInv, CallsInv, Holds
    <3>2. ~Gone(c)
      BY <1>6 DEF Gone, CoursesInv, EnrollInv
    <3>. QED
      BY <3>1, <3>2 DEF Given
  <2>2. PICK row : row = [enrollment[u][c] EXCEPT !.certificate = call[h].certificate]
    OBVIOUS
  <2>3. row \in Enrollment /\ row.completed
    BY <1>3, <2>1, <2>2 DEF Enrollment, Finished
  <2>4. enrollment' = [enrollment EXCEPT ![u] = [enrollment[u] EXCEPT ![c] = row]]
    BY <1>1, <1>6, <2>2 DEF StoreCertificate
  <2>5. call' = [call EXCEPT ![h] = Idle]
    BY <1>6 DEF StoreCertificate, End
  <2>. QED
    BY <1>6, <2>3, <2>4, <2>5, RowEarns
<1>. QED
  BY <1>4, <1>5, <1>6

\* The enrollments go with the course.
LEMMA DeleteEarns ==
    ASSUME CoursesInv, EarnedCertificates, NEW h \in Handlers,
           \A c \in CourseIds : Gone(c) => Gone(c)',
           DeleteCourse(h)
    PROVE  EarnedCertificates'
<1>1. PICK c \in CourseIds : c = call[h].course
  BY DEF DeleteCourse, CoursesInv, CallsInv, Holds
<1>2. Gone(c)'
  BY <1>1 DEF DeleteCourse, SetCourse, Gone, CoursesInv, CatalogueInv
<1>3. \A u \in Users, d \in CourseIds :
          enrollment'[u][d] = IF d = c THEN Absent ELSE enrollment[u][d]
  BY <1>1 DEF DeleteCourse, CoursesInv, EnrollInv
<1>4. \A u \in Users, d \in CourseIds : Given(u, d) => Given(u, d)'
  BY <1>2, <1>3 DEF Given, Finished, Enrolled
<1>5. \A u \in Users, d \in CourseIds :
          Enrolled(u, d)' /\ enrollment'[u][d].certificate # 0 => enrollment'[u][d].completed
  BY <1>3 DEF EarnedCertificates, Enrolled
<1>6. call' = [call EXCEPT ![h] = Idle] /\ Idle.at \notin Certifying
  BY DEF DeleteCourse, End, Idle, Certifying
<1>. QED
  BY <1>4, <1>5, <1>6, HandlerEarns

LEMMA StepEarns ==
    ASSUME CoursesInv, EarnedCertificates, [Next]_vars
    PROVE  EarnedCertificates'
<1>1. \A c \in CourseIds : Gone(c) => Gone(c)'
  BY GoneStays
<1>2. ASSUME NEW h \in Handlers, EnrollRoute(h) \/ LearnRoutes(h) \/ GatewayRoutes(h)
      PROVE  EarnedCertificates'
  BY <1>1, <1>2, RoutesMakeNone, NoneAskedEarns, MakersEarn
<1>3. ASSUME NEW h \in Handlers, BeginGenerate(h) \/ GeneratePdf(h)
      PROVE  EarnedCertificates'
  <2>1. call[h].user \in Users /\ call[h].course \in CourseIds
    BY <1>3 DEF BeginGenerate, GeneratePdf, CoursesInv, CallsInv, Holds, OfCourse
  <2>. QED
    BY <1>1, <1>3, <2>1, MakersEarn
<1>4. ASSUME NEW h \in Handlers, Proceed(h) \/ GeneratePdfFails(h)
      PROVE  EarnedCertificates'
  BY <1>1, <1>3, <1>4, HandlersMakeNone, NoneAskedEarns, WritersEarn, DeleteEarns DEF Proceed
<1>5. CASE Restart
  <2>1. UNCHANGED enrollment /\ \A h \in Handlers : call'[h] = Idle
    BY <1>5 DEF Restart, learning
  <2>2. NoneAsked
    BY <2>1 DEF NoneAsked, Joined, Idle, Certifying
  <2>. QED
    BY <1>1, <2>2, NoneAskedEarns
<1>6. CASE UNCHANGED vars
  <2>1. NoneAsked
    BY <1>6, Untouched DEF vars, learning
  <2>. QED
    BY <1>1, <2>1, NoneAskedEarns
<1>7. CASE Pays \/ Timers \/ CourseRoutes \/ SectionRoutes \/ LessonRoutes
  BY <1>1, <1>7, MoneyMakesNone, CatalogueMakesNone, NoneAskedEarns
<1>. QED
  BY <1>2, <1>4, <1>5, <1>6, <1>7 DEF Next

LEMMA NoneEarnedYet == Init => EarnedCertificates
<1>. SUFFICES ASSUME Init PROVE EarnedCertificates
  OBVIOUS
<1>1. \A h \in Handlers : call[h].at \notin Certifying
  BY DEF Init, Idle, Certifying
<1>2. PICK s \in Starts : enrollment = [u \in Users |-> [c \in CourseIds |->
          IF <<u, c>> \in s.enrolled THEN [completed |-> FALSE, certificate |-> 0] ELSE Absent]]
  BY DEF Init
<1>3. \A u \in Users, c \in CourseIds : Enrolled(u, c) => enrollment[u][c].certificate = 0
  BY <1>2 DEF Enrolled
<1>. QED
  BY <1>1, <1>3 DEF EarnedCertificates

----------------------------------------------------------------------------
(* Parts of a finite set *)

\* A finite set fits into one that is at least as large.
LEMMA FitsInto ==
    ASSUME NEW P, NEW Q, IsFiniteSet(P), IsFiniteSet(Q), Cardinality(P) <= Cardinality(Q)
    PROVE  \E f : f \in Injection(P, Q)
<1>1. PICK n \in Nat : n = Cardinality(P)
  BY FS_CardinalityType
<1>2. PICK m \in Nat : m = Cardinality(Q)
  BY FS_CardinalityType
<1>3. ExistsBijection(1..n, P) /\ ExistsBijection(1..m, Q)
  BY <1>1, <1>2, FS_CardinalityType
<1>4. ExistsInjection(1..n, 1..m)
  BY <1>1, <1>2, Fun_NatInjLeq
<1>5. ExistsBijection(P, 1..n)
  BY <1>3, Fun_ExistsBijSymmetric
<1>6. ExistsInjection(P, 1..n) /\ ExistsInjection(1..m, Q)
  BY <1>3, <1>5, Fun_ExistsBijEquiv
<1>7. ExistsInjection(P, Q)
  <2>1. ExistsInjection(P, 1..m)
    BY <1>4, <1>6, Fun_ExistsInjTransitive
  <2>. QED
    BY <1>6, <2>1, Fun_ExistsInjTransitive
<1>. QED
  BY <1>7, Fun_ExistsInj

\* A smaller set leaves a member out.
LEMMA LeavesOut ==
    ASSUME NEW P, NEW Q, IsFiniteSet(Q), Cardinality(P) # Cardinality(Q),
           NEW f \in Injection(P, Q)
    PROVE  \E q \in Q : \A p \in P : f[p] # q
<1>1. f \notin Surjection(P, Q)
  BY FS_Injection
<1>2. f \in [P -> Q]
  BY Fun_InjectionProperties
<1>. QED
  BY <1>1, <1>2, Fun_IsSurj

\* Of the parts of a finite set, one holds at least the share of A the whole set holds.
LEMMA SomePartHasTheShare ==
    ASSUME NEW S, IsFiniteSet(S), S # {}, NEW A, A \subseteq S, NEW X, NEW key \in [S -> X],
           NEW AX, NEW SX, DOMAIN AX = X, DOMAIN SX = X,
           \A x \in X : AX[x] = {a \in A : key[a] = x} /\ SX[x] = {s \in S : key[s] = x}
    PROVE  \E x \in X : /\ SX[x] # {}
                        /\ Cardinality(AX[x]) * Cardinality(S) >= Cardinality(A) * Cardinality(SX[x])
<1>1. SUFFICES ASSUME \A x \in X : SX[x] # {} =>
                          ~(Cardinality(AX[x]) * Cardinality(S) >= Cardinality(A) * Cardinality(SX[x]))
               PROVE  FALSE
  OBVIOUS
<1>2. ASSUME NEW x \in X
      PROVE  /\ IsFiniteSet(AX[x]) /\ IsFiniteSet(SX[x]) /\ AX[x] \subseteq A /\ SX[x] \subseteq S
             /\ IsFiniteSet(AX[x] \X S) /\ IsFiniteSet(A \X SX[x])
             /\ Cardinality(AX[x] \X S) = Cardinality(AX[x]) * Cardinality(S)
             /\ Cardinality(A \X SX[x]) = Cardinality(A) * Cardinality(SX[x])
  <2>1. IsFiniteSet(A) /\ IsFiniteSet(AX[x]) /\ IsFiniteSet(SX[x])
    <3>1. AX[x] \subseteq S /\ SX[x] \subseteq S
      OBVIOUS
    <3>. QED
      BY <3>1, FS_Subset
  <2>. QED
    BY <2>1, FS_Product
<1>3. ASSUME NEW x \in X
      PROVE  /\ Cardinality(AX[x] \X S) <= Cardinality(A \X SX[x])
             /\ SX[x] # {} => Cardinality(AX[x] \X S) < Cardinality(A \X SX[x])
  <2>1. PICK P, Q : P = AX[x] \X S /\ Q = A \X SX[x]
    OBVIOUS
  <2>2. Cardinality(P) \in Nat /\ Cardinality(Q) \in Nat
    BY <1>2, <2>1, FS_CardinalityType
  <2>3. SX[x] # {} => ~(Cardinality(P) >= Cardinality(Q))
    BY <1>1, <1>2, <2>1
  <2>4. SX[x] = {} => P = {}
    BY <2>1
  <2>5. SX[x] = {} => Cardinality(P) = 0
    BY <2>4, FS_EmptySet
  <2>6. Cardinality(P) <= Cardinality(Q) /\ (SX[x] # {} => Cardinality(P) < Cardinality(Q))
    <3>1. PICK m, n : m = Cardinality(P) /\ n = Cardinality(Q)
      OBVIOUS
    <3>. QED
      BY <2>2, <2>3, <2>5, <3>1
  <2>. QED
    BY <2>1, <2>6
<1>4. PICK g : /\ DOMAIN g = X
               /\ \A x \in X : g[x] \in Injection(AX[x] \X S, A \X SX[x])
  <2>1. \A x \in X : \E f : f \in Injection(AX[x] \X S, A \X SX[x])
    BY <1>2, <1>3, FitsInto
  <2>2. PICK g : g = [x \in X |-> CHOOSE f : f \in Injection(AX[x] \X S, A \X SX[x])]
    OBVIOUS
  <2>. QED
    BY <2>1, <2>2
<1>5. ASSUME NEW x \in X
      PROVE  /\ g[x] \in [AX[x] \X S -> A \X SX[x]]
             /\ \A p, q \in AX[x] \X S : g[x][p] = g[x][q] => p = q
             /\ SX[x] # {} => \E q \in A \X SX[x] : \A p \in AX[x] \X S : g[x][p] # q
  <2>1. PICK f \in Injection(AX[x] \X S, A \X SX[x]) : f = g[x]
    BY <1>4
  <2>2. /\ f \in [AX[x] \X S -> A \X SX[x]]
        /\ \A p, q \in AX[x] \X S : f[p] = f[q] => p = q
    BY Fun_InjectionProperties
  <2>3. SX[x] # {} => \E q \in A \X SX[x] : \A p \in AX[x] \X S : f[p] # q
    <3>1. SX[x] # {} => Cardinality(AX[x] \X S) # Cardinality(A \X SX[x])
      <4>1. Cardinality(AX[x] \X S) \in Nat /\ Cardinality(A \X SX[x]) \in Nat
        BY <1>2, FS_CardinalityType
      <4>. QED
        BY <1>3, <4>1
    <3>2. PICK P, Q : P = AX[x] \X S /\ Q = A \X SX[x]
      OBVIOUS
    <3>3. SX[x] # {} => \E q \in Q : \A p \in P : f[p] # q
      <4>1. f \in Injection(P, Q) /\ IsFiniteSet(Q)
        BY <1>2, <2>1, <3>2
      <4>2. SX[x] # {} => Cardinality(P) # Cardinality(Q)
        BY <3>1, <3>2
      <4>. QED
        BY <4>1, <4>2, LeavesOut
    <3>. QED
      BY <3>2, <3>3
  <2>. QED
    BY <2>1, <2>2, <2>3
<1>6. PICK G : G = [p \in A \X S |-> g[key[p[1]]][p]]
  OBVIOUS
<1>7. \A p \in A \X S : /\ key[p[1]] \in X /\ p \in AX[key[p[1]]] \X S
                        /\ G[p] = g[key[p[1]]][p]
  BY <1>6
<1>8. \A p \in A \X S : /\ G[p] \in A \X SX[key[p[1]]] /\ G[p] \in A \X S
                        /\ key[G[p][2]] = key[p[1]]
  <2>1. ASSUME NEW p \in A \X S
        PROVE  G[p] \in A \X SX[key[p[1]]]
    <3>1. PICK x \in X : x = key[p[1]]
      BY <1>7
    <3>2. p \in AX[x] \X S /\ G[p] = g[x][p]
      BY <1>7, <3>1
    <3>3. g[x] \in [AX[x] \X S -> A \X SX[x]]
      BY <1>5
    <3>4. g[x][p] \in A \X SX[x]
      BY <3>2, <3>3
    <3>. QED
      BY <3>1, <3>2, <3>4
  <2>2. \A x \in X : \A q \in A \X SX[x] : q \in A \X S /\ key[q[2]] = x
    OBVIOUS
  <2>. QED
    BY <1>7, <2>1, <2>2
<1>9. ASSUME NEW p \in A \X S, NEW q \in A \X S, G[p] = G[q]
      PROVE  p = q
  <2>1. PICK x \in X : x = key[p[1]] /\ x = key[q[1]]
    BY <1>7, <1>8, <1>9
  <2>2. p \in AX[x] \X S /\ q \in AX[x] \X S /\ g[x][p] = g[x][q]
    BY <1>7, <1>9, <2>1
  <2>. QED
    BY <1>5, <2>2
<1>10. IsFiniteSet(A \X S)
  BY FS_Subset, FS_Product
<1>11. G \in Injection(A \X S, A \X S)
  <2>1. G \in [A \X S -> A \X S]
    BY <1>6, <1>8
  <2>. QED
    BY <1>9, <2>1, Fun_IsInj
<1>12. G \in Surjection(A \X S, A \X S)
  BY <1>10, <1>11, FS_Injection
<1>13. PICK s \in S : TRUE
  OBVIOUS
<1>14. PICK x \in X : x = key[s] /\ SX[x] # {}
  OBVIOUS
<1>15. PICK q \in A \X SX[x] : \A p \in AX[x] \X S : g[x][p] # q
  BY <1>5, <1>14
<1>16. q \in A \X S /\ key[q[2]] = x
  OBVIOUS
<1>17. PICK p \in A \X S : G[p] = q
  BY <1>12, <1>16, Fun_SurjectionProperties
<1>. QED
  BY <1>7, <1>8, <1>15, <1>16, <1>17

\* A larger share is no smaller when it is rounded to a percentage.
LEMMA MorePercent ==
    ASSUME NEW a \in Nat, NEW n \in Nat \ {0}, NEW b \in Nat, NEW m \in Nat \ {0},
           b * n >= a * m
    PROVE  (200 * b + m) \div (2 * m) >= (200 * a + n) \div (2 * n)
<1>1. PICK N \in Nat \ {0} : N = 2 * n
  OBVIOUS
<1>2. PICK M \in Nat \ {0} : M = 2 * m
  OBVIOUS
<1>3. PICK x \in Nat : x = 200 * a + n
  OBVIOUS
<1>4. PICK y \in Nat : y = 200 * b + m
  OBVIOUS
<1>5. x \div N \in Int /\ x % N \in 0..N - 1 /\ x = N * (x \div N) + (x % N)
  BY SMT
<1>6. y \div M \in Int /\ y % M \in 0..M - 1 /\ y = M * (y \div M) + (y % M)
  BY SMT
<1>7. PICK q, r : q = x \div N /\ r = x % N
  OBVIOUS
<1>8. PICK k, t : k = y \div M /\ t = y % M
  OBVIOUS
<1>9. q \in Int /\ r \in 0..N - 1 /\ x = N * q + r
  BY <1>5, <1>7
<1>10. k \in Int /\ t \in 0..M - 1 /\ y = M * k + t
  BY <1>6, <1>8
<1>11. k >= q
  <2>1. SUFFICES ASSUME q >= k + 1 PROVE FALSE
    BY <1>9, <1>10
  <2>2. N * q >= N * (k + 1)
    BY <1>9, <1>10, <2>1, SMT
  <2>3. N * (k + 1) <= x
    <3>1. PICK u \in Int : u = N * q
      BY <1>9
    <3>2. PICK v \in Int : v = N * (k + 1)
      BY <1>10
    <3>. QED
      BY <1>9, <2>2, <3>1, <3>2
  <2>4. M * (k + 1) > y
    <3>1. M * (k + 1) = M * k + M
      BY <1>10, SMT
    <3>2. PICK u \in Int : u = M * k
      BY <1>10
    <3>. QED
      BY <1>10, <3>1, <3>2
  <2>5. m * (2 * n * (k + 1)) <= m * (200 * a + n)
    <3>1. PICK u \in Int : u = 2 * n * (k + 1)
      BY <1>10
    <3>2. u <= x
      BY <1>1, <2>3, <3>1
    <3>3. m * u <= m * x
      BY <3>2, SMT
    <3>. QED
      BY <1>3, <3>1, <3>3
  <2>6. n * (2 * m * (k + 1)) > n * (200 * b + m)
    <3>1. PICK u \in Int : u = 2 * m * (k + 1)
      BY <1>10
    <3>2. u > y
      BY <1>2, <2>4, <3>1
    <3>3. n * u > n * y
      BY <3>2, SMT
    <3>. QED
      BY <1>4, <3>1, <3>3
  <2>7. m * (2 * n * (k + 1)) = n * (2 * m * (k + 1))
    BY <1>10, SMT
  <2>8. /\ m * (200 * a + n) = 200 * (a * m) + m * n
        /\ n * (200 * b + m) = 200 * (b * n) + m * n
    BY SMT
  <2>9. PICK u, v, w, z : u = m * (2 * n * (k + 1)) /\ v = a * m /\ w = b * n /\ z = m * n
    OBVIOUS
  <2>10. u \in Int /\ v \in Int /\ w \in Int /\ z \in Int
    BY <1>10, <2>9
  <2>11. u <= 200 * v + z /\ u > 200 * w + z /\ w >= v
    BY <2>5, <2>6, <2>7, <2>8, <2>9
  <2>. QED
    BY <2>10, <2>11
<1>. QED
  BY <1>1, <1>2, <1>3, <1>4, <1>7, <1>8, <1>11

----------------------------------------------------------------------------
(* What the pages show *)

\* More of the same lessons is no smaller a percentage.
LEMMA PercentGrows ==
    ASSUME NEW S, IsFiniteSet(S), NEW A \in SUBSET S, NEW B \in SUBSET A
    PROVE  Percent(B, S) <= Percent(A, S)
<1>1. CASE S = {}
  BY <1>1 DEF Percent
<1>2. CASE S # {}
  <2>1. IsFiniteSet(A) /\ Cardinality(B) <= Cardinality(A)
    BY FS_Subset
  <2>2. PICK a \in Nat, b \in Nat, n \in Nat \ {0} :
            a = Cardinality(A) /\ b = Cardinality(B) /\ n = Cardinality(S)
    BY <1>2, <2>1, FS_Subset, FS_CardinalityType, FS_EmptySet
  <2>3. a * n >= b * n
    BY <2>1, <2>2, SMT
  <2>4. (200 * a + n) \div (2 * n) >= (200 * b + n) \div (2 * n)
    BY <2>2, <2>3, MorePercent
  <2>5. Percent(A, S) = (200 * a + n) \div (2 * n) /\ Percent(B, S) = (200 * b + n) \div (2 * n)
    BY <1>2, <2>2 DEF Percent
  <2>6. (200 * a + n) \div (2 * n) \in Int /\ (200 * b + n) \div (2 * n) \in Int
    BY <2>2
  <2>. QED
    BY <2>4, <2>5, <2>6
<1>. QED
  BY <1>1, <1>2

LEMMA PagesFollow ==
    ASSUME CoursesInv
    PROVE  PagesAgree
<1>1. SUFFICES ASSUME NEW u \in Users, NEW c \in CourseIds, Enrolled(u, c), courses[c].published
               PROVE  /\ \A rows \in ProgressRead(u) :
                             LET listed == FindAllPublished(u, rows)[c].progress
                             IN  /\ listed <= FindOneCourse(u, c).progress
                                 /\ Cardinality(CompletedIn(u)) <= ProgressRows =>
                                        listed = FindOneCourse(u, c).progress
                      /\ GetMyCourses(u)[c].progress = FindOneCourse(u, c).progress
                      /\ PublishedLessons(c) = LessonsOf(c) =>
                             /\ GetCourseLearnContent(u, c).open = FindOneCourse(u, c).open
                             /\ FindOneCourse(u, c).open = {l \in LessonsOf(c) : GetSingleLesson(u, l)}
  BY DEF PagesAgree
<1>2. courses[c] # Absent
  BY <1>1 DEF CoursesInv, EnrollInv
<1>3. PICK p, o : /\ p = Percent(DoneOf(u, LessonsOf(c)), LessonsOf(c))
                  /\ o = {l \in LessonsOf(c) : Unlocked(u, l, LessonsOf(c))}
  OBVIOUS
<1>4. FindOneCourse(u, c).progress = p /\ FindOneCourse(u, c).open = o
  BY <1>1, <1>2, <1>3 DEF FindOneCourse
<1>5. ASSUME NEW rows \in ProgressRead(u)
      PROVE  /\ FindAllPublished(u, rows)[c].progress <= p
             /\ Cardinality(CompletedIn(u)) <= ProgressRows =>
                    FindAllPublished(u, rows)[c].progress = p
  <2>1. c \in Listed /\ FindAllPublished(u, rows)[c].progress = BuildProgressMap(c, rows)
    BY <1>1, <1>2 DEF FindAllPublished, Listed
  <2>2. CompletedIn(u) \cap LessonsOf(c) = DoneOf(u, LessonsOf(c))
    BY <1>1, <2>1 DEF CompletedIn, DoneOf
  <2>3. /\ rows \subseteq CompletedIn(u)
        /\ Cardinality(CompletedIn(u)) <= ProgressRows => rows = CompletedIn(u)
    BY DEF ProgressRead
  <2>4. PICK L, B, D : L = LessonsOf(c) /\ B = rows \cap L /\ D = DoneOf(u, L)
    OBVIOUS
  <2>5. IsFiniteSet(L) /\ D \in SUBSET L /\ B \in SUBSET D
    BY <2>2, <2>3, <2>4, CoursesAssumption, FS_Subset DEF LessonsOf, DoneOf
  <2>6. Percent(B, L) <= Percent(D, L)
    BY <2>5, PercentGrows
  <2>. QED
    BY <1>3, <2>1, <2>2, <2>3, <2>4, <2>6 DEF BuildProgressMap
<1>6. GetMyCourses(u)[c].progress = p
  BY <1>1, <1>3 DEF GetMyCourses
<1>7. PublishedLessons(c) = LessonsOf(c) => GetCourseLearnContent(u, c).open = o
  BY <1>1, <1>2, <1>3 DEF GetCourseLearnContent
<1>8. \A l \in LessonsOf(c) : CourseOf(l) = c /\ lessons[l] # Absent
  BY DEF LessonsOf, SectionsOf, CourseOf
<1>9. o = {l \in LessonsOf(c) : GetSingleLesson(u, l)}
  BY <1>1, <1>3, <1>8 DEF GetSingleLesson
<1>. QED
  BY <1>4, <1>5, <1>6, <1>7, <1>9

\* The sets the report counts.
LEMMA ReportSets ==
    ASSUME NEW all, NEW completed,
           all = UNION {Enrollments(c) \X {c} : c \in CourseIds},
           completed = UNION {Completions(c) \X {c} : c \in CourseIds}
    PROVE  /\ all = {e \in Users \X CourseIds : Enrolled(e[1], e[2])}
           /\ completed = {e \in all : enrollment[e[1]][e[2]].completed}
           /\ IsFiniteSet(all)
<1>1. all = {e \in Users \X CourseIds : Enrolled(e[1], e[2])}
  BY DEF Enrollments
<1>2. completed = {e \in all : enrollment[e[1]][e[2]].completed}
  <2>1. \A c \in CourseIds : Completions(c) = {u \in Users : Enrolled(u, c) /\ enrollment[u][c].completed}
    BY DEF Completions, Enrollments
  <2>2. completed = {e \in Users \X CourseIds :
                         Enrolled(e[1], e[2]) /\ enrollment[e[1]][e[2]].completed}
    BY <2>1
  <2>. QED
    BY <1>1, <2>2
<1>3. IsFiniteSet(Users \X CourseIds)
  BY CoursesAssumption, FS_Product
<1>. QED
  BY <1>1, <1>2, <1>3, FS_Subset

\* As many are counted for a course as there are pairs with it in the report.
LEMMA PairsOfCourse ==
    ASSUME NEW c \in CourseIds, NEW V, V \subseteq Users, NEW E, E = V \X {c}
    PROVE  IsFiniteSet(V) /\ Cardinality(E) = Cardinality(V)
<1>1. IsFiniteSet(V) /\ IsFiniteSet({c}) /\ Cardinality({c}) = 1
  BY CoursesAssumption, FS_Subset, FS_Singleton
<1>2. Cardinality(V \X {c}) = Cardinality(V) * 1
  BY <1>1, FS_Product
<1>3. PICK n \in Nat : n = Cardinality(V)
  BY <1>1, FS_CardinalityType
<1>. QED
  BY <1>1, <1>2, <1>3

LEMMA ReportFollows ==
    ASSUME CoursesInv, EarnedCertificates
    PROVE  ReportAddsUp
<1>1. PICK all, completed :
          /\ all = UNION {Enrollments(c) \X {c} : c \in CourseIds}
          /\ completed = UNION {Completions(c) \X {c} : c \in CourseIds}
  OBVIOUS
<1>2. PICK certified : certified = {e \in all : enrollment[e[1]][e[2]].certificate # 0}
  OBVIOUS
<1>3. PICK shown : shown = {c \in CourseIds : courses[c] # Absent}
  OBVIOUS
<1>4. PICK report : report = GetAnalytics
  OBVIOUS
<1>5. /\ report.certificatesIssued = Cardinality(certified)
      /\ report.totalCompletions = Cardinality(completed)
      /\ report.totalEnrollments = Cardinality(all)
      /\ report.completionRate = Percent(completed, all)
  BY <1>1, <1>2, <1>4 DEF GetAnalytics
<1>6. DOMAIN report.courses = shown
  BY <1>3, <1>4 DEF GetAnalytics
<1>7. ASSUME NEW c \in shown
      PROVE  /\ report.courses[c].completions = Cardinality(Completions(c))
             /\ report.courses[c].enrollments = Cardinality(Enrollments(c))
             /\ report.courses[c].completionRate = Percent(Completions(c), Enrollments(c))
  BY <1>3, <1>4 DEF GetAnalytics
<1>8. /\ all = {e \in Users \X CourseIds : Enrolled(e[1], e[2])}
      /\ completed = {e \in all : enrollment[e[1]][e[2]].completed}
      /\ IsFiniteSet(all)
  BY <1>1, ReportSets
<1>9. Cardinality(certified) <= Cardinality(completed) /\ Cardinality(completed) <= Cardinality(all)
  <2>1. completed \subseteq all /\ IsFiniteSet(completed)
    BY <1>8, FS_Subset
  <2>2. certified \subseteq completed
    BY <1>2, <1>8 DEF EarnedCertificates
  <2>. QED
    BY <1>8, <2>1, <2>2, FS_Subset
<1>10. \A c \in shown : Cardinality(Completions(c)) <= Cardinality(Enrollments(c))
  <2>1. ASSUME NEW c \in shown
        PROVE  Cardinality(Completions(c)) <= Cardinality(Enrollments(c))
    <3>1. IsFiniteSet(Enrollments(c)) /\ Completions(c) \subseteq Enrollments(c)
      BY CoursesAssumption, FS_Subset DEF Enrollments, Completions
    <3>. QED
      BY <3>1, FS_Subset
  <2>. QED
    BY <2>1
<1>11. ASSUME Cardinality(all) > 0
       PROVE  \E c \in shown : Percent(Completions(c), Enrollments(c)) >= Percent(completed, all)
  <2>1. all # {}
    BY <1>11, FS_EmptySet
  <2>2. PICK key \in [all -> CourseIds] : key = [e \in all |-> e[2]]
    BY <1>8
  <2>3. PICK AX, SX : /\ AX = [c \in CourseIds |-> {e \in completed : key[e] = c}]
                      /\ SX = [c \in CourseIds |-> {e \in all : key[e] = c}]
    OBVIOUS
  <2>4. PICK c \in CourseIds :
            /\ SX[c] # {}
            /\ Cardinality(AX[c]) * Cardinality(all) >= Cardinality(completed) * Cardinality(SX[c])
    <3>1. completed \subseteq all
      BY <1>8
    <3>2. /\ DOMAIN AX = CourseIds /\ DOMAIN SX = CourseIds
          /\ \A c \in CourseIds : /\ AX[c] = {e \in completed : key[e] = c}
                                  /\ SX[c] = {e \in all : key[e] = c}
      BY <2>3
    <3>3. IsFiniteSet(all) /\ key \in [all -> CourseIds]
      BY <1>8, <2>2
    <3>. QED
      BY <2>1, <3>1, <3>2, <3>3, SomePartHasTheShare
  <2>5. AX[c] = Completions(c) \X {c} /\ SX[c] = Enrollments(c) \X {c}
    <3>1. \A e \in all : key[e] = e[2]
      BY <2>2
    <3>2. SX[c] = {e \in Users \X {c} : Enrolled(e[1], c)}
      BY <1>8, <2>3, <3>1
    <3>3. AX[c] = {e \in Users \X {c} : Enrolled(e[1], c) /\ enrollment[e[1]][c].completed}
      BY <1>8, <2>3, <3>1
    <3>4. Completions(c) = {u \in Users : Enrolled(u, c) /\ enrollment[u][c].completed}
      BY DEF Completions, Enrollments
    <3>. QED
      BY <3>2, <3>3, <3>4 DEF Enrollments
  <2>6. PICK A, S : A = Completions(c) /\ S = Enrollments(c)
    OBVIOUS
  <2>7. A \subseteq S /\ S \subseteq Users /\ S # {}
    BY <2>4, <2>5, <2>6 DEF Completions, Enrollments
  <2>8. /\ Cardinality(AX[c]) = Cardinality(A) /\ Cardinality(SX[c]) = Cardinality(S)
        /\ IsFiniteSet(A) /\ IsFiniteSet(S)
    BY <2>5, <2>6, <2>7, PairsOfCourse
  <2>9. c \in shown
    BY <1>3, <2>6, <2>7 DEF Enrollments, CoursesInv, EnrollInv
  <2>10. Percent(A, S) >= Percent(completed, all)
    <3>1. PICK a \in Nat : a = Cardinality(completed)
      BY <1>8, FS_Subset, FS_CardinalityType
    <3>2. PICK n \in Nat \ {0} : n = Cardinality(all)
      <4>1. Cardinality(all) \in Nat
        BY <1>8, FS_CardinalityType
      <4>. QED
        BY <1>11, <4>1
    <3>3. PICK b \in Nat : b = Cardinality(A)
      BY <2>8, FS_CardinalityType
    <3>4. PICK m \in Nat \ {0} : m = Cardinality(S)
      BY <2>7, <2>8, FS_CardinalityType, FS_EmptySet
    <3>5. b * n >= a * m
      BY <2>4, <2>8, <3>1, <3>2, <3>3, <3>4
    <3>6. (200 * b + m) \div (2 * m) >= (200 * a + n) \div (2 * n)
      BY <3>5, MorePercent
    <3>. QED
      BY <2>1, <2>7, <3>1, <3>2, <3>3, <3>4, <3>6 DEF Percent
  <2>. QED
    BY <2>6, <2>9, <2>10
<1>12. /\ report.certificatesIssued <= report.totalCompletions
       /\ report.totalCompletions <= report.totalEnrollments
  BY <1>5, <1>9
<1>13. \A c \in DOMAIN report.courses :
           report.courses[c].completions <= report.courses[c].enrollments
  BY <1>6, <1>7, <1>10
<1>14. report.totalEnrollments > 0 => \E c \in DOMAIN report.courses :
           report.courses[c].completionRate >= report.completionRate
  BY <1>5, <1>6, <1>7, <1>11
<1>. QED
  BY <1>4, <1>12, <1>13, <1>14 DEF ReportAddsUp

\* For every catalogue, user and bound of the query: the list of courses shows no more
\* progress than the page of the course, and the same up to the bound; the locks are
\* those of the lesson page; the report counts certificates within completions within
\* enrollments, and some course completes at the average rate at least.
THEOREM WhatIsShownAgrees == Spec => []PagesSound
<1>1. CoursesInv /\ EarnedCertificates /\ [Next]_vars => EarnedCertificates'
  BY StepEarns
<1>2. CoursesInv /\ EarnedCertificates => PagesSound
  BY PagesFollow, ReportFollows DEF PagesSound
<1>. QED
  BY <1>1, <1>2, NoneEarnedYet, CoursesInvariant, PTL DEF Spec
=============================================================================

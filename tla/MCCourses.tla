----------------------------- MODULE MCCourses ------------------------------
(***************************************************************************)
(* Instances of Courses for TLC: a free course whose two lessons, a video  *)
(* and a text in two sections, a user has enrolled for, and a course that  *)
(* is sold.                                                                *)
(***************************************************************************)
EXTENDS Courses, TLC

CONSTANTS u1, c1, c2, n1, n2, l1, l2

LessonAt(n, order, video) ==
    [section |-> n, order |-> order, published |-> TRUE, video |-> video, preview |-> FALSE]

Learning ==
    [courses |-> (c1 :> [free |-> TRUE, priced |-> FALSE, published |-> TRUE]) @@ (c2 :> Absent),
     sections |-> (n1 :> [course |-> c1, order |-> 1]) @@ (n2 :> [course |-> c1, order |-> 2]),
     lessons |-> (l1 :> LessonAt(n1, 1, TRUE)) @@ (l2 :> LessonAt(n2, 1, FALSE)),
     enrolled |-> {<<u1, c1>>}, provider |-> "razorpay"]

Selling(gateway) ==
    [courses |-> (c1 :> [free |-> FALSE, priced |-> TRUE, published |-> TRUE]) @@ (c2 :> Absent),
     sections |-> (n1 :> [course |-> c1, order |-> 1]) @@ (n2 :> Absent),
     lessons |-> (l1 :> LessonAt(n1, 1, FALSE)) @@ (l2 :> Absent),
     enrolled |-> {}, provider |-> gateway]

MCStarts == {Learning, Selling("razorpay"), Selling("mock")}

MCNewLessons ==
    {[section |-> n, order |-> order, published |-> published, video |-> FALSE, preview |-> FALSE] :
         n \in {n1, n2}, order \in {1, 2}, published \in BOOLEAN}
=============================================================================

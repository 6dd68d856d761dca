------------------------------ MODULE MCFunnel ------------------------------
(***************************************************************************)
(* Instances of Funnel for TLC: the two gates and the decision in two      *)
(* sections, which may be moved, hidden and deleted, or a video that must  *)
(* be watched before the payment, in one section, where a second section   *)
(* or another step may be added, too.                                      *)
(***************************************************************************)
EXTENDS Funnel, TLC

CONSTANTS n1, n2, first, payment, last

At(n, type, order) ==
    [section |-> n, type |-> type, order |-> order, active |-> TRUE, mustWatch |-> FALSE]

TwoGates ==
    [sections |-> (n1 :> [order |-> 1, active |-> TRUE]) @@ (n2 :> [order |-> 2, active |-> TRUE]),
     steps |-> (first :> At(n1, "PHONE_GATE", 1)) @@ (payment :> At(n2, "PAYMENT_GATE", 1))
               @@ (last :> At(n2, "DECISION", 2))]

VideoFirst ==
    [sections |-> (n1 :> [order |-> 1, active |-> TRUE]) @@ (n2 :> Absent),
     steps |-> (first :> [At(n1, "VIDEO_TEXT", 1) EXCEPT !.mustWatch = TRUE])
               @@ (payment :> At(n1, "PAYMENT_GATE", 2)) @@ (last :> Absent)]

MCLayouts == {TwoGates, VideoFirst}

\* No handler is named in the specification.
MCSymmetry == Permutations(Handlers)
=============================================================================

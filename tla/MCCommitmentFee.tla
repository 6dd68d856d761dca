-------------------------- MODULE MCCommitmentFee --------------------------
(***************************************************************************)
(* Instances of CommitmentFee for TLC: a funnel of three steps in two      *)
(* sections, the gate in the second, and a third section without steps.    *)
(***************************************************************************)
EXTENDS CommitmentFee, TLC

CONSTANTS phone, gate, video,               \* the steps
          u1, u2,                           \* users
          p1, p2,                           \* payments
          c1,                               \* a coupon
          h1, h2                            \* handlers

MCSteps == {phone, gate, video}
MCSections == {1, 2, 3}
MCStepType == phone :> "PHONE_GATE" @@ gate :> "PAYMENT_GATE" @@ video :> "VIDEO_TEXT"
MCStepSection == phone :> 1 @@ gate :> 2 @@ video :> 2
MCStepOrder == phone :> 1 @@ gate :> 1 @@ video :> 2

\* The coupon takes half of the price and may be used once.
MCDiscount == [c \in Coupons |-> 1]
MCUsageLimit == [c \in Coupons |-> 1]

\* Payments and handlers are interchangeable.
MCSymmetry == Permutations(Payments) \cup Permutations(Handlers)
=============================================================================

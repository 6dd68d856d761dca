----------------------------- MODULE Checkout ------------------------------
(***************************************************************************)
(* What the commitment fee promises, without handlers, rows or coupons: an *)
(* order is opened for a user, its money is captured, and honouring the    *)
(* capture gives the user access in the same instant.  An order with       *)
(* nothing to pay is honoured as it is opened.  Access comes no other way  *)
(* and is never taken back.                                                *)
(***************************************************************************)
CONSTANTS Users, Payments

VARIABLES order,    \* the state of each order
          access    \* the users who are past the fee

States == [at : {"none"}] \cup [at : {"open", "captured", "honoured"}, user : Users]

None == [at |-> "none"]

CheckoutInit ==
    /\ order = [p \in Payments |-> None]
    /\ access = {}

\* A user opens an order.
Open(p, u) ==
    /\ order[p] = None
    /\ order' = [order EXCEPT ![p] = [at |-> "open", user |-> u]]
    /\ UNCHANGED access

\* A user opens an order with nothing to pay.
OpenFree(p, u) ==
    /\ order[p] = None
    /\ order' = [order EXCEPT ![p] = [at |-> "honoured", user |-> u]]
    /\ access' = access \cup {u}

\* The gateway takes the money of an open order.
Capture(p) ==
    /\ order[p].at = "open"
    /\ order' = [order EXCEPT ![p].at = "captured"]
    /\ UNCHANGED access

\* A captured order is honoured.
Honour(p) ==
    /\ order[p].at = "captured"
    /\ order' = [order EXCEPT ![p].at = "honoured"]
    /\ access' = access \cup {order[p].user}

CheckoutNext ==
    \E p \in Payments :
        \/ Capture(p) \/ Honour(p)
        \/ \E u \in Users : Open(p, u) \/ OpenFree(p, u)

CheckoutSpec == CheckoutInit /\ [][CheckoutNext]_<<order, access>>
=============================================================================

--------------------------- MODULE MCSubscription ---------------------------
(***************************************************************************)
(* Instances of Subscription for TLC: one user and one plan, up to two     *)
(* subscriptions one after the other.                                      *)
(***************************************************************************)
EXTENDS Subscription, TLC

CONSTANTS u1, s1, s2, plan1, h1, h2

MCSymmetry == Permutations(Subs) \cup Permutations(Handlers)
=============================================================================

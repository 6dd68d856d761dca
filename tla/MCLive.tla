------------------------------- MODULE MCLive -------------------------------
(***************************************************************************)
(* Instances of Live for TLC: a distributor and a customer who is a lead   *)
(* of theirs.                                                              *)
(***************************************************************************)
EXTENDS Live, TLC

CONSTANTS d1, c1, i1, i2, k1, k2, m1, q1, q2

MCReferrer == (c1 :> d1) @@ (d1 :> None)
=============================================================================

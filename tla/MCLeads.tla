------------------------------ MODULE MCLeads ------------------------------
(***************************************************************************)
(* Instances of Leads for TLC.  Users share nothing but the distributor's  *)
(* hand-over and the handlers, so one user is enough.                      *)
(***************************************************************************)
EXTENDS Leads, TLC

CONSTANTS u1, d1, h1, h2, j1, j2

MCSymmetry == Permutations(Handlers) \cup Permutations(Jobs)
=============================================================================

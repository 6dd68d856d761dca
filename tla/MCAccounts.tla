----------------------------- MODULE MCAccounts -----------------------------
(***************************************************************************)
(* Instances of Accounts for TLC: one person, since nothing is shared      *)
(* between the accounts of two.                                            *)
(***************************************************************************)
EXTENDS Accounts, TLC

CONSTANTS u1, h1, h2

MCSymmetry == Permutations(Handlers)
=============================================================================

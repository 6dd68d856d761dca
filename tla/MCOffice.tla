------------------------------ MODULE MCOffice ------------------------------
(***************************************************************************)
(* Instances of Office for TLC.  A chart of up to two days is by day, one  *)
(* of three by week, of four days, and a longer one by month, of three     *)
(* days, two, and three: who starts on the third day of the first passes   *)
(* over the second.  Five of the lead statuses stand for the eight: the    *)
(* first, one that may be worked on, and those that are written in steps   *)
(* or are final.                                                           *)
(***************************************************************************)
EXTENDS Office, TLC

CONSTANTS h1, h2, d1, d2, u1, u2

MCFirst == [m \in 0..4 |-> <<0, 3, 5, 8, 11>>[m + 1]]

\* By day; by week, with a last week that is not visited; and by month, from the third
\* day, which passes over the second month.
MCRanges == {<<3, 4>>, <<2, 4>>, <<2, 9>>}

MCCachedRanges == {<<3, 4>>}

MCLeadStatuses == {"NEW", "HOT", "FOLLOWUP", "LOST", "MARK_AS_CUSTOMER"}

\* One client at most is there already.
MCArrivals == {came \in [Clients -> Referrers \cup {Nobody}] : \E u \in Clients : came[u] = Nobody}

\* Handlers, distributors and clients are interchangeable.
Symmetry == Permutations({h1, h2}) \cup Permutations({d1, d2}) \cup Permutations({u1, u2})
=============================================================================

------------------------------- MODULE Service -------------------------------
(***************************************************************************)
(* What the desk, the campaigns, the offers and the reports share: a few   *)
(* requests are served at the same time, each a chain of reads and writes  *)
(* of the one database, and days pass.                                     *)
(***************************************************************************)
EXTENDS Naturals, FiniteSets

CONSTANTS
    Handlers,       \* requests served at the same time
    MaxRequests,    \* bound on the requests
    LastDay,        \* bound on the days that pass
    Take            \* rows a list of notifications shows: 50 unless asked, at most 100

ASSUME ServiceAssumption == MaxRequests \in Nat /\ LastDay \in Nat /\ Take \in Nat

VARIABLES
    call,           \* what each handler is doing
    today,          \* the day
    requests

service == <<call, today, requests>>

Idle == [at |-> "idle"]

ServiceInit ==
    /\ call = [h \in Handlers |-> Idle]
    /\ today = 0
    /\ requests = 0

Ask == requests < MaxRequests /\ requests' = requests + 1

\* A request that is one write.
AskOnce == Ask /\ UNCHANGED <<call, today>>

Begin(h, c) ==
    /\ Ask
    /\ call[h] = Idle
    /\ call' = [call EXCEPT ![h] = c]
    /\ UNCHANGED today

Then(h, c) == call' = [call EXCEPT ![h] = c] /\ UNCHANGED <<today, requests>>

End(h) == Then(h, Idle)

DayPasses ==
    /\ today < LastDay
    /\ today' = today + 1
    /\ UNCHANGED <<call, requests>>

\* The server restarts: what was under way is gone.
Restart ==
    /\ \E h \in Handlers : call[h] # Idle
    /\ call' = [h \in Handlers |-> Idle]
    /\ UNCHANGED <<today, requests>>

\* What a query without an order may answer: some of the rows, all if they are few.
AnyOf(found, take) ==
    {T \in SUBSET found : Cardinality(T) <= take /\ (T = found \/ Cardinality(T) = take)}
=============================================================================

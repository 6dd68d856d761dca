---------------------------- MODULE Funnel_proofs ----------------------------
(***************************************************************************)
(* Proofs about the funnel that is edited under its users.  The invariant  *)
(* is in parts, one for each kind of row, and what a handler holds between *)
(* two of its accesses survives the steps of others because rows grow:     *)
(* steps stay visited, payments stay made, and a step keeps its type until *)
(* it is deleted.  Of the users who send one request at a time a second    *)
(* invariant says where they are in a funnel that is not edited: whatever  *)
(* is completed comes before the step they stand on, and gates that come   *)
(* before it are passed.                                                   *)
(***************************************************************************)
EXTENDS Funnel, FiniteSetTheorems, WellFoundedInduction, TLAPS

LayoutInv ==
    /\ sections \in [Sections -> Section \cup {Absent}]
    /\ steps \in [Steps -> Step \cup {Absent}]
    /\ known \in SUBSET (Sections \cup Steps)
    /\ \A s \in Steps : steps[s] # Absent => s \in known

\* A user is on a step they were put on.
OnVisited ==
    \A u \in Users :
        progress[u] # Absent /\ progress[u].step # NoStep => progress[u].step \in visited[u]

RowsInv ==
    /\ progress \in [Users -> Row \cup {Absent}]
    /\ visited \in [Users -> SUBSET Steps]
    /\ OnVisited /\ DecisionIsPaid

\* Only the gate of the payment is completed by users who were not put on it.
Entitled(u, s) == s \in visited[u] \/ (steps[s] # Absent /\ steps[s].type = "PAYMENT_GATE")

MarksInv ==
    /\ stepRow \in [Users -> [Steps -> {"none", "open", "done"}]]
    /\ \A u \in Users, s \in Steps : stepRow[u][s] = "done" => Entitled(u, s)

CountsInv ==
    /\ stale \in BOOLEAN /\ overtaken \in BOOLEAN
    /\ disturbed \in SUBSET Users
    /\ requests \in 0..MaxRequests
    /\ edits \in 0..MaxDisturbances /\ crashes \in 0..MaxDisturbances

MarkCall == [at : {"mark", "find"}, user : Users, step : Steps, section : Sections,
             order : Orders, phone : BOOLEAN]

PhoneCall == [at : {"phone", "verified"}, user : Users, step : Steps \cup {NoStep},
              next : Steps \cup {NoStep}]

OfUser == {"mark", "find", "move", "ping", "decide", "decided", "phone", "verified", "capture"}

\* A request that looks for the first step for a user without one.
Seeding == {"seed", "place"}

\* What a request goes on with once it has the row.
GoalOf(g, u) ==
    \/ g = Idle
    \/ g \in MarkCall /\ g.at = "mark" /\ g.user = u
    \/ g.at = "ping" /\ g.user = u /\ g.step \in Steps
    \/ g.at = "decide" /\ g.user = u /\ g.step \in Steps /\ g.answer \in {"YES", "NO"}

\* What a handler knows of its user and its step.
Holds(c) ==
    /\ c.at \in Seeding =>
           /\ c.user \in Users /\ GoalOf(c.goal, c.user) /\ c.fresh \in BOOLEAN
           /\ c.fresh \/ progress[c.user] # Absent
    /\ c.at = "place" => /\ c.step \in Steps \cup {NoStep} /\ c.section \in Sections \cup {Absent}
                        /\ c.phone \in BOOLEAN
    /\ c.at \in OfUser => c.user \in Users /\ progress[c.user] # Absent
    /\ c.at \in {"mark", "find"} => c \in MarkCall /\ c.step \in visited[c.user]
    /\ c.at = "move" => c.next \in Steps \cup {NoStep} /\ c.phone \in BOOLEAN
    /\ c.at = "ping" => c.step \in Steps
    /\ c.at = "decide" => c.answer \in {"YES", "NO"} /\ progress[c.user].paid
    /\ c.at \in {"decide", "decided"} => c.step \in visited[c.user]
    /\ c.at \in {"phone", "verified"} =>
           c \in PhoneCall /\ (c.step # NoStep => c.step \in visited[c.user])
    /\ c.at = "capture" =>
           /\ c.step \in Steps \cup {NoStep}
           /\ \/ c.step = NoStep
              \/ c.step \in visited[c.user]
              \/ c.step \in known /\ (steps[c.step] # Absent => steps[c.step].type = "PAYMENT_GATE")

CallsInv == DOMAIN call = Handlers /\ \A h \in Handlers : Holds(call[h])

FunnelInv == LayoutInv /\ RowsInv /\ MarksInv /\ CountsInv /\ CallsInv

----------------------------------------------------------------------------
(* What rows never lose *)

RowsGrow ==
    \A u \in Users :
        /\ visited[u] \subseteq visited'[u]
        /\ progress[u] # Absent =>
               progress'[u] # Absent /\ (progress[u].paid => progress'[u].paid)

TypesStay ==
    /\ known \subseteq known'
    /\ \A s \in Steps : steps'[s] # Absent =>
           s \notin known \/ (steps[s] # Absent /\ steps'[s].type = steps[s].type)

Kept ==
    \A u \in Users, s \in Steps :
        stepRow[u][s] = "done" => stepRow'[u][s] = "done" \/ steps'[s] = Absent

LEMMA HoldsStays ==
    ASSUME FunnelInv, RowsGrow, TypesStay, NEW c, Holds(c)
    PROVE  Holds(c)'
<1>1. CASE c.at \notin OfUser
  BY <1>1 DEF Holds, OfUser, Seeding, RowsGrow
<1>2. CASE c.at \in OfUser
  <2>1. /\ c.user \in Users /\ progress'[c.user] # Absent
        /\ visited[c.user] \subseteq visited'[c.user]
        /\ progress[c.user].paid => progress'[c.user].paid
    BY <1>2 DEF Holds, RowsGrow
  <2>2. CASE c.at # "capture"
    BY <1>2, <2>1, <2>2 DEF Holds, OfUser, Seeding
  <2>3. CASE c.at = "capture"
    BY <2>1, <2>3 DEF Holds, OfUser, Seeding, TypesStay
  <2>. QED
    BY <2>2, <2>3
<1>. QED
  BY <1>1, <1>2

LEMMA CallsStay ==
    ASSUME FunnelInv, RowsGrow, TypesStay, NEW h \in Handlers, NEW c,
           call' = [call EXCEPT ![h] = c], Holds(c)'
    PROVE  CallsInv'
  BY HoldsStays DEF FunnelInv, CallsInv

LEMMA SameCalls ==
    ASSUME FunnelInv, RowsGrow, TypesStay, call' = call
    PROVE  CallsInv'
  BY HoldsStays DEF FunnelInv, CallsInv

LEMMA IdleHolds == Holds(Idle)'
  BY DEF Holds, Idle, OfUser, Seeding

----------------------------------------------------------------------------
(* What the walk returns *)

Existing == {s \in Steps : steps[s] # Absent}

LEMMA FirstExists ==
    ASSUME NEW S, NEW s \in FirstOfSections(S)
    PROVE  s \in Existing \cup {NoStep}
<1>1. \A n : Firsts(ActiveStepsOf(n)) \subseteq Existing \cup {NoStep}
  BY DEF Firsts, ActiveStepsOf, Existing
<1>. QED
  BY <1>1 DEF FirstOfSections

LEMMA NextExists ==
    ASSUME NEW n, NEW order, NEW s \in NextAfter(n, order)
    PROVE  s \in Existing \cup {NoStep}
<1>. DEFINE later == {t \in ActiveStepsOf(n) : steps[t].order > order}
<1>1. Firsts(later) \subseteq Existing \cup {NoStep}
  BY DEF Firsts, ActiveStepsOf, Existing
<1>. QED
  BY <1>1, FirstExists DEF NextAfter

LEMMA NextOfCurrentExists ==
    ASSUME NEW c, NEW s \in NextFromCurrent(c)
    PROVE  s \in Existing \cup {NoStep}
  BY NextExists DEF NextFromCurrent

----------------------------------------------------------------------------
(* The parts of the invariant that a step leaves alone or writes once *)

\* A row that may take the place of the user's: a payment is not taken back.
Better(u, row) ==
    /\ progress[u] # Absent => (progress[u].paid => row.paid)
    /\ row.answer # "none" => row.paid

LEMMA PutRow ==
    ASSUME FunnelInv, NEW u \in Users, NEW row \in Row, Better(u, row), Put(u, row)
    PROVE  /\ RowsInv' /\ RowsGrow
           /\ progress'[u] = row
           /\ row.step # NoStep => row.step \in visited'[u]
<1>1. /\ progress \in [Users -> Row \cup {Absent}] /\ visited \in [Users -> SUBSET Steps]
      /\ progress' = [progress EXCEPT ![u] = row]
      /\ visited' = [visited EXCEPT ![u] = @ \cup ({row.step} \ {NoStep})]
  BY DEF FunnelInv, RowsInv, Put
<1>2. row # Absent /\ row.step \in Steps \cup {NoStep}
  BY RowAssumption DEF Row
<1>3. progress' \in [Users -> Row \cup {Absent}]
  BY <1>1
<1>4. visited' \in [Users -> SUBSET Steps]
  BY <1>1, <1>2
<1>5. \A v \in Users : visited[v] \subseteq visited'[v]
  BY <1>1
<1>6. OnVisited'
  BY <1>1, <1>2, <1>5 DEF OnVisited, FunnelInv, RowsInv
<1>7. DecisionIsPaid'
  BY <1>1, <1>2 DEF DecisionIsPaid, FunnelInv, RowsInv, Better
<1>8. RowsGrow
  BY <1>1, <1>2, <1>5 DEF RowsGrow, Better
<1>. QED
  BY <1>1, <1>2, <1>3, <1>4, <1>6, <1>7, <1>8 DEF RowsInv

LEMMA SameRows ==
    ASSUME FunnelInv, UNCHANGED <<progress, visited>>
    PROVE  RowsInv' /\ RowsGrow
  BY DEF FunnelInv, RowsInv, OnVisited, DecisionIsPaid, RowsGrow

LEMMA SameLayout ==
    ASSUME FunnelInv, UNCHANGED layout
    PROVE  LayoutInv' /\ TypesStay
<1>1. UNCHANGED <<sections, steps, known>>
  BY DEF layout
<1>. QED
  BY <1>1 DEF FunnelInv, LayoutInv, TypesStay

\* No row of a step is touched and no step is deleted.
LEMMA SameMarks ==
    ASSUME FunnelInv, RowsGrow, TypesStay, UNCHANGED stepRow,
           \A s \in Steps : steps[s] # Absent => steps'[s] # Absent
    PROVE  MarksInv' /\ Kept
<1>1. \A u \in Users, s \in Steps : Entitled(u, s) => Entitled(u, s)'
  BY DEF Entitled, RowsGrow, TypesStay, FunnelInv, LayoutInv
<1>. QED
  BY <1>1 DEF FunnelInv, MarksInv, Kept

LEMMA MarkRow ==
    ASSUME FunnelInv, RowsGrow, UNCHANGED layout, NEW u \in Users, NEW s \in Steps,
           Mark(u, s),
           s \in visited'[u] \/ (steps[s] # Absent /\ steps[s].type = "PAYMENT_GATE")
    PROVE  MarksInv' /\ Kept
<1>1. stepRow \in [Users -> [Steps -> {"none", "open", "done"}]]
  BY DEF FunnelInv, MarksInv
<1>2. stepRow' = [stepRow EXCEPT ![u] = [stepRow[u] EXCEPT ![s] = "done"]]
  BY DEF Mark
<1>3. steps' = steps
  BY DEF layout
<1>4. stepRow' \in [Users -> [Steps -> {"none", "open", "done"}]]
  BY <1>1, <1>2
<1>5. \A v \in Users, t \in Steps :
          stepRow'[v][t] = "done" <=> (v = u /\ t = s) \/ stepRow[v][t] = "done"
  BY <1>1, <1>2
<1>6. \A v \in Users, t \in Steps : Entitled(v, t) => Entitled(v, t)'
  BY <1>3 DEF Entitled, RowsGrow
<1>7. Entitled(u, s)'
  BY <1>3 DEF Entitled
<1>. QED
  BY <1>4, <1>5, <1>6, <1>7 DEF FunnelInv, MarksInv, Kept

LEMMA Asked ==
    ASSUME FunnelInv, NEW u \in Users, NEW odd, AskAs(u, odd),
           UNCHANGED <<layout, stale, overtaken, crashes>>
    PROVE  CountsInv'
  BY FunnelAssumption DEF FunnelInv, CountsInv, AskAs, layout

LEMMA SameCounts ==
    ASSUME FunnelInv, UNCHANGED <<layout, stale, overtaken, disturbed, requests, crashes>>
    PROVE  CountsInv'
  BY DEF FunnelInv, CountsInv, layout

----------------------------------------------------------------------------
(* The steps of the users' handlers *)

LEMMA Sames ==
    ASSUME UNCHANGED layout
    PROVE  /\ UNCHANGED <<sections, steps, known, edits>>
           /\ \A s \in Steps : steps[s] # Absent => steps'[s] # Absent
  BY DEF layout

LEMMA MarkCompletedKeeps ==
    ASSUME FunnelInv, NEW h \in Handlers, MarkCompleted(h)
    PROVE  FunnelInv' /\ Kept
<1>. DEFINE c == call[h]
<1>1. Holds(c) /\ c.at = "mark" /\ c \in MarkCall /\ c.step \in visited[c.user]
  BY DEF FunnelInv, CallsInv, Holds, MarkCompleted
<1>2. /\ UNCHANGED <<layout, progress, visited>>
      /\ UNCHANGED <<stale, overtaken, disturbed, requests, crashes>>
  BY DEF MarkCompleted, caching
<1>3. RowsInv' /\ RowsGrow
  BY <1>2, SameRows
<1>4. LayoutInv' /\ TypesStay
  BY <1>2, SameLayout
<1>5. CountsInv'
  BY <1>2, SameCounts
<1>6. CASE Mark(c.user, c.step) /\ Then(h, [c EXCEPT !.at = "find"])
  <2>1. PICK u \in Users, s \in Steps : u = c.user /\ s = c.step
    BY <1>1 DEF MarkCall
  <2>2. Mark(u, s) /\ s \in visited'[u]
    BY <1>1, <1>2, <1>6, <2>1
  <2>3. MarksInv' /\ Kept
    BY <1>2, <1>3, <2>2, MarkRow
  <2>4. PICK d : d = [c EXCEPT !.at = "find"]
    OBVIOUS
  <2>5. d \in MarkCall /\ d.at = "find" /\ d.step = c.step /\ d.user = c.user
    BY <1>1, <2>4 DEF MarkCall
  <2>6. Holds(d)'
    BY <1>1, <1>2, <2>5 DEF Holds, OfUser, Seeding
  <2>7. CallsInv'
    BY <1>3, <1>4, <1>6, <2>4, <2>6, CallsStay DEF Then
  <2>. QED
    BY <1>3, <1>4, <1>5, <2>3, <2>7 DEF FunnelInv
<1>7. CASE End(h) /\ UNCHANGED stepRow
  <2>1. MarksInv' /\ Kept
    BY <1>2, <1>3, <1>4, <1>7, Sames, SameMarks
  <2>2. CallsInv'
    BY <1>3, <1>4, <1>7, IdleHolds, CallsStay DEF End
  <2>. QED
    BY <1>3, <1>4, <1>5, <2>1, <2>2 DEF FunnelInv
<1>. QED
  BY <1>6, <1>7 DEF MarkCompleted

\* A step that writes neither rows nor marks and leaves the layout alone.
LEMMA OnlyCall ==
    ASSUME FunnelInv, NEW h \in Handlers, NEW d, call' = [call EXCEPT ![h] = d], Holds(d)',
           UNCHANGED <<layout, walks>>, CountsInv'
    PROVE  FunnelInv' /\ Kept
<1>1. UNCHANGED <<progress, visited, stepRow>>
  BY DEF walks
<1>2. RowsInv' /\ RowsGrow /\ LayoutInv' /\ TypesStay
  BY <1>1, SameRows, SameLayout
<1>3. MarksInv' /\ Kept
  BY <1>1, <1>2, Sames, SameMarks
<1>4. CallsInv'
  BY <1>2, CallsStay
<1>. QED
  BY <1>2, <1>3, <1>4 DEF FunnelInv

\* A request goes on from a row that passes its checks.
LEMMA GoalHolds ==
    ASSUME FunnelInv, NEW u \in Users, NEW goal, GoalOf(goal, u), NEW row, Admits(u, row, goal),
           row # Absent, progress'[u] = row, row.step # NoStep => row.step \in visited'[u]
    PROVE  Holds(goal)'
<1>1. CASE goal = Idle
  BY <1>1, IdleHolds
<1>2. CASE goal \in MarkCall /\ goal.at = "mark" /\ goal.user = u
  <2>1. goal.step \in Steps /\ goal.step = row.step
    BY <1>2 DEF MarkCall, Admits
  <2>2. goal.step \in visited'[u]
    BY <2>1, FunnelAssumption
  <2>. QED
    BY <1>2, <2>2 DEF Holds, OfUser, Seeding
<1>3. CASE goal.at = "ping" /\ goal.user = u /\ goal.step \in Steps
  BY <1>3 DEF Holds, OfUser, Seeding
<1>4. CASE goal.at = "decide" /\ goal.user = u /\ goal.step \in Steps /\ goal.answer \in {"YES", "NO"}
  <2>1. row.paid /\ goal.step \in visited'[u]
    BY <1>4, FunnelAssumption DEF Admits
  <2>. QED
    BY <1>4, <2>1 DEF Holds, OfUser, Seeding
<1>. QED
  BY <1>1, <1>2, <1>3, <1>4 DEF GoalOf

LEMMA SeedHolds ==
    ASSUME FunnelInv, NEW u \in Users, NEW goal, GoalOf(goal, u), UNCHANGED progress
    PROVE  Holds(Seed(u, goal))'
<1>1. PICK c : c = [at |-> "seed", user |-> u, fresh |-> progress[u] = Absent, goal |-> goal]
  OBVIOUS
<1>2. GoalOf(goal, u)'
  BY DEF GoalOf
<1>3. Holds(c)'
  BY <1>1, <1>2 DEF Holds, OfUser, Seeding
<1>4. Seed(u, goal)' = c
  BY <1>1 DEF Seed
<1>. QED
  BY <1>3, <1>4 DEF Holds, GoalOf

LEMMA GetOrCreateKeeps ==
    ASSUME FunnelInv, NEW h \in Handlers, NEW u \in Users, NEW goal, GoalOf(goal, u),
           GetOrCreateProgress(h, u, goal), UNCHANGED <<layout, walks>>, CountsInv'
    PROVE  FunnelInv' /\ Kept
<1>1. UNCHANGED <<progress, visited>>
  BY DEF walks
<1>2. CASE Settled(progress[u]) /\ Admits(u, progress[u], goal) /\ Begin(h, goal)
  <2>1. PICK row : row = progress[u]
    OBVIOUS
  <2>2. row # Absent /\ (row.step # NoStep => row.step \in visited'[u]) /\ progress'[u] = row
    BY <1>1, <1>2, <2>1 DEF Settled, FunnelInv, RowsInv, OnVisited
  <2>3. Holds(goal)'
    BY <1>2, <2>1, <2>2, GoalHolds
  <2>. QED
    BY <1>2, <2>3, OnlyCall DEF Begin
<1>3. CASE Begin(h, Seed(u, goal))
  <2>1. PICK c : c = Seed(u, goal) /\ c' = Seed(u, goal)'
    BY <1>1 DEF Seed
  <2>2. Holds(Seed(u, goal))'
    BY <1>1, SeedHolds
  <2>3. Seed(u, goal)' = Seed(u, goal)
    BY <1>1 DEF Seed
  <2>. QED
    BY <1>3, <2>2, <2>3, OnlyCall DEF Begin
<1>. QED
  BY <1>2, <1>3 DEF GetOrCreateProgress

LEMMA GetProgressKeeps ==
    ASSUME FunnelInv, NEW h \in Handlers, NEW u \in Users, GetProgress(h, u)
    PROVE  FunnelInv' /\ Kept
<1>1. CountsInv'
  BY Asked DEF GetProgress, Ask, caching
<1>2. GoalOf(Idle, u)
  BY DEF GoalOf
<1>. QED
  BY <1>1, <1>2, GetOrCreateKeeps DEF GetProgress

LEMMA BeginCompleteKeeps ==
    ASSUME FunnelInv, NEW h \in Handlers, NEW u \in Users, NEW s \in Steps,
           NEW w \in BOOLEAN, BeginComplete(h, u, s, w)
    PROVE  FunnelInv' /\ Kept
<1>1. PICK c : c = [at |-> "mark", user |-> u, step |-> s,
                    section |-> steps[s].section, order |-> steps[s].order,
                    phone |-> steps[s].type = "PHONE_GATE"]
  OBVIOUS
<1>2. CountsInv'
  BY Asked DEF BeginComplete, caching
<1>3. c \in MarkCall /\ c.at = "mark" /\ c.user = u
  BY <1>1 DEF BeginComplete, FunnelInv, LayoutInv, Step, MarkCall
<1>4. GoalOf(c, u)
  BY <1>3 DEF GoalOf
<1>. QED
  BY <1>1, <1>2, <1>4, GetOrCreateKeeps DEF BeginComplete

LEMMA FindFirstStepKeeps ==
    ASSUME FunnelInv, NEW h \in Handlers, FindFirstStep(h)
    PROVE  FunnelInv' /\ Kept
<1>. DEFINE c == call[h]
<1>1. /\ c.at = "seed" /\ c.user \in Users /\ GoalOf(c.goal, c.user) /\ c.fresh \in BOOLEAN
      /\ c.fresh \/ progress[c.user] # Absent
  BY DEF FunnelInv, CallsInv, Holds, FindFirstStep, Seeding
<1>2. PICK s \in FirstOfSections(ActiveSections), n \in Sections \cup {Absent} :
          Then(h, [at |-> "place", user |-> c.user, fresh |-> c.fresh, phone |-> FALSE,
                   section |-> n, step |-> s, goal |-> c.goal])
  BY DEF FindFirstStep
<1>3. PICK d : d = [at |-> "place", user |-> c.user, fresh |-> c.fresh, phone |-> FALSE,
                    section |-> n, step |-> s, goal |-> c.goal]
  OBVIOUS
<1>4. s \in Steps \cup {NoStep}
  BY <1>2, FirstExists DEF Existing
<1>5. UNCHANGED <<layout, walks>> /\ UNCHANGED progress
  BY DEF FindFirstStep, walks
<1>6. CountsInv'
  BY SameCounts DEF FindFirstStep, caching
<1>7. /\ d.at = "place" /\ d.user = c.user /\ d.fresh = c.fresh /\ d.phone = FALSE
      /\ d.section = n /\ d.step = s /\ d.goal = c.goal
  BY <1>3
<1>8. GoalOf(d.goal, d.user)'
  BY <1>1, <1>7 DEF GoalOf
<1>9. Holds(d)'
  BY <1>1, <1>2, <1>4, <1>5, <1>7, <1>8 DEF Holds, OfUser, Seeding
<1>. QED
  BY <1>2, <1>3, <1>5, <1>6, <1>9, OnlyCall DEF Then

LEMMA FindNextStepKeeps ==
    ASSUME FunnelInv, NEW h \in Handlers, FindNextStep(h)
    PROVE  FunnelInv' /\ Kept
<1>. DEFINE c == call[h]
<1>1. Holds(c) /\ c.at = "find" /\ c \in MarkCall /\ progress[c.user] # Absent
  BY DEF FunnelInv, CallsInv, Holds, FindNextStep, OfUser
<1>2. PICK next \in NextAfter(c.section, c.order) :
          Then(h, [at |-> "move", user |-> c.user, next |-> next, phone |-> c.phone])
  BY DEF FindNextStep
<1>3. next \in Steps \cup {NoStep}
  BY <1>2, NextExists DEF Existing
<1>4. UNCHANGED <<layout, walks>> /\ UNCHANGED progress
  BY DEF FindNextStep, walks
<1>5. CountsInv'
  BY SameCounts DEF FindNextStep, caching
<1>6. PICK d : d = [at |-> "move", user |-> c.user, next |-> next, phone |-> c.phone]
  OBVIOUS
<1>7. Holds(d)'
  BY <1>1, <1>3, <1>4, <1>6 DEF Holds, OfUser, Seeding, MarkCall
<1>. QED
  BY <1>2, <1>4, <1>5, <1>6, <1>7, OnlyCall DEF Then

\* A step that writes the row of the user of a handler, which is done or goes on.
LEMMA RowWritten ==
    ASSUME FunnelInv, NEW h \in Handlers, NEW u \in Users, NEW row \in Row, NEW d,
           Better(u, row), Put(u, row), call' = [call EXCEPT ![h] = d],
           UNCHANGED <<layout, caching, stepRow, disturbed, requests, crashes>>,
           Holds(d)'
    PROVE  FunnelInv' /\ Kept
<1>1. RowsInv' /\ RowsGrow
  BY PutRow
<1>2. LayoutInv' /\ TypesStay
  BY SameLayout
<1>3. MarksInv' /\ Kept
  BY <1>1, <1>2, Sames, SameMarks
<1>4. CountsInv'
  BY SameCounts DEF caching
<1>5. CallsInv'
  BY <1>1, <1>2, CallsStay
<1>. QED
  BY <1>1, <1>2, <1>3, <1>4, <1>5 DEF FunnelInv

\* The row of the request that is placed.
LEMMA PlacedRow ==
    ASSUME FunnelInv, NEW c, NEW u \in Users, c.section \in Sections \cup {Absent},
           c.step \in Steps \cup {NoStep}, c.phone \in BOOLEAN,
           NEW row,
           \/ progress[u] = Absent /\ row = NewRow(c.section, c.step, c.phone)
           \/ progress[u] # Absent /\ row = [progress[u] EXCEPT !.step = c.step, !.section = c.section]
    PROVE  row \in Row /\ Better(u, row) /\ row.step = c.step
<1>1. CASE progress[u] = Absent /\ row = NewRow(c.section, c.step, c.phone)
  BY <1>1 DEF NewRow, Row, Better
<1>2. CASE progress[u] # Absent /\ row = [progress[u] EXCEPT !.step = c.step, !.section = c.section]
  <2>1. progress[u] \in Row /\ (progress[u].answer # "none" => progress[u].paid)
    BY <1>2 DEF FunnelInv, RowsInv, DecisionIsPaid
  <2>. QED
    BY <1>2, <2>1 DEF Row, Better
<1>. QED
  BY <1>1, <1>2

LEMMA PlaceProgressKeeps ==
    ASSUME FunnelInv, NEW h \in Handlers, PlaceProgress(h)
    PROVE  FunnelInv' /\ Kept
<1>1. PICK c : c = call[h]
  OBVIOUS
<1>2. /\ c.at = "place" /\ c.user \in Users /\ GoalOf(c.goal, c.user) /\ c.fresh \in BOOLEAN
      /\ c.fresh \/ progress[c.user] # Absent
      /\ c.step \in Steps \cup {NoStep} /\ c.section \in Sections \cup {Absent}
      /\ c.phone \in BOOLEAN
  BY <1>1 DEF FunnelInv, CallsInv, Holds, PlaceProgress, Seeding
<1>3. PICK u \in Users : u = c.user
  BY <1>2
<1>4. PICK row : row = IF c.fresh THEN NewRow(c.section, c.step, c.phone)
                       ELSE [progress[u] EXCEPT !.step = c.step, !.section = c.section]
  OBVIOUS
<1>5. UNCHANGED <<layout, caching, stepRow, disturbed, requests, crashes>>
  BY DEF PlaceProgress
<1>6. CASE End(h) /\ UNCHANGED <<progress, visited>>
  <2>1. CountsInv' /\ UNCHANGED walks
    BY <1>5, <1>6, SameCounts DEF caching, walks
  <2>. QED
    BY <1>5, <1>6, <2>1, IdleHolds, OnlyCall DEF End
<1>7. CASE /\ IF c.fresh THEN progress[u] = Absent ELSE c.step # NoStep
           /\ Put(u, row)
           /\ Then(h, IF Admits(u, row, c.goal) THEN c.goal ELSE Idle)
  <2>1. row \in Row /\ Better(u, row)
    BY <1>2, <1>3, <1>4, <1>7, PlacedRow
  <2>2. progress'[u] = row /\ (row.step # NoStep => row.step \in visited'[u]) /\ row # Absent
    BY <1>7, <2>1, PutRow, RowAssumption
  <2>3. PICK d : d = IF Admits(u, row, c.goal) THEN c.goal ELSE Idle
    OBVIOUS
  <2>4. Holds(d)'
    <3>1. CASE Admits(u, row, c.goal)
      <4>1. PICK goal : goal = c.goal
        OBVIOUS
      <4>2. GoalOf(goal, u) /\ Admits(u, row, goal)
        BY <1>2, <1>3, <3>1, <4>1
      <4>3. Holds(goal)'
        BY <2>2, <4>2, GoalHolds
      <4>. QED
        BY <2>3, <3>1, <4>1, <4>3
    <3>2. CASE ~Admits(u, row, c.goal)
      BY <2>3, <3>2, IdleHolds
    <3>. QED
      BY <3>1, <3>2
  <2>. QED
    BY <1>5, <1>7, <2>1, <2>3, <2>4, RowWritten DEF Then
<1>. QED
  BY <1>1, <1>3, <1>4, <1>6, <1>7 DEF PlaceProgress

\* The row of the user of a handler.
LEMMA RowOf ==
    ASSUME FunnelInv, NEW h \in Handlers, call[h].at \in OfUser
    PROVE  /\ call[h].user \in Users /\ progress[call[h].user] \in Row
           /\ progress[call[h].user].answer # "none" => progress[call[h].user].paid
<1>1. call[h].user \in Users /\ progress[call[h].user] # Absent
  BY DEF FunnelInv, CallsInv, Holds
<1>. QED
  BY <1>1 DEF FunnelInv, RowsInv, DecisionIsPaid

LEMMA MoveOnKeeps ==
    ASSUME FunnelInv, NEW h \in Handlers, MoveOn(h)
    PROVE  FunnelInv' /\ Kept
<1>. DEFINE c == call[h]
            row == progress[c.user]
            section == IF c.next # NoStep /\ steps[c.next] # Absent THEN steps[c.next].section
                       ELSE row.section
<1>1. c.at = "move" /\ c.next \in Steps \cup {NoStep} /\ c.phone \in BOOLEAN
  BY DEF FunnelInv, CallsInv, Holds, MoveOn
<1>2. c.user \in Users /\ row \in Row /\ (row.answer # "none" => row.paid)
  BY <1>1, RowOf DEF OfUser
<1>3. section \in Sections \cup {Absent}
  BY <1>1, <1>2 DEF FunnelInv, LayoutInv, Step, Row
<1>4. PICK new : new = [row EXCEPT !.step = c.next, !.section = section,
                                   !.phone = row.phone \/ c.phone,
                                   !.finished = row.finished \/ c.next = NoStep]
  OBVIOUS
<1>5. new \in Row
  <2>. HIDE DEF section
  <2>. QED
    BY <1>1, <1>2, <1>3, <1>4 DEF Row
<1>6. new.paid = row.paid /\ new.answer = row.answer
  BY <1>2, <1>4 DEF Row
<1>7. PICK u \in Users : u = c.user
  BY <1>2
<1>8. Better(u, new)
  BY <1>2, <1>6, <1>7 DEF Better
<1>. QED
  BY <1>4, <1>5, <1>7, <1>8, IdleHolds, RowWritten DEF MoveOn, End

LEMMA BeginPingKeeps ==
    ASSUME FunnelInv, NEW h \in Handlers, NEW u \in Users, NEW s \in Steps, BeginPing(h, u, s)
    PROVE  FunnelInv' /\ Kept
<1>1. PICK c : c = [at |-> "ping", user |-> u, step |-> s]
  OBVIOUS
<1>2. CountsInv'
  BY Asked DEF BeginPing, Ask, caching
<1>3. UNCHANGED <<layout, walks, progress, visited>>
  BY DEF BeginPing, walks
<1>4. CASE progress[u] = Absent
  <2>1. GoalOf(c, u) /\ Seed(u, c)' = Seed(u, c)
    BY <1>1, <1>3 DEF GoalOf, Seed
  <2>2. Holds(Seed(u, c))'
    BY <1>3, <2>1, SeedHolds
  <2>. QED
    BY <1>1, <1>2, <1>3, <1>4, <2>1, <2>2, OnlyCall DEF BeginPing, Begin
<1>5. CASE progress[u] # Absent
  <2>1. Holds(c)'
    BY <1>1, <1>3, <1>5 DEF Holds, OfUser, Seeding
  <2>. QED
    BY <1>1, <1>2, <1>3, <1>5, <2>1, OnlyCall DEF BeginPing, Begin
<1>. QED
  BY <1>4, <1>5

LEMMA PingKeeps ==
    ASSUME FunnelInv, NEW h \in Handlers, Ping(h)
    PROVE  FunnelInv' /\ Kept
<1>1. call[h].user \in Users /\ call[h].step \in Steps
  BY DEF Ping, FunnelInv, CallsInv, Holds, OfUser
<1>2. PICK u \in Users, s \in Steps : u = call[h].user /\ s = call[h].step
  BY <1>1
<1>3. UNCHANGED <<layout, progress, visited>>
  BY DEF Ping
<1>4. RowsInv' /\ RowsGrow /\ LayoutInv' /\ TypesStay
  BY <1>3, SameRows, SameLayout
<1>5. stepRow \in [Users -> [Steps -> {"none", "open", "done"}]]
  BY DEF FunnelInv, MarksInv
<1>6. PICK mark \in {"none", "open", "done"} :
          /\ stepRow' = [stepRow EXCEPT ![u] = [stepRow[u] EXCEPT ![s] = mark]]
          /\ mark = "done" <=> stepRow[u][s] = "done"
  <2>1. stepRow' = [stepRow EXCEPT ![u] = [stepRow[u] EXCEPT ![s] =
                        IF steps[s] # Absent /\ stepRow[u][s] = "none" THEN "open"
                        ELSE stepRow[u][s]]]
    BY <1>2, <1>5 DEF Ping
  <2>. QED
    BY <1>5, <2>1
<1>7. stepRow' \in [Users -> [Steps -> {"none", "open", "done"}]]
  BY <1>5, <1>6
<1>8. \A v \in Users, t \in Steps : stepRow'[v][t] = "done" <=> stepRow[v][t] = "done"
  BY <1>5, <1>6
<1>9. \A v \in Users, t \in Steps : Entitled(v, t) => Entitled(v, t)'
  BY <1>3, <1>4, Sames DEF Entitled, RowsGrow
<1>10. MarksInv' /\ Kept
  BY <1>7, <1>8, <1>9 DEF FunnelInv, MarksInv, Kept
<1>11. CountsInv'
  BY SameCounts DEF Ping, caching
<1>12. CallsInv'
  BY <1>4, IdleHolds, CallsStay DEF Ping, End
<1>. QED
  BY <1>4, <1>10, <1>11, <1>12 DEF FunnelInv

LEMMA BeginDecisionKeeps ==
    ASSUME FunnelInv, NEW h \in Handlers, NEW u \in Users, NEW s \in Steps,
           NEW a \in {"YES", "NO"}, BeginDecision(h, u, s, a)
    PROVE  FunnelInv' /\ Kept
<1>1. PICK c : c = [at |-> "decide", user |-> u, step |-> s, answer |-> a]
  OBVIOUS
<1>2. CountsInv'
  BY Asked DEF BeginDecision, Ask, caching
<1>3. GoalOf(c, u)
  BY <1>1 DEF GoalOf
<1>. QED
  BY <1>1, <1>2, <1>3, GetOrCreateKeeps DEF BeginDecision

LEMMA RecordDecisionKeeps ==
    ASSUME FunnelInv, NEW h \in Handlers, RecordDecision(h)
    PROVE  FunnelInv' /\ Kept
<1>. DEFINE c == call[h]
            row == progress[c.user]
<1>1. /\ c.at = "decide" /\ c.answer \in {"YES", "NO"} /\ row.paid
      /\ c.step \in visited[c.user]
  BY DEF FunnelInv, CallsInv, Holds, OfUser, RecordDecision
<1>2. c.user \in Users /\ row \in Row
  BY <1>1, RowOf DEF OfUser
<1>3. c.step \in Steps
  BY <1>1, <1>2 DEF FunnelInv, RowsInv
<1>4. PICK yes : yes = [row EXCEPT !.answer = "YES", !.step = NoStep, !.finished = TRUE]
  OBVIOUS
<1>5. PICK no : no = [row EXCEPT !.answer = "NO", !.step = c.step]
  OBVIOUS
<1>6. yes \in Row /\ yes.paid
  BY <1>1, <1>2, <1>4 DEF Row
<1>7. no \in Row /\ no.paid
  BY <1>1, <1>2, <1>3, <1>5 DEF Row
<1>8. PICK new : new = IF c.answer = "YES" THEN yes ELSE no
  OBVIOUS
<1>9. PICK u \in Users : u = c.user
  BY <1>2
<1>10. PICK d : d = [at |-> "decided", user |-> c.user, step |-> c.step]
  OBVIOUS
<1>11. new \in Row /\ Better(u, new)
  BY <1>6, <1>7, <1>8 DEF Better
<1>12. Put(u, new) /\ call' = [call EXCEPT ![h] = d]
  BY <1>4, <1>5, <1>8, <1>9, <1>10 DEF RecordDecision, Then
<1>13. visited[u] \subseteq visited'[u] /\ progress'[u] # Absent
  BY <1>2, <1>9, <1>11, <1>12, PutRow, RowAssumption DEF RowsGrow
<1>14. Holds(d)'
  BY <1>1, <1>9, <1>10, <1>13 DEF Holds, OfUser, Seeding
<1>. QED
  BY <1>11, <1>12, <1>14, RowWritten DEF RecordDecision

\* A step of a handler that marks a row or leaves it, and writes no progress.
LEMMA MarkWritten ==
    ASSUME FunnelInv, NEW h \in Handlers, NEW d, call' = [call EXCEPT ![h] = d], Holds(d)',
           UNCHANGED <<layout, caching, progress, visited, disturbed, requests, crashes>>,
           \/ UNCHANGED stepRow
           \/ \E u \in Users, s \in Steps : Mark(u, s) /\ s \in visited[u]
    PROVE  FunnelInv' /\ Kept
<1>1. RowsInv' /\ RowsGrow /\ LayoutInv' /\ TypesStay
  BY SameRows, SameLayout
<1>2. CountsInv'
  BY SameCounts DEF caching
<1>3. CallsInv'
  BY <1>1, CallsStay
<1>4. CASE UNCHANGED stepRow
  <2>1. MarksInv' /\ Kept
    BY <1>1, <1>4, Sames, SameMarks
  <2>. QED
    BY <1>1, <1>2, <1>3, <2>1 DEF FunnelInv
<1>5. ASSUME NEW u \in Users, NEW s \in Steps, Mark(u, s), s \in visited[u]
      PROVE  MarksInv' /\ Kept
  BY <1>1, <1>5, MarkRow
<1>. QED
  BY <1>1, <1>2, <1>3, <1>4, <1>5 DEF FunnelInv

LEMMA MarkDecidedKeeps ==
    ASSUME FunnelInv, NEW h \in Handlers, MarkDecided(h)
    PROVE  FunnelInv' /\ Kept
<1>1. call[h].user \in Users /\ call[h].step \in visited[call[h].user]
  BY DEF FunnelInv, CallsInv, Holds, OfUser, MarkDecided
<1>2. call[h].step \in Steps
  BY <1>1 DEF FunnelInv, RowsInv
<1>. QED
  BY <1>1, <1>2, IdleHolds, MarkWritten DEF MarkDecided, End

LEMMA BeginPhoneKeeps ==
    ASSUME FunnelInv, NEW h \in Handlers, NEW u \in Users, BeginPhone(h, u)
    PROVE  FunnelInv' /\ Kept
<1>1. LayoutInv' /\ TypesStay
  BY SameLayout DEF BeginPhone
<1>2. CountsInv'
  BY Asked DEF BeginPhone, caching
<1>3. CASE progress[u] = Absent
  <2>1. PICK c : c = [at |-> "place", user |-> u, fresh |-> TRUE, phone |-> TRUE,
                      section |-> Absent, step |-> NoStep, goal |-> Idle]
    OBVIOUS
  <2>2. GoalOf(c.goal, u)'
    BY <2>1 DEF GoalOf
  <2>3. Holds(c)'
    BY <2>1, <2>2 DEF Holds, OfUser, Seeding
  <2>. QED
    BY <1>2, <1>3, <2>1, <2>3, OnlyCall DEF BeginPhone, Begin
<1>4. CASE progress[u] # Absent
  <2>1. PICK next \in NextFromCurrent(progress[u].step) :
            Begin(h, [at |-> "phone", user |-> u, step |-> progress[u].step, next |-> next])
    BY <1>4 DEF BeginPhone
  <2>2. next \in Steps \cup {NoStep}
    BY <2>1, NextOfCurrentExists DEF Existing
  <2>3. /\ progress[u].step \in Steps \cup {NoStep}
        /\ progress[u].step # NoStep => progress[u].step \in visited[u]
    BY <1>4 DEF FunnelInv, RowsInv, OnVisited, Row
  <2>4. UNCHANGED <<layout, walks, progress, visited>>
    BY <1>4 DEF BeginPhone, walks
  <2>5. PICK c : c = [at |-> "phone", user |-> u, step |-> progress[u].step, next |-> next]
    OBVIOUS
  <2>6. c \in PhoneCall /\ c.at = "phone" /\ c.user = u /\ c.step = progress[u].step
    BY <2>2, <2>3, <2>5 DEF PhoneCall
  <2>7. Holds(c)'
    BY <1>4, <2>3, <2>4, <2>6 DEF Holds, OfUser, Seeding
  <2>. QED
    BY <1>2, <2>1, <2>4, <2>5, <2>7, OnlyCall DEF Begin
<1>. QED
  BY <1>3, <1>4

LEMMA MarkPhoneKeeps ==
    ASSUME FunnelInv, NEW h \in Handlers, MarkPhone(h)
    PROVE  FunnelInv' /\ Kept
<1>. DEFINE c == call[h]
<1>1. /\ c.at = "phone" /\ c \in PhoneCall /\ progress[c.user] # Absent
      /\ c.step # NoStep => c.step \in visited[c.user]
  BY DEF FunnelInv, CallsInv, Holds, OfUser, MarkPhone
<1>2. /\ UNCHANGED <<layout, caching, progress, visited, disturbed, requests, crashes>>
      /\ \/ UNCHANGED stepRow
         \/ \E u \in Users, s \in Steps : Mark(u, s) /\ s \in visited[u]
  BY <1>1 DEF MarkPhone, PhoneCall
<1>3. PICK d : d = [c EXCEPT !.at = "verified"]
  OBVIOUS
<1>4. d \in PhoneCall /\ d.at = "verified" /\ d.step = c.step /\ d.user = c.user
  BY <1>1, <1>3 DEF PhoneCall
<1>5. Holds(d)'
  BY <1>1, <1>2, <1>4 DEF Holds, OfUser, Seeding, PhoneCall
<1>6. call' = [call EXCEPT ![h] = d] \/ call' = [call EXCEPT ![h] = Idle]
  BY <1>3 DEF MarkPhone, Then, End
<1>. QED
  BY <1>2, <1>5, <1>6, IdleHolds, MarkWritten

\* The row that points at the next step, or has no step.
LEMMA MovedIsRow ==
    ASSUME FunnelInv, NEW row \in Row, NEW next \in Existing \cup {NoStep}
    PROVE  /\ Moved(row, next) \in Row
           /\ Moved(row, next).paid = row.paid /\ Moved(row, next).answer = row.answer
<1>1. CASE next = NoStep
  BY <1>1 DEF Moved, Row
<1>2. CASE next # NoStep
  <2>1. next \in Steps /\ steps[next].section \in Sections
    BY <1>2 DEF FunnelInv, LayoutInv, Existing, Step
  <2>. QED
    BY <1>2, <2>1 DEF Moved, Row
<1>. QED
  BY <1>1, <1>2

LEMMA VerifyPhoneKeeps ==
    ASSUME FunnelInv, NEW h \in Handlers, VerifyPhone(h)
    PROVE  FunnelInv' /\ Kept
<1>. DEFINE c == call[h]
            row == progress[c.user]
<1>1. c.at = "verified" /\ c.next \in Steps \cup {NoStep}
  BY DEF FunnelInv, CallsInv, Holds, VerifyPhone, PhoneCall
<1>2. c.user \in Users /\ row \in Row /\ (row.answer # "none" => row.paid)
  BY <1>1, RowOf DEF OfUser
<1>3. PICK moved : moved = IF c.next # NoStep /\ steps[c.next] = Absent
                           THEN [row EXCEPT !.step = c.next] ELSE Moved(row, c.next)
  OBVIOUS
<1>4. moved \in Row /\ moved.paid = row.paid /\ moved.answer = row.answer
  <2>1. CASE c.next # NoStep /\ steps[c.next] = Absent
    BY <1>1, <1>2, <1>3, <2>1 DEF Row
  <2>2. CASE ~(c.next # NoStep /\ steps[c.next] = Absent)
    BY <1>1, <1>2, <1>3, <2>2, MovedIsRow DEF Existing
  <2>. QED
    BY <2>1, <2>2
<1>5. PICK new : new = [moved EXCEPT !.phone = TRUE]
  OBVIOUS
<1>6. new \in Row /\ new.paid = row.paid /\ new.answer = row.answer
  BY <1>4, <1>5 DEF Row
<1>7. PICK u \in Users : u = c.user
  BY <1>2
<1>8. Better(u, new)
  BY <1>2, <1>6, <1>7 DEF Better
<1>9. Put(u, new) /\ call' = [call EXCEPT ![h] = Idle]
  BY <1>3, <1>5, <1>7 DEF VerifyPhone, End
<1>. QED
  BY <1>6, <1>8, <1>9, IdleHolds, RowWritten DEF VerifyPhone

LEMMA BeginCaptureKeeps ==
    ASSUME FunnelInv, NEW h \in Handlers, NEW u \in Users, BeginCapture(h, u)
    PROVE  FunnelInv' /\ Kept
<1>1. PICK gate \in (IF OfType("PAYMENT_GATE") = {} THEN {NoStep} ELSE OfType("PAYMENT_GATE")) :
          Begin(h, [at |-> "capture", user |-> u,
                    step |-> IF progress[u].step # NoStep THEN progress[u].step ELSE gate])
  BY DEF BeginCapture
<1>2. gate = NoStep \/ (gate \in Steps /\ gate \in known /\ steps[gate].type = "PAYMENT_GATE")
  BY <1>1 DEF OfType, ActiveSteps, ActiveStepsOf, FunnelInv, LayoutInv
<1>3. /\ progress[u] # Absent
      /\ progress[u].step \in Steps \cup {NoStep}
      /\ progress[u].step # NoStep => progress[u].step \in visited[u]
  BY DEF FunnelInv, RowsInv, OnVisited, Row, BeginCapture
<1>4. PICK c : c = [at |-> "capture", user |-> u,
                    step |-> IF progress[u].step # NoStep THEN progress[u].step ELSE gate]
  OBVIOUS
<1>5. UNCHANGED <<layout, walks, progress, visited, steps, known>>
  BY DEF BeginCapture, walks, layout
<1>6. Holds(c)'
  BY <1>2, <1>3, <1>4, <1>5 DEF Holds, OfUser, Seeding
<1>7. CountsInv'
  BY Asked DEF BeginCapture, Ask, caching
<1>. QED
  BY <1>1, <1>4, <1>5, <1>6, <1>7, OnlyCall DEF Begin

LEMMA ProcessSuccessfulPaymentKeeps ==
    ASSUME FunnelInv, NEW h \in Handlers, ProcessSuccessfulPayment(h)
    PROVE  FunnelInv' /\ Kept
<1>. DEFINE c == call[h]
            row == progress[c.user]
<1>1. /\ c.at = "capture" /\ c.step \in Steps \cup {NoStep}
      /\ \/ c.step = NoStep
         \/ c.step \in visited[c.user]
         \/ c.step \in known /\ (steps[c.step] # Absent => steps[c.step].type = "PAYMENT_GATE")
  BY DEF FunnelInv, CallsInv, Holds, OfUser, ProcessSuccessfulPayment
<1>2. c.user \in Users /\ row \in Row /\ (row.answer # "none" => row.paid)
  BY <1>1, RowOf DEF OfUser
<1>3. UNCHANGED <<layout, caching, disturbed, requests, crashes>>
  BY DEF ProcessSuccessfulPayment
<1>4. call' = [call EXCEPT ![h] = Idle]
  BY DEF ProcessSuccessfulPayment, End
<1>5. CASE UNCHANGED walks
  <2>1. CountsInv'
    BY <1>3, SameCounts DEF caching
  <2>. QED
    BY <1>3, <1>4, <1>5, <2>1, IdleHolds, OnlyCall
<1>6. CASE /\ c.step # NoStep => steps[c.step] # Absent
           /\ \E next \in NextFromCurrent(c.step) :
                  Put(c.user, [Moved(progress[c.user], next) EXCEPT !.paid = TRUE])
           /\ IF c.step = NoStep THEN UNCHANGED stepRow ELSE Mark(c.user, c.step)
  <2>1. PICK next \in NextFromCurrent(c.step) :
            Put(c.user, [Moved(progress[c.user], next) EXCEPT !.paid = TRUE])
    BY <1>6
  <2>2. PICK new : new = [Moved(row, next) EXCEPT !.paid = TRUE]
    OBVIOUS
  <2>3. Moved(row, next) \in Row
    BY <1>2, <2>1, NextOfCurrentExists, MovedIsRow
  <2>4. new \in Row /\ new.paid
    BY <2>2, <2>3 DEF Row
  <2>5. PICK u \in Users : u = c.user
    BY <1>2
  <2>6. Better(u, new) /\ Put(u, new)
    BY <2>1, <2>2, <2>4, <2>5 DEF Better
  <2>7. RowsInv' /\ RowsGrow
    BY <2>4, <2>6, PutRow
  <2>8. LayoutInv' /\ TypesStay
    BY <1>3, SameLayout
  <2>9. MarksInv' /\ Kept
    <3>1. CASE c.step = NoStep
      BY <1>3, <1>6, <2>7, <2>8, <3>1, Sames, SameMarks
    <3>2. CASE c.step # NoStep
      <4>1. PICK s \in Steps : s = c.step
        BY <1>1, <3>2
      <4>2. s \in visited'[u] \/ (steps[s] # Absent /\ steps[s].type = "PAYMENT_GATE")
        BY <1>1, <1>6, <2>5, <2>7, <3>2, <4>1 DEF RowsGrow
      <4>3. Mark(u, s)
        BY <1>6, <2>5, <3>2, <4>1
      <4>. QED
        BY <1>3, <2>7, <4>2, <4>3, MarkRow
    <3>. QED
      BY <3>1, <3>2
  <2>10. CountsInv'
    BY <1>3, SameCounts DEF caching
  <2>11. CallsInv'
    BY <1>4, <2>7, <2>8, IdleHolds, CallsStay
  <2>. QED
    BY <2>7, <2>8, <2>9, <2>10, <2>11 DEF FunnelInv
<1>. QED
  BY <1>5, <1>6 DEF ProcessSuccessfulPayment

LEMMA WalkKeeps ==
    ASSUME FunnelInv, NEW h \in Handlers, Walk(h)
    PROVE  FunnelInv' /\ Kept
<1>1. CASE ReadStructure(h)
  <2>1. PICK c : c = [at |-> "fill", user |-> Absent, value |-> Structure, seen |-> edits]
    OBVIOUS
  <2>2. Holds(c)'
    BY <2>1 DEF Holds, OfUser, Seeding
  <2>3. CountsInv'
    BY <1>1, FunnelAssumption DEF ReadStructure, FunnelInv, CountsInv, layout, caching
  <2>. QED
    BY <1>1, <2>1, <2>2, <2>3, OnlyCall DEF ReadStructure, Begin
<1>2. CASE FillCache(h)
  <2>1. CountsInv'
    BY <1>2 DEF FillCache, FunnelInv, CountsInv, layout
  <2>. QED
    BY <1>2, <2>1, IdleHolds, OnlyCall DEF FillCache, End
<1>. QED
  BY <1>1, <1>2, GetProgressKeeps, FindFirstStepKeeps, PlaceProgressKeeps,
     BeginCompleteKeeps, MarkCompletedKeeps, FindNextStepKeeps, MoveOnKeeps,
     BeginPingKeeps, PingKeeps, BeginDecisionKeeps, RecordDecisionKeeps, MarkDecidedKeeps,
     BeginPhoneKeeps, BeginCaptureKeeps, MarkPhoneKeeps, VerifyPhoneKeeps,
     ProcessSuccessfulPaymentKeeps
  DEF Walk

----------------------------------------------------------------------------
(* The steps of the administrator, of the cache and of a restart *)

LEMMA Counted ==
    ASSUME FunnelInv, MayEdit
    PROVE  edits + 1 \in 0..MaxDisturbances /\ crashes + 1 \in 0..MaxDisturbances
  BY FunnelAssumption DEF MayEdit, FunnelInv, CountsInv

LEMMA EditCounted ==
    ASSUME FunnelInv, Edit, UNCHANGED <<disturbed, requests, crashes>>
    PROVE  CountsInv'
  BY Counted DEF Edit, FunnelInv, CountsInv

\* An edit that deletes nothing.
LEMMA EditedInPlace ==
    ASSUME FunnelInv, Edit, LayoutInv', TypesStay,
           UNCHANGED <<walks, call, disturbed, requests, crashes>>,
           \A s \in Steps : steps[s] # Absent => steps'[s] # Absent
    PROVE  FunnelInv' /\ Kept
<1>1. UNCHANGED <<progress, visited, stepRow>>
  BY DEF walks
<1>2. RowsInv' /\ RowsGrow
  BY <1>1, SameRows
<1>3. MarksInv' /\ Kept
  BY <1>1, <1>2, SameMarks
<1>4. CountsInv'
  BY EditCounted
<1>5. CallsInv'
  BY <1>2, SameCalls
<1>. QED
  BY <1>2, <1>3, <1>4, <1>5 DEF FunnelInv

\* A deletion takes the marks of its steps along.
LEMMA DeletedKeeps ==
    ASSUME FunnelInv, Edit, NEW S, Deleted(S), NEW h \in Handlers, End(h),
           sections' \in [Sections -> Section \cup {Absent}],
           UNCHANGED <<known, progress, visited, disturbed, requests, crashes>>
    PROVE  FunnelInv' /\ Kept
<1>1. /\ steps \in [Steps -> Step \cup {Absent}] /\ known \in SUBSET (Sections \cup Steps)
      /\ \A s \in Steps : steps[s] # Absent => s \in known
  BY DEF FunnelInv, LayoutInv
<1>2. /\ steps' \in [Steps -> Step \cup {Absent}]
      /\ \A s \in Steps : steps'[s] = IF s \in S THEN Absent ELSE steps[s]
  BY <1>1 DEF Deleted
<1>3. LayoutInv' /\ TypesStay
  BY <1>1, <1>2 DEF LayoutInv, TypesStay
<1>4. RowsInv' /\ RowsGrow
  BY SameRows
<1>5. stepRow \in [Users -> [Steps -> {"none", "open", "done"}]]
  BY DEF FunnelInv, MarksInv
<1>6. /\ stepRow' \in [Users -> [Steps -> {"none", "open", "done"}]]
      /\ \A u \in Users, s \in Steps :
             stepRow'[u][s] = IF s \in S THEN "none" ELSE stepRow[u][s]
  BY <1>5 DEF Deleted
<1>7. MarksInv'
  BY <1>2, <1>6 DEF FunnelInv, MarksInv, Entitled
<1>8. Kept
  BY <1>2, <1>6 DEF Kept
<1>9. CallsInv'
  BY <1>3, <1>4, IdleHolds, CallsStay DEF End
<1>10. CountsInv'
  BY EditCounted
<1>. QED
  BY <1>3, <1>4, <1>7, <1>8, <1>9, <1>10 DEF FunnelInv

\* A row of funnel_steps that is written over keeps its type.
LEMMA StepWritten ==
    ASSUME FunnelInv, Edit, NEW s \in Steps, steps[s] # Absent,
           NEW new \in Step, new.type = steps[s].type,
           steps' = [steps EXCEPT ![s] = new],
           UNCHANGED <<sections, known, walks, call, disturbed, requests, crashes>>
    PROVE  FunnelInv' /\ Kept
<1>1. new # Absent
  BY FunnelAssumption
<1>2. LayoutInv'
  BY <1>1 DEF FunnelInv, LayoutInv
<1>3. TypesStay /\ \A t \in Steps : steps[t] # Absent => steps'[t] # Absent
  BY <1>1 DEF FunnelInv, LayoutInv, TypesStay
<1>. QED
  BY <1>2, <1>3, EditedInPlace

LEMMA EditStepsKeeps ==
    ASSUME FunnelInv, EditSteps
    PROVE  FunnelInv' /\ Kept
<1>0. steps \in [Steps -> Step \cup {Absent}]
  BY DEF FunnelInv, LayoutInv
<1>1. ASSUME NEW s \in Steps, NEW n \in Sections, NEW t \in NewTypes, NEW o \in Orders,
             CreateStep(s, n, t, o)
      PROVE  FunnelInv' /\ Kept
  <2>1. PICK new : new = [section |-> n, type |-> t, order |-> o, active |-> TRUE,
                          mustWatch |-> FALSE]
    OBVIOUS
  <2>2. new \in Step /\ new # Absent
    <3>1. t \in Types
      BY FunnelAssumption
    <3>2. new \in Step
      BY <2>1, <3>1 DEF Step
    <3>. QED
      BY <3>2, FunnelAssumption
  <2>3. steps' = [steps EXCEPT ![s] = new] /\ known' = known \cup {s} /\ s \notin known
    BY <1>1, <2>1 DEF CreateStep
  <2>4. LayoutInv'
    BY <1>1, <2>2, <2>3 DEF FunnelInv, LayoutInv, CreateStep
  <2>5. TypesStay /\ \A r \in Steps : steps[r] # Absent => steps'[r] # Absent
    BY <2>2, <2>3 DEF FunnelInv, LayoutInv, TypesStay
  <2>. QED
    BY <1>1, <2>4, <2>5, EditedInPlace DEF CreateStep
<1>2. ASSUME NEW s \in Steps, NEW b \in BOOLEAN, UpdateStep(s, b)
      PROVE  FunnelInv' /\ Kept
  <2>1. PICK new : new = [steps[s] EXCEPT !.active = b]
    OBVIOUS
  <2>2. new \in Step /\ new.type = steps[s].type
    BY <1>0, <1>2, <2>1 DEF Step, UpdateStep
  <2>3. steps' = [steps EXCEPT ![s] = new]
    BY <1>2, <2>1 DEF UpdateStep
  <2>. QED
    BY <1>2, <2>2, <2>3, StepWritten DEF UpdateStep
<1>3. ASSUME NEW s \in Steps, NEW o \in Orders, ReorderStep(s, o)
      PROVE  FunnelInv' /\ Kept
  <2>1. PICK new : new = [steps[s] EXCEPT !.order = o]
    OBVIOUS
  <2>2. new \in Step /\ new.type = steps[s].type
    BY <1>0, <1>3, <2>1 DEF Step, ReorderStep
  <2>3. steps' = [steps EXCEPT ![s] = new]
    BY <1>3, <2>1 DEF ReorderStep
  <2>. QED
    BY <1>3, <2>2, <2>3, StepWritten DEF ReorderStep
<1>4. ASSUME NEW s \in Steps, NEW b \in BOOLEAN, UpsertStepContent(s, b)
      PROVE  FunnelInv' /\ Kept
  <2>1. PICK new : new = [steps[s] EXCEPT !.mustWatch = b]
    OBVIOUS
  <2>2. new \in Step /\ new.type = steps[s].type
    BY <1>0, <1>4, <2>1 DEF Step, UpsertStepContent
  <2>3. steps' = [steps EXCEPT ![s] = new]
    BY <1>4, <2>1 DEF UpsertStepContent
  <2>. QED
    BY <1>4, <2>2, <2>3, StepWritten DEF UpsertStepContent
<1>5. ASSUME NEW h \in Handlers, NEW s \in Steps, BeginDeleteStep(h, s)
      PROVE  FunnelInv' /\ Kept
  <2>1. PICK c : c = [at |-> "deleteStep", user |-> Absent, step |-> s]
    OBVIOUS
  <2>2. Holds(c)'
    BY <2>1 DEF Holds, OfUser, Seeding
  <2>3. CountsInv'
    BY <1>5, SameCounts DEF BeginDeleteStep, caching
  <2>. QED
    BY <1>5, <2>1, <2>2, <2>3, OnlyCall DEF BeginDeleteStep, Begin
<1>6. ASSUME NEW h \in Handlers, DeleteStep(h)
      PROVE  FunnelInv' /\ Kept
  <2>1. PICK S : S = {call[h].step}
    OBVIOUS
  <2>2. sections' \in [Sections -> Section \cup {Absent}]
    BY <1>6 DEF DeleteStep, FunnelInv, LayoutInv
  <2>. QED
    BY <1>6, <2>1, <2>2, DeletedKeeps DEF DeleteStep
<1>. QED
  BY <1>1, <1>2, <1>3, <1>4, <1>5, <1>6 DEF EditSteps

LEMMA EditSectionsKeeps ==
    ASSUME FunnelInv, EditSections
    PROVE  FunnelInv' /\ Kept
<1>1. ASSUME NEW n \in Sections, NEW o \in Orders, CreateSection(n, o)
      PROVE  FunnelInv' /\ Kept
  <2>1. LayoutInv' /\ TypesStay
    BY <1>1 DEF CreateSection, FunnelInv, LayoutInv, TypesStay, Section
  <2>. QED
    BY <1>1, <2>1, EditedInPlace DEF CreateSection
<1>2. ASSUME NEW n \in Sections, NEW o \in Orders, NEW b \in BOOLEAN, UpdateSection(n, o, b)
      PROVE  FunnelInv' /\ Kept
  <2>1. LayoutInv' /\ TypesStay
    BY <1>2 DEF UpdateSection, FunnelInv, LayoutInv, TypesStay, Section
  <2>. QED
    BY <1>2, <2>1, EditedInPlace DEF UpdateSection
<1>3. ASSUME NEW h \in Handlers, NEW n \in Sections, BeginDeleteSection(h, n)
      PROVE  FunnelInv' /\ Kept
  <2>1. PICK c : c = [at |-> "deleteSection", user |-> Absent, section |-> n]
    OBVIOUS
  <2>2. Holds(c)'
    BY <2>1 DEF Holds, OfUser, Seeding
  <2>3. CountsInv'
    BY <1>3, SameCounts DEF BeginDeleteSection, caching
  <2>. QED
    BY <1>3, <2>1, <2>2, <2>3, OnlyCall DEF BeginDeleteSection, Begin
<1>4. ASSUME NEW h \in Handlers, DeleteSection(h)
      PROVE  FunnelInv' /\ Kept
  <2>1. PICK S : S = {s \in Steps : steps[s] # Absent /\ steps[s].section = call[h].section}
    OBVIOUS
  <2>2. sections' \in [Sections -> Section \cup {Absent}]
    BY <1>4 DEF DeleteSection, FunnelInv, LayoutInv
  <2>. QED
    BY <1>4, <2>1, <2>2, DeletedKeeps DEF DeleteSection
<1>. QED
  BY <1>1, <1>2, <1>3, <1>4 DEF EditSections

LEMMA RestartKeeps ==
    ASSUME FunnelInv, Restart
    PROVE  FunnelInv' /\ Kept
<1>1. UNCHANGED <<layout, progress, visited, stepRow>>
  BY DEF Restart, walks
<1>2. RowsInv' /\ RowsGrow /\ LayoutInv' /\ TypesStay
  BY <1>1, SameRows, SameLayout
<1>3. MarksInv' /\ Kept
  BY <1>1, <1>2, Sames, SameMarks
<1>4. CallsInv'
  BY IdleHolds DEF Restart, CallsInv
<1>5. disturbed' \in SUBSET Users
  BY DEF Restart, FunnelInv, CountsInv
<1>6. CountsInv'
  BY <1>1, <1>5, Counted DEF Restart, FunnelInv, CountsInv, layout, MayEdit
<1>. QED
  BY <1>2, <1>3, <1>4, <1>6 DEF FunnelInv

\* Nothing but the cache is written.
LEMMA CacheKeeps ==
    ASSUME FunnelInv, UNCHANGED <<layout, walks, call, disturbed, requests, crashes>>,
           stale' \in BOOLEAN, overtaken' \in BOOLEAN
    PROVE  FunnelInv' /\ Kept
<1>1. UNCHANGED <<progress, visited, stepRow>>
  BY DEF walks
<1>2. RowsInv' /\ RowsGrow /\ LayoutInv' /\ TypesStay
  BY <1>1, SameRows, SameLayout
<1>3. MarksInv' /\ Kept
  BY <1>1, <1>2, Sames, SameMarks
<1>4. CountsInv'
  BY DEF FunnelInv, CountsInv, layout
<1>5. CallsInv'
  BY <1>2, SameCalls
<1>. QED
  BY <1>2, <1>3, <1>4, <1>5 DEF FunnelInv

LEMMA NextKeeps ==
    ASSUME FunnelInv, [Next]_vars
    PROVE  FunnelInv' /\ Kept
<1>1. CASE ExpireCache
  BY <1>1, CacheKeeps DEF ExpireCache, FunnelInv, CountsInv
<1>2. CASE InvalidateStructureCache
  BY <1>2, CacheKeeps DEF InvalidateStructureCache, FunnelInv, CountsInv
<1>3. CASE UNCHANGED vars
  BY <1>3, CacheKeeps DEF vars, caching, FunnelInv, CountsInv
<1>. QED
  BY <1>1, <1>2, <1>3, WalkKeeps, EditSectionsKeeps, EditStepsKeeps, RestartKeeps
  DEF Next

LEMMA InitHolds == Init => FunnelInv
<1>. SUFFICES ASSUME Init PROVE FunnelInv
  OBVIOUS
<1>1. LayoutInv
  BY FunnelAssumption DEF Init, LayoutInv
<1>2. RowsInv
  BY DEF Init, RowsInv, OnVisited, DecisionIsPaid
<1>3. MarksInv
  BY DEF Init, MarksInv
<1>4. CountsInv
  <2>1. 0 \in 0..MaxRequests /\ 0 \in 0..MaxDisturbances
    BY FunnelAssumption
  <2>2. stale = FALSE /\ overtaken = FALSE /\ disturbed = {} /\ requests = 0 /\ edits = 0 /\ crashes = 0
    BY DEF Init
  <2>3. stale \in BOOLEAN /\ overtaken \in BOOLEAN
    BY <2>2
  <2>. QED
    BY <2>1, <2>2, <2>3 DEF CountsInv
<1>5. ASSUME NEW h \in Handlers
      PROVE  Holds(call[h])
  <2>1. call[h].at = "idle"
    BY DEF Init, Idle
  <2>. QED
    BY <2>1 DEF Holds, OfUser, Seeding
<1>6. CallsInv
  BY <1>5 DEF Init, CallsInv
<1>. QED
  BY <1>1, <1>2, <1>3, <1>4, <1>6 DEF FunnelInv

LEMMA InvGivesGates ==
    ASSUME FunnelInv
    PROVE  GatesHold
<1>1. TypeOK
  BY DEF TypeOK, FunnelInv, LayoutInv, RowsInv, MarksInv, CountsInv
<1>2. OpenWasReached
  BY FunnelAssumption
  DEF OpenWasReached, MayOpen, FunnelInv, RowsInv, OnVisited, MarksInv, Entitled
<1>. QED
  BY <1>1, <1>2 DEF GatesHold, FunnelInv, RowsInv

----------------------------------------------------------------------------
(* The order of the active steps *)

LEMMA ActiveStep ==
    ASSUME LayoutInv, NEW s \in ActiveSteps
    PROVE  /\ s \in Steps /\ steps[s] # Absent
           /\ steps[s].section \in ActiveSections
           /\ s \in ActiveStepsOf(steps[s].section)
           /\ steps[s].order \in Nat
           /\ sections[steps[s].section].order \in Nat
<1>1. PICK n \in ActiveSections : s \in ActiveStepsOf(n)
  BY DEF ActiveSteps
<1>2. s \in Steps /\ steps[s] # Absent /\ steps[s].section = n
  BY <1>1 DEF ActiveStepsOf
<1>3. steps[s] \in Step
  BY <1>2 DEF LayoutInv
<1>4. sections[n] \in Section
  BY <1>1 DEF ActiveSections, LayoutInv
<1>. QED
  BY <1>1, <1>2, <1>3, <1>4, FunnelAssumption DEF Step, Section

LEMMA ActiveOf ==
    ASSUME LayoutInv, NEW n \in ActiveSections, NEW s \in ActiveStepsOf(n)
    PROVE  s \in ActiveSteps /\ steps[s].section = n
  BY DEF ActiveSteps, ActiveStepsOf

LEMMA BeforeIsTransitive ==
    ASSUME LayoutInv, NEW s \in ActiveSteps, NEW t \in ActiveSteps, NEW r \in ActiveSteps,
           Before(r, s), Before(s, t)
    PROVE  Before(r, t)
  BY ActiveStep DEF Before

LEMMA BeforeIsStrict ==
    ASSUME LayoutInv, NEW s \in ActiveSteps, NEW t \in ActiveSteps, Before(s, t)
    PROVE  s # t /\ ~Before(t, s)
  BY ActiveStep DEF Before

LEMMA NoEmptySection ==
    ASSUME "EMPTY_SECTION" \notin Warnings, NEW n \in ActiveSections
    PROVE  ActiveStepsOf(n) # {}
  BY DEF Warnings

\* The first step of the first of the active sections S.
LEMMA FirstOfThose ==
    ASSUME LayoutInv, NoTies, "EMPTY_SECTION" \notin Warnings,
           NEW S \in SUBSET ActiveSections, S # {}, NEW f \in FirstOfSections(S)
    PROVE  /\ f \in ActiveSteps /\ steps[f].section \in S
           /\ \A t \in ActiveSteps : steps[t].section \in S => ~Before(t, f)
<1>1. PICK n \in S : /\ \A m \in S : sections[n].order <= sections[m].order
                     /\ f \in Firsts(ActiveStepsOf(n))
  BY DEF FirstOfSections, FirstSections
<1>2. ActiveStepsOf(n) # {}
  BY NoEmptySection
<1>3. f \in ActiveStepsOf(n) /\ \A t \in ActiveStepsOf(n) : steps[f].order <= steps[t].order
  BY <1>1, <1>2 DEF Firsts
<1>4. f \in ActiveSteps /\ steps[f].section = n
  BY <1>3, ActiveOf
<1>5. ASSUME NEW t \in ActiveSteps, steps[t].section \in S, Before(t, f)
      PROVE  FALSE
  <2>1. sections[n].order <= sections[steps[t].section].order
    BY <1>1, <1>5
  <2>2. sections[n].order = sections[steps[t].section].order /\ steps[t].order < steps[f].order
    BY <2>1, <1>4, <1>5, ActiveStep DEF Before
  <2>3. steps[t].section = n
    BY <2>2, <1>5 DEF NoTies
  <2>4. steps[f].order <= steps[t].order
    BY <2>3, <1>3, ActiveStep
  <2>. QED
    BY <2>2, <2>4, <1>4, ActiveStep
<1>. QED
  BY <1>4, <1>5

\* The next step is the next of all active steps.
LEMMA NextFollows ==
    ASSUME LayoutInv, NoTies, "EMPTY_SECTION" \notin Warnings,
           NEW s \in ActiveSteps, NEW next \in NextFromCurrent(s)
    PROVE  IF next = NoStep THEN \A t \in ActiveSteps : ~Before(s, t)
           ELSE /\ next \in ActiveSteps /\ Before(s, next)
                /\ \A t \in ActiveSteps : Before(t, next) => t = s \/ Before(t, s)
<1>1. PICK n : n = steps[s].section
  OBVIOUS
<1>2. PICK later : later = {t \in ActiveStepsOf(n) : steps[t].order > steps[s].order}
  OBVIOUS
<1>3. PICK S : S = {m \in ActiveSections : sections[m].order > sections[n].order}
  OBVIOUS
<1>4. /\ s \in Steps /\ steps[s] # Absent /\ n \in ActiveSections
      /\ s \in ActiveStepsOf(n) /\ steps[s].order \in Nat
      /\ sections[n].order \in Nat /\ s # NoStep
  BY <1>1, ActiveStep, FunnelAssumption
<1>5. next \in IF later # {} THEN Firsts(later) ELSE FirstOfSections(S)
  <2>1. next \in NextAfter(n, steps[s].order)
    BY <1>1, <1>4 DEF NextFromCurrent
  <2>2. sections[n] # Absent
    BY <1>4 DEF ActiveSections
  <2>. QED
    BY <2>1, <2>2, <1>2, <1>3 DEF NextAfter
<1>6. \A t \in ActiveSteps : t = s \/ Before(t, s) \/ Before(s, t)
  BY DEF NoTies
<1>7. CASE later # {}
  <2>1. next \in later /\ \A t \in later : steps[next].order <= steps[t].order
    BY <1>5, <1>7 DEF Firsts
  <2>2. /\ next \in ActiveSteps /\ steps[next].section = n
        /\ steps[next].order > steps[s].order
    BY <2>1, <1>2, <1>4, ActiveOf
  <2>3. next # NoStep
    BY <2>2, ActiveStep, FunnelAssumption
  <2>4. Before(s, next)
    BY <2>2, <1>1, <1>4, ActiveStep DEF Before
  <2>5. ASSUME NEW t \in ActiveSteps, Before(t, next), Before(s, t)
        PROVE  FALSE
    <3>1. sections[steps[t].section].order = sections[n].order
      BY <2>2, <2>5, <1>1, <1>4, ActiveStep DEF Before
    <3>2. steps[t].section = n
      BY <3>1, <1>4, ActiveStep DEF NoTies
    <3>3. steps[t].order < steps[next].order /\ steps[t].order > steps[s].order
      BY <3>2, <2>2, <2>5, <1>1, <1>4, ActiveStep DEF Before
    <3>4. t \in later
      BY <3>2, <3>3, <1>2, ActiveStep
    <3>. QED
      BY <3>3, <3>4, <2>1, <2>2, ActiveStep
  <2>. QED
    BY <2>2, <2>3, <2>4, <2>5, <1>6
<1>8. CASE later = {}
  <2>1. ASSUME NEW t \in ActiveSteps, Before(s, t)
        PROVE  steps[t].section \in S
    <3>1. sections[steps[t].section].order # sections[n].order
      <4>. SUFFICES ASSUME sections[steps[t].section].order = sections[n].order
                    PROVE  FALSE
        OBVIOUS
      <4>1. steps[t].section = n
        BY <1>4, ActiveStep DEF NoTies
      <4>2. steps[t].order > steps[s].order
        BY <4>1, <2>1, <1>1, <1>4, ActiveStep DEF Before
      <4>3. t \in later
        BY <4>1, <4>2, <1>2, ActiveStep
      <4>. QED
        BY <4>3, <1>8
    <3>. QED
      BY <3>1, <2>1, <1>1, <1>3, <1>4, ActiveStep DEF Before
  <2>2. CASE S = {}
    <3>1. next = NoStep
      BY <2>2, <1>5, <1>8 DEF FirstOfSections
    <3>. QED
      BY <3>1, <2>1, <2>2
  <2>3. CASE S # {}
    <3>1. S \in SUBSET ActiveSections /\ next \in FirstOfSections(S)
      BY <1>3, <1>5, <1>8
    <3>2. /\ next \in ActiveSteps /\ steps[next].section \in S
          /\ \A t \in ActiveSteps : steps[t].section \in S => ~Before(t, next)
      BY <3>1, <2>3, FirstOfThose, Zenon
    <3>3. next # NoStep
      BY <3>2, ActiveStep, FunnelAssumption
    <3>4. Before(s, next)
      BY <3>2, <1>1, <1>3, <1>4, ActiveStep DEF Before
    <3>. QED
      BY <3>2, <3>3, <3>4, <2>1, <1>6
  <2>. QED
    BY <2>2, <2>3
<1>. QED
  BY <1>7, <1>8

----------------------------------------------------------------------------
(* The walk is complete *)

LEMMA LeastNumber ==
    ASSUME NEW T \in SUBSET Nat, T # {}
    PROVE  \E n \in T : \A m \in T : n <= m
<1>. DEFINE R == OpToRel(<, Nat)
<1>1. IsWellFoundedOn(R, Nat)
  BY NatLessThanWellFounded, Zenon
<1>. HIDE DEF R
<1>2. PICK n \in T : \A m \in T : ~(<<m, n>> \in R)
  BY <1>1, WFMin, Zenon
<1>3. ASSUME NEW m \in T PROVE n <= m
  <2>1. m \in Nat /\ n \in Nat
    OBVIOUS
  <2>2. ~(m < n)
    BY <1>2, <2>1 DEF R, OpToRel
  <2>. QED
    BY <2>1, <2>2
<1>. QED
  BY <1>3

\* How many active steps come before s.
Rank(s) == Cardinality({r \in ActiveSteps : Before(r, s)})

LEMMA RankIsNatural ==
    ASSUME LayoutInv, NEW s
    PROVE  /\ Rank(s) \in Nat /\ Rank(s) <= Cardinality(ActiveSteps)
           /\ Cardinality(ActiveSteps) \in Nat
           /\ IsFiniteSet({r \in ActiveSteps : Before(r, s)})
<1>1. ActiveSteps \in SUBSET Steps
  BY ActiveStep
<1>2. IsFiniteSet(ActiveSteps)
  BY <1>1, FunnelAssumption, FS_Subset
<1>3. PICK B : B = {r \in ActiveSteps : Before(r, s)}
  OBVIOUS
<1>4. B \in SUBSET ActiveSteps /\ Rank(s) = Cardinality(B)
  BY <1>3 DEF Rank
<1>5. IsFiniteSet(B) /\ Cardinality(B) <= Cardinality(ActiveSteps)
  BY <1>2, <1>4, FS_Subset
<1>6. Cardinality(B) \in Nat /\ Cardinality(ActiveSteps) \in Nat
  BY <1>2, <1>5, FS_CardinalityType
<1>. QED
  BY <1>3, <1>4, <1>5, <1>6

LEMMA RankGrows ==
    ASSUME LayoutInv, NEW s \in ActiveSteps, NEW t \in ActiveSteps, Before(s, t)
    PROVE  Rank(s) < Rank(t)
<1>1. PICK A : A = {r \in ActiveSteps : Before(r, s)}
  OBVIOUS
<1>2. PICK B : B = {r \in ActiveSteps : Before(r, t)}
  OBVIOUS
<1>3. A \in SUBSET B
  BY <1>1, <1>2, BeforeIsTransitive
<1>4. s \in B /\ s \notin A
  BY <1>1, <1>2, BeforeIsStrict
<1>5. /\ IsFiniteSet(B) /\ Rank(s) = Cardinality(A) /\ Rank(t) = Cardinality(B)
      /\ Rank(s) \in Nat /\ Rank(t) \in Nat
  BY <1>1, <1>2, RankIsNatural DEF Rank
<1>6. Cardinality(A) <= Cardinality(B) /\ (Cardinality(B) = Cardinality(A) => B = A)
  BY <1>3, <1>5, FS_Subset
<1>. QED
  BY <1>4, <1>5, <1>6

LEMMA FirstIn ==
    ASSUME LayoutInv, NEW T \in SUBSET ActiveSteps, T # {}
    PROVE  \E s \in T : \A t \in T : ~Before(t, s)
<1>1. PICK N : N = {Rank(t) : t \in T}
  OBVIOUS
<1>2. N \in SUBSET Nat /\ N # {}
  BY <1>1, RankIsNatural
<1>3. PICK n \in N : \A m \in N : n <= m
  BY <1>2, LeastNumber
<1>4. PICK s \in T : n = Rank(s)
  BY <1>1, <1>3
<1>5. ASSUME NEW t \in T, Before(t, s) PROVE FALSE
  <2>1. Rank(t) < Rank(s) /\ Rank(t) \in Nat /\ Rank(s) \in Nat
    BY <1>5, RankGrows, RankIsNatural
  <2>2. Rank(s) <= Rank(t)
    BY <1>1, <1>3, <1>4
  <2>. QED
    BY <2>1, <2>2
<1>. QED
  BY <1>5

LEMMA LastIn ==
    ASSUME LayoutInv, NEW T \in SUBSET ActiveSteps, T # {}
    PROVE  \E s \in T : \A t \in T : ~Before(s, t)
<1>1. PICK c : c = Cardinality(ActiveSteps)
  OBVIOUS
<1>2. PICK N : N = {c - Rank(t) : t \in T}
  OBVIOUS
<1>3. N \in SUBSET Nat /\ N # {}
  <2>1. c \in Nat /\ \A t \in T : Rank(t) \in Nat /\ Rank(t) <= c
    BY <1>1, RankIsNatural
  <2>2. \A t \in T : c - Rank(t) \in Nat
    BY <2>1
  <2>. QED
    BY <1>2, <2>2
<1>4. PICK n \in N : \A m \in N : n <= m
  BY <1>3, LeastNumber
<1>5. PICK s \in T : n = c - Rank(s)
  BY <1>2, <1>4
<1>6. ASSUME NEW t \in T, Before(s, t) PROVE FALSE
  <2>1. Rank(s) < Rank(t) /\ Rank(t) \in Nat /\ Rank(s) \in Nat /\ c \in Nat
    BY <1>1, <1>6, RankGrows, RankIsNatural
  <2>2. c - Rank(s) <= c - Rank(t)
    BY <1>2, <1>4, <1>5
  <2>. QED
    BY <2>1, <2>2
<1>. QED
  BY <1>6

\* A step that no active step precedes is the first.
LEMMA FirstIsFound ==
    ASSUME LayoutInv, NoTies, "EMPTY_SECTION" \notin Warnings,
           NEW t \in ActiveSteps, \A r \in ActiveSteps : ~Before(r, t)
    PROVE  t \in FirstOfSections(ActiveSections)
<1>1. PICK n \in ActiveSections : n = steps[t].section
  BY ActiveStep
<1>2. ASSUME NEW m \in ActiveSections
      PROVE  sections[n].order <= sections[m].order
  <2>1. PICK r \in ActiveStepsOf(m) : TRUE
    BY NoEmptySection
  <2>2. r \in ActiveSteps /\ steps[r].section = m
    BY ActiveOf
  <2>. QED
    BY <1>1, <2>2, ActiveStep DEF Before
<1>3. ASSUME NEW r \in ActiveStepsOf(n)
      PROVE  steps[t].order <= steps[r].order
  <2>1. r \in ActiveSteps /\ steps[r].section = n
    BY ActiveOf
  <2>. QED
    BY <1>1, <2>1, ActiveStep DEF Before
<1>4. t \in Firsts(ActiveStepsOf(n))
  BY <1>1, <1>3, ActiveStep DEF Firsts
<1>. QED
  BY <1>2, <1>4 DEF FirstOfSections, FirstSections

\* A step with no active step between it and s follows s.
LEMMA FollowerIsFound ==
    ASSUME LayoutInv, NoTies, "EMPTY_SECTION" \notin Warnings,
           NEW s \in ActiveSteps, NEW t \in ActiveSteps, Before(s, t),
           \A r \in ActiveSteps : ~(Before(s, r) /\ Before(r, t))
    PROVE  t \in NextFromCurrent(s)
<1>1. PICK n \in ActiveSections : n = steps[s].section
  BY ActiveStep
<1>2. PICK k \in ActiveSections : k = steps[t].section
  BY ActiveStep
<1>3. PICK later : later = {r \in ActiveStepsOf(n) : steps[r].order > steps[s].order}
  OBVIOUS
<1>4. PICK S : S = {m \in ActiveSections : sections[m].order > sections[n].order}
  OBVIOUS
<1>5. NextFromCurrent(s) = IF later # {} THEN Firsts(later) ELSE FirstOfSections(S)
  <2>1. sections[n] # Absent /\ s # NoStep /\ steps[s] # Absent
    BY ActiveStep, FunnelAssumption DEF ActiveSections
  <2>. QED
    BY <2>1, <1>1, <1>3, <1>4 DEF NextFromCurrent, NextAfter
<1>6. ASSUME NEW r \in later
      PROVE  r \in ActiveSteps /\ steps[r].section = n /\ Before(s, r)
  <2>1. r \in ActiveSteps /\ steps[r].section = n
    BY <1>3, ActiveOf
  <2>. QED
    BY <2>1, <1>1, <1>3, ActiveStep DEF Before
<1>7. CASE k = n
  <2>1. t \in later
    BY <1>1, <1>2, <1>3, <1>7, ActiveStep DEF Before
  <2>2. ASSUME NEW r \in later PROVE steps[t].order <= steps[r].order
    BY <1>2, <1>6, <1>7, ActiveStep DEF Before
  <2>. QED
    BY <2>1, <2>2, <1>5 DEF Firsts
<1>8. CASE k # n
  <2>1. sections[n].order < sections[k].order
    <3>1. sections[n].order # sections[k].order
      BY <1>8 DEF NoTies
    <3>. QED
      BY <3>1, <1>1, <1>2, ActiveStep DEF Before
  <2>2. later = {}
    <3>. SUFFICES ASSUME NEW r \in later PROVE FALSE
      OBVIOUS
    <3>1. Before(r, t)
      BY <2>1, <1>2, <1>6, ActiveStep DEF Before
    <3>. QED
      BY <3>1, <1>6
  <2>3. k \in S
    BY <2>1, <1>4, <1>1, <1>2, ActiveStep
  <2>4. ASSUME NEW m \in S PROVE sections[k].order <= sections[m].order
    <3>1. PICK r \in ActiveStepsOf(m) : TRUE
      BY <1>4, NoEmptySection
    <3>2. r \in ActiveSteps /\ steps[r].section = m
      BY <1>4, ActiveOf
    <3>3. Before(s, r)
      BY <3>2, <1>1, <1>4, ActiveStep DEF Before
    <3>. QED
      BY <3>2, <3>3, <1>2, ActiveStep DEF Before
  <2>5. ASSUME NEW r \in ActiveStepsOf(k) PROVE steps[t].order <= steps[r].order
    <3>1. r \in ActiveSteps /\ steps[r].section = k
      BY ActiveOf
    <3>2. Before(s, r)
      BY <3>1, <2>1, <1>1, <1>2, ActiveStep DEF Before
    <3>. QED
      BY <3>1, <3>2, <1>2, ActiveStep DEF Before
  <2>6. t \in Firsts(ActiveStepsOf(k))
    BY <2>5, <1>2, ActiveStep DEF Firsts
  <2>. QED
    BY <2>2, <2>3, <2>4, <2>6, <1>5 DEF FirstOfSections, FirstSections
<1>. QED
  BY <1>7, <1>8

\* The first step that a closed set leaves out would be the first of all or
\* follow a step that is in the set.
LEMMA WalkIsComplete ==
    ASSUME LayoutInv
    PROVE  UnwarnedWalkIsComplete
<1>. SUFFICES ASSUME NoTies, "EMPTY_SECTION" \notin Warnings,
                     NEW S \in SUBSET Steps, ClosedUnderWalk(S),
                     ~(ActiveSteps \subseteq S)
              PROVE  FALSE
  BY DEF UnwarnedWalkIsComplete
<1>1. PICK T : T = {t \in ActiveSteps : t \notin S}
  OBVIOUS
<1>2. PICK t \in T : \A r \in T : ~Before(r, t)
  BY <1>1, FirstIn
<1>3. t \in ActiveSteps /\ t \notin S /\ t # NoStep
  BY <1>1, ActiveStep, FunnelAssumption
<1>4. PICK P : P = {r \in ActiveSteps : Before(r, t)}
  OBVIOUS
<1>5. P # {}
  <2>. SUFFICES ASSUME P = {} PROVE FALSE
    OBVIOUS
  <2>1. t \in FirstOfSections(ActiveSections)
    BY <1>3, <1>4, FirstIsFound
  <2>. QED
    BY <2>1, <1>3 DEF ClosedUnderWalk
<1>6. PICK s \in P : \A r \in P : ~Before(s, r)
  BY <1>4, <1>5, LastIn
<1>7. s \in S /\ s \in ActiveSteps /\ Before(s, t)
  BY <1>1, <1>2, <1>4, <1>6
<1>8. t \in NextFromCurrent(s)
  BY <1>3, <1>4, <1>6, <1>7, FollowerIsFound
<1>. QED
  BY <1>3, <1>7, <1>8 DEF ClosedUnderWalk

----------------------------------------------------------------------------
(* Where an undisturbed user is, in a funnel that can be walked *)

\* r is the row of the user, m the completions of the user.
NothingDone(m) == \A t \in Steps : m[t] # "done"

DoneBefore(m, s) == \A t \in Steps : m[t] = "done" => t \in ActiveSteps /\ Before(t, s)

DoneUpTo(m, s) ==
    \A t \in Steps : m[t] = "done" => t \in ActiveSteps /\ (t = s \/ Before(t, s))

GatesPassed(r, s) ==
    /\ \A t \in OfType("PHONE_GATE") : Before(t, s) => r.phone
    /\ \A t \in OfType("PAYMENT_GATE") : Before(t, s) => r.paid
    /\ r.paid => r.phone

Stands(r, s) == s \in ActiveSteps /\ r.step = s /\ r.answer = "none" /\ GatesPassed(r, s)

OnStep(r, m, s) == Stands(r, s) /\ DoneBefore(m, s)

Leaving(r, m, s) == Stands(r, s) /\ DoneUpTo(m, s)

Through(r) == r.phone /\ r.paid

Finished(r) == r.step = NoStep /\ r.finished /\ Through(r)

Declined(r, s) == s \in ActiveSteps /\ r.step = s /\ r.answer = "NO" /\ Through(r)

\* The phone was verified before the funnel was opened.
Unplaced(r, m) == r.step = NoStep /\ r.phone /\ r.answer = "none" /\ NothingDone(m)

\* Between two requests.
Rests(r, m) ==
    IF r = Absent THEN NothingDone(m)
    ELSE \/ Unplaced(r, m)
         \/ Finished(r)
         \/ OnStep(r, m, r.step)
         \/ Declined(r, r.step) /\ m[r.step] = "done"

Plain(s) == steps[s].type \notin {"PHONE_GATE", "PAYMENT_GATE"}

Carries(c) ==
    c.section = steps[c.step].section /\ c.order = steps[c.step].order /\ ~c.phone /\ Plain(c.step)

\* A gate is not completed by hand.
FitsGoal(g) == g.at = "mark" => Carries(g)

IsFirst(s) == s \in ActiveSteps /\ \A t \in ActiveSteps : ~Before(t, s)

\* Within a request.
Fits(c, r, m) ==
    /\ c.at \in Seeding =>
           Rests(r, m) /\ ~Settled(r) /\ (c.fresh <=> r = Absent) /\ FitsGoal(c.goal)
    /\ c.at = "place" => IF c.phone THEN c.step = NoStep /\ c.fresh /\ c.goal = Idle
                         ELSE IsFirst(c.step)
    /\ c.at = "mark" => OnStep(r, m, c.step) /\ Carries(c)
    /\ c.at = "find" => Leaving(r, m, c.step) /\ Carries(c)
    /\ c.at = "move" =>
           ~c.phone /\ \E s \in Steps : Leaving(r, m, s) /\ Plain(s) /\ c.next \in NextFromCurrent(s)
    /\ c.at = "ping" => Rests(r, m)
    /\ c.at = "decide" => c.step \in ActiveSteps /\ r.step = c.step /\ Through(r)
    /\ c.at = "decided" => Finished(r) \/ Declined(r, c.step)
    /\ c.at = "phone" => OnStep(r, m, c.step) /\ ~r.phone /\ c.next \in NextFromCurrent(c.step)
    /\ c.at = "verified" => Leaving(r, m, c.step) /\ ~r.phone /\ c.next \in NextFromCurrent(c.step)
    /\ c.at = "capture" =>
           /\ r.phone /\ ~r.paid
           /\ OnStep(r, m, c.step) \/ (Unplaced(r, m) /\ c.step \in OfType("PAYMENT_GATE"))

Serving(c) == c.at \in OfUser \/ c.at \in Seeding

Serves(c, u) == Serving(c) /\ c.user = u

UserWalks(u) ==
    /\ \A h, k \in Handlers : Serves(call[h], u) /\ Serves(call[k], u) => h = k
    /\ (\A h \in Handlers : ~Serves(call[h], u)) => Rests(progress[u], stepRow[u])
    /\ \A h \in Handlers : Serves(call[h], u) => Fits(call[h], progress[u], stepRow[u])

WalkInv == edits = 0 /\ Walkable => \A u \in Users \ disturbed : UserWalks(u)

\* None of it changes while the layout stays.
LEMMA LayoutStays ==
    ASSUME UNCHANGED <<sections, steps>>
    PROVE  /\ ActiveSteps' = ActiveSteps /\ Walkable' = Walkable
           /\ \A type : OfType(type)' = OfType(type)
           /\ \A s : NextFromCurrent(s)' = NextFromCurrent(s)
           /\ \A s, t : Before(s, t)' = Before(s, t)
<1>1. ActiveSections' = ActiveSections /\ \A n : ActiveStepsOf(n)' = ActiveStepsOf(n)
  BY DEF ActiveSections, ActiveStepsOf
<1>2. ActiveSteps' = ActiveSteps
  BY <1>1 DEF ActiveSteps
<1>3. \A type : OfType(type)' = OfType(type)
  BY <1>2 DEF OfType
<1>4. \A s, t : Before(s, t)' = Before(s, t)
  BY DEF Before
<1>5. \A S : Firsts(S)' = Firsts(S)
  BY DEF Firsts
<1>6. \A S : FirstOfSections(S)' = FirstOfSections(S)
  BY <1>1, <1>5 DEF FirstOfSections, FirstSections
<1>7. \A n, order : NextAfter(n, order)' = NextAfter(n, order)
  BY <1>1, <1>5, <1>6 DEF NextAfter
<1>8. \A s : NextFromCurrent(s)' = NextFromCurrent(s)
  BY <1>7 DEF NextFromCurrent
<1>9. Warnings' = Warnings
  BY <1>1, <1>2, <1>3, <1>4 DEF Warnings
<1>10. NoTies' = NoTies
  BY <1>1, <1>2, <1>4 DEF NoTies
<1>11. Walkable' = Walkable
  BY <1>3, <1>9, <1>10 DEF Walkable
<1>. QED
  BY <1>2, <1>3, <1>4, <1>8, <1>11

LEMMA RestsStays ==
    ASSUME UNCHANGED <<sections, steps>>, NEW r, NEW m, Rests(r, m)
    PROVE  Rests(r, m)'
<1>1. \A s : GatesPassed(r, s)' = GatesPassed(r, s)
  BY LayoutStays DEF GatesPassed
<1>2. \A s : OnStep(r, m, s)' = OnStep(r, m, s)
  BY <1>1, LayoutStays DEF OnStep, Stands, DoneBefore
<1>3. \A s : Declined(r, s)' = Declined(r, s)
  BY LayoutStays DEF Declined, Through
<1>. QED
  BY <1>2, <1>3 DEF Rests, Unplaced, Finished, Through, NothingDone

LEMMA FitsStays ==
    ASSUME UNCHANGED <<sections, steps>>, NEW c, NEW r, NEW m, Fits(c, r, m)
    PROVE  Fits(c, r, m)'
<1>1. \A s : GatesPassed(r, s)' = GatesPassed(r, s)
  BY LayoutStays DEF GatesPassed
<1>2. \A s : OnStep(r, m, s)' = OnStep(r, m, s)
  BY <1>1, LayoutStays DEF OnStep, Stands, DoneBefore
<1>3. \A s : Leaving(r, m, s)' = Leaving(r, m, s)
  BY <1>1, LayoutStays DEF Leaving, Stands, DoneUpTo
<1>4. \A s : Declined(r, s)' = Declined(r, s)
  BY LayoutStays DEF Declined, Through
<1>5. /\ Carries(c)' = Carries(c) /\ \A s : Plain(s)' = Plain(s)
      /\ FitsGoal(c.goal)' = FitsGoal(c.goal)
  BY DEF Carries, Plain, FitsGoal
<1>6. Rests(r, m) => Rests(r, m)'
  BY RestsStays
<1>7. Finished(r)' = Finished(r) /\ Through(r)' = Through(r) /\ Unplaced(r, m)' = Unplaced(r, m)
  BY DEF Finished, Through, Unplaced, NothingDone
<1>8. CASE c.at \in {"mark", "find", "move", "ping"}
  BY <1>2, <1>3, <1>5, <1>6, <1>8, LayoutStays DEF Fits, Seeding
<1>9. CASE c.at \in Seeding
  <2>1. \A s : IsFirst(s)' = IsFirst(s)
    BY LayoutStays DEF IsFirst
  <2>. QED
    BY <1>5, <1>6, <1>9, <2>1 DEF Fits, Seeding, Settled
<1>10. CASE c.at \notin {"mark", "find", "move", "ping"} \cup Seeding
  BY <1>2, <1>3, <1>4, <1>7, <1>10, LayoutStays DEF Fits, Seeding
<1>. QED
  BY <1>8, <1>9, <1>10

LEMMA WalkableIs ==
    ASSUME Walkable
    PROVE  /\ NoTies /\ "EMPTY_SECTION" \notin Warnings
           /\ \E t \in OfType("PHONE_GATE") : TRUE
           /\ \E t \in OfType("PAYMENT_GATE") : TRUE
           /\ \E d \in OfType("DECISION") : TRUE
           /\ \A s \in ActiveSteps : \E d \in OfType("DECISION") : ~Before(d, s)
           /\ \A p \in OfType("PAYMENT_GATE") : \E q \in OfType("PHONE_GATE") : ~Before(p, q)
<1>1. /\ NoTies /\ Warnings = {}
      /\ OfType("PHONE_GATE") # {} /\ OfType("PAYMENT_GATE") # {}
  BY DEF Walkable
<1>2. OfType("DECISION") # {}
  BY <1>1 DEF Warnings
<1>3. \A s \in ActiveSteps : \E d \in OfType("DECISION") : ~Before(d, s)
  BY <1>1, <1>2 DEF Warnings
<1>4. \A p \in OfType("PAYMENT_GATE") : \E q \in OfType("PHONE_GATE") : ~Before(p, q)
  BY <1>1 DEF Warnings
<1>. QED
  BY <1>1, <1>2, <1>3, <1>4

LEMMA TypesDiffer ==
    ASSUME NEW type, NEW s \in OfType(type)
    PROVE  s \in ActiveSteps /\ steps[s].type = type
  BY DEF OfType

\* The walk ends on a decision, after both gates.
LEMMA LastIsDecision ==
    ASSUME LayoutInv, Walkable, NEW s \in ActiveSteps, \A t \in ActiveSteps : ~Before(s, t)
    PROVE  /\ Plain(s)
           /\ \E t \in OfType("PHONE_GATE") : Before(t, s)
           /\ \E t \in OfType("PAYMENT_GATE") : Before(t, s)
<1>1. PICK d \in OfType("DECISION") : ~Before(d, s)
  BY WalkableIs
<1>2. d = s
  BY <1>1, TypesDiffer, WalkableIs DEF NoTies
<1>3. Plain(s) /\ steps[s].type = "DECISION"
  BY <1>1, <1>2, TypesDiffer DEF Plain
<1>4. ASSUME NEW t \in ActiveSteps, steps[t].type # "DECISION"
      PROVE  Before(t, s)
  BY <1>3, <1>4, WalkableIs DEF NoTies
<1>5. PICK p \in OfType("PHONE_GATE") : TRUE
  BY WalkableIs
<1>6. PICK q \in OfType("PAYMENT_GATE") : TRUE
  BY WalkableIs
<1>7. Before(p, s) /\ Before(q, s)
  BY <1>4, <1>5, <1>6, TypesDiffer
<1>. QED
  BY <1>3, <1>7

LEMMA PhoneComesFirst ==
    ASSUME LayoutInv, Walkable, NEW p \in OfType("PAYMENT_GATE")
    PROVE  \E q \in OfType("PHONE_GATE") : Before(q, p)
<1>1. PICK q \in OfType("PHONE_GATE") : ~Before(p, q)
  BY WalkableIs
<1>2. p \in ActiveSteps /\ q \in ActiveSteps /\ p # q
  BY <1>1, TypesDiffer
<1>3. Before(q, p)
  BY <1>1, <1>2, WalkableIs DEF NoTies
<1>. QED
  BY <1>3

\* A row that leaves the completed step s for the one that follows.
LEMMA MovesOn ==
    ASSUME LayoutInv, Walkable, NEW s \in ActiveSteps, NEW m, DoneUpTo(m, s),
           NEW next \in NextFromCurrent(s), NEW r, r.step = next, r.answer = "none",
           \A t \in OfType("PHONE_GATE") : t = s \/ Before(t, s) => r.phone,
           \A t \in OfType("PAYMENT_GATE") : t = s \/ Before(t, s) => r.paid,
           r.paid => r.phone
    PROVE  IF next = NoStep THEN r.phone /\ r.paid ELSE OnStep(r, m, next)
<1>1. NoTies /\ "EMPTY_SECTION" \notin Warnings
  BY WalkableIs
<1>2. IF next = NoStep THEN \A t \in ActiveSteps : ~Before(s, t)
      ELSE /\ next \in ActiveSteps /\ Before(s, next)
           /\ \A t \in ActiveSteps : Before(t, next) => t = s \/ Before(t, s)
  BY <1>1, NextFollows, Zenon
<1>3. CASE next = NoStep
  BY <1>2, <1>3, LastIsDecision
<1>4. CASE next # NoStep
  <2>1. GatesPassed(r, next)
    BY <1>2, <1>4, TypesDiffer DEF GatesPassed
  <2>2. DoneBefore(m, next)
    BY <1>2, <1>4, BeforeIsTransitive DEF DoneBefore, DoneUpTo
  <2>. QED
    BY <1>2, <1>4, <2>1, <2>2 DEF OnStep, Stands
<1>. QED
  BY <1>3, <1>4

LEMMA FirstStands ==
    ASSUME LayoutInv, Walkable, NEW f \in FirstOfSections(ActiveSections)
    PROVE  f # NoStep /\ IsFirst(f)
<1>1. NoTies /\ "EMPTY_SECTION" \notin Warnings /\ \E t \in OfType("PHONE_GATE") : TRUE
  BY WalkableIs
<1>2. PICK t \in ActiveSteps : TRUE
  BY <1>1, TypesDiffer
<1>3. ActiveSections # {}
  BY <1>2, ActiveStep
<1>4. PICK S : S = ActiveSections
  OBVIOUS
<1>5. /\ f \in ActiveSteps /\ steps[f].section \in S
      /\ \A r \in ActiveSteps : steps[r].section \in S => ~Before(r, f)
  BY <1>1, <1>3, <1>4, FirstOfThose
<1>. QED
  BY <1>4, <1>5, ActiveStep, FunnelAssumption DEF IsFirst

\* A request goes on from a row at rest.
LEMMA GoalFits ==
    ASSUME Walkable, NEW u \in Users, NEW goal, GoalOf(goal, u), FitsGoal(goal),
           NEW row, row # Absent, NEW m, m = stepRow[u], Rests(row, m), Admits(u, row, goal)
    PROVE  goal = Idle \/ (goal.at \in OfUser /\ goal.user = u /\ Fits(goal, row, m))
<1>1. CASE goal \in MarkCall /\ goal.at = "mark" /\ goal.user = u
  <2>1. goal.step \in Steps /\ row.step = goal.step /\ m[goal.step] # "done" /\ Carries(goal)
    BY <1>1 DEF MarkCall, Admits, FitsGoal
  <2>2. OnStep(row, m, goal.step)
    BY <2>1, FunnelAssumption DEF Rests, Unplaced, Finished
  <2>. QED
    BY <1>1, <2>1, <2>2 DEF Fits, OfUser, Seeding
<1>2. CASE goal.at = "ping" /\ goal.user = u /\ goal.step \in Steps
  BY <1>2 DEF Fits, OfUser, Seeding
<1>3. CASE goal.at = "decide" /\ goal.user = u /\ goal.step \in Steps /\ goal.answer \in {"YES", "NO"}
  <2>1. goal.step # NoStep /\ row.step = goal.step /\ row.paid
    BY <1>3, FunnelAssumption DEF Admits
  <2>2. OnStep(row, m, goal.step) \/ Declined(row, goal.step)
    BY <2>1 DEF Rests, Unplaced, Finished
  <2>3. goal.step \in ActiveSteps /\ Through(row)
    BY <2>1, <2>2 DEF OnStep, Stands, GatesPassed, Declined, Through
  <2>. QED
    BY <1>3, <2>1, <2>3 DEF Fits, OfUser, Seeding
<1>. QED
  BY <1>1, <1>2, <1>3 DEF GoalOf

\* The row that is placed for a user without a step.
LEMMA PlacedRests ==
    ASSUME FunnelInv, Walkable, NEW u \in Users, NEW m, m = stepRow[u], NEW c, NEW row,
           c.at = "place", Fits(c, progress[u], m), row # Absent,
           c.fresh => row = NewRow(c.section, c.step, c.phone),
           ~c.fresh => row = [progress[u] EXCEPT !.step = c.step, !.section = c.section],
           c.phone \in BOOLEAN
    PROVE  Rests(row, m)
<1>1. PICK r : r = progress[u]
  OBVIOUS
<1>2. /\ Rests(r, m) /\ ~Settled(r) /\ (c.fresh <=> r = Absent)
      /\ IF c.phone THEN c.step = NoStep /\ c.fresh ELSE IsFirst(c.step)
  BY <1>1 DEF Fits, Seeding
<1>3. r # Absent => Unplaced(r, m)
  <2>1. \A s \in ActiveSteps : s # NoStep
    BY ActiveStep, FunnelAssumption DEF FunnelInv
  <2>. QED
    BY <1>2, <2>1 DEF Rests, Finished, Settled, OnStep, Stands, Declined
<1>4. NothingDone(m)
  BY <1>2, <1>3 DEF Rests, Unplaced
<1>5. CASE c.phone
  <2>1. row.step = NoStep /\ row.phone /\ row.answer = "none"
    BY <1>2, <1>5 DEF NewRow
  <2>. QED
    BY <1>4, <2>1 DEF Rests, Unplaced
<1>6. CASE ~c.phone
  <2>1. row.step = c.step /\ row.answer = "none" /\ (row.paid => row.phone)
    <3>1. CASE c.fresh
      BY <3>1 DEF NewRow
    <3>2. CASE ~c.fresh
      <4>1. r \in Row /\ Unplaced(r, m)
        BY <1>1, <1>2, <1>3, <3>2 DEF FunnelInv, RowsInv
      <4>. QED
        BY <1>1, <3>2, <4>1 DEF Unplaced, Row
    <3>. QED
      BY <3>1, <3>2
  <2>2. GatesPassed(row, c.step)
    BY <1>2, <1>6, <2>1, TypesDiffer DEF GatesPassed, IsFirst
  <2>3. DoneBefore(m, c.step)
    BY <1>4 DEF DoneBefore, NothingDone
  <2>. QED
    BY <1>2, <1>6, <2>1, <2>2, <2>3 DEF Rests, OnStep, Stands, IsFirst
<1>. QED
  BY <1>5, <1>6

----------------------------------------------------------------------------
(* The walk of one user, whatever the others do *)

LEMMA IdleServesNobody ==
    ASSUME NEW u
    PROVE  ~Serves(Idle, u)
  BY DEF Serves, Serving, Idle, OfUser, Seeding

LEMMA UserStays ==
    ASSUME UNCHANGED <<sections, steps>>, NEW u, UserWalks(u),
           progress'[u] = progress[u], stepRow'[u] = stepRow[u],
           \A h \in Handlers :
               call'[h] = call[h] \/ (~Serves(call[h], u) /\ ~Serves(call'[h], u))
    PROVE  UserWalks(u)'
<1>1. PICK r, m : r = progress[u] /\ m = stepRow[u]
  OBVIOUS
<1>2. progress'[u] = r /\ stepRow'[u] = m
  BY <1>1
<1>3. \A h \in Handlers : Serves(call'[h], u) => call'[h] = call[h] /\ Serves(call[h], u)
  OBVIOUS
<1>4. \A h, k \in Handlers : Serves(call'[h], u) /\ Serves(call'[k], u) => h = k
  BY <1>3 DEF UserWalks
<1>5. ASSUME NEW h \in Handlers, Serves(call'[h], u)
      PROVE  Fits(call[h], r, m)' /\ call'[h] = call[h]
  <2>1. call'[h] = call[h] /\ Serves(call[h], u)
    BY <1>3, <1>5
  <2>2. PICK c : c = call[h]
    OBVIOUS
  <2>3. Fits(c, r, m)
    BY <1>1, <2>1, <2>2 DEF UserWalks
  <2>4. Fits(c, r, m)'
    BY <2>3, FitsStays
  <2>. QED
    BY <2>1, <2>2, <2>4
<1>6. ASSUME \A h \in Handlers : ~Serves(call'[h], u)
      PROVE  Rests(r, m)'
  <2>1. \A h \in Handlers : ~Serves(call[h], u)
    BY <1>6
  <2>2. Rests(r, m)
    BY <1>1, <2>1 DEF UserWalks
  <2>. QED
    BY <2>2, RestsStays
<1>. QED
  BY <1>2, <1>4, <1>5, <1>6 DEF UserWalks

\* After a step of handler h for u, which is left to do c.
LEMMA UserServed ==
    ASSUME UNCHANGED <<sections, steps>>, NEW u, NEW h \in Handlers, NEW c,
           DOMAIN call = Handlers, call' = [call EXCEPT ![h] = c],
           \A k \in Handlers \ {h} : ~Serves(call[k], u),
           NEW r, NEW m, progress'[u] = r, stepRow'[u] = m,
           IF Serves(c, u) THEN Fits(c, r, m) ELSE Rests(r, m)
    PROVE  UserWalks(u)'
<1>1. call'[h] = c /\ \A k \in Handlers \ {h} : call'[k] = call[k] /\ ~Serves(call'[k], u)
  OBVIOUS
<1>2. \A k \in Handlers : Serves(call'[k], u) => k = h /\ Serves(c, u)
  BY <1>1
<1>3. ASSUME NEW k \in Handlers, Serves(call'[k], u)
      PROVE  Fits(c, r, m)' /\ call'[k] = c
  <2>1. Fits(c, r, m)
    BY <1>2, <1>3
  <2>2. Fits(c, r, m)'
    BY <2>1, FitsStays
  <2>. QED
    BY <1>1, <1>2, <1>3, <2>2
<1>4. ASSUME \A k \in Handlers : ~Serves(call'[k], u)
      PROVE  Rests(r, m)'
  <2>1. Rests(r, m)
    BY <1>1, <1>4
  <2>. QED
    BY <2>1, RestsStays
<1>5. \A j, k \in Handlers : Serves(call'[j], u) /\ Serves(call'[k], u) => j = k
  BY <1>2
<1>. QED
  BY <1>3, <1>4, <1>5 DEF UserWalks

\* A step for w, of handler h, leaves the walks of the others alone.
LEMMA OthersStay ==
    ASSUME FunnelInv, WalkInv, UNCHANGED layout, disturbed \subseteq disturbed',
           NEW w \in Users, NEW h \in Handlers, NEW c, call' = [call EXCEPT ![h] = c],
           \A u \in Users : Serves(call[h], u) \/ Serves(c, u) => u = w,
           \A u \in Users \ {w} : progress'[u] = progress[u] /\ stepRow'[u] = stepRow[u],
           edits = 0 /\ Walkable /\ w \notin disturbed' => UserWalks(w)'
    PROVE  WalkInv'
<1>1. UNCHANGED <<sections, steps, edits>>
  BY DEF layout
<1>2. Walkable' = Walkable
  BY <1>1, LayoutStays
<1>3. SUFFICES ASSUME edits = 0, Walkable, NEW u \in Users, u \notin disturbed'
               PROVE  UserWalks(u)'
  BY <1>1, <1>2 DEF WalkInv
<1>4. CASE u = w
  BY <1>3, <1>4
<1>5. CASE u # w
  <2>1. UserWalks(u)
    BY <1>3 DEF WalkInv
  <2>2. DOMAIN call = Handlers
    BY DEF FunnelInv, CallsInv
  <2>3. \A k \in Handlers :
            call'[k] = call[k] \/ (~Serves(call[k], u) /\ ~Serves(call'[k], u))
    BY <1>5, <2>2
  <2>. QED
    BY <1>1, <1>5, <2>1, <2>3, UserStays
<1>. QED
  BY <1>4, <1>5

\* A step of handler h within a request of w.
LEMMA StepFits ==
    ASSUME FunnelInv, WalkInv, UNCHANGED <<layout, disturbed>>,
           NEW h \in Handlers, NEW w \in Users, NEW c, call' = [call EXCEPT ![h] = c],
           Serves(call[h], w), c = Idle \/ c.user = w,
           \A u \in Users \ {w} : progress'[u] = progress[u] /\ stepRow'[u] = stepRow[u],
           NEW r, NEW m, progress'[w] = r, stepRow'[w] = m,
           Walkable /\ Fits(call[h], progress[w], stepRow[w]) =>
               IF c = Idle THEN Rests(r, m) ELSE Serving(c) /\ Fits(c, r, m)
    PROVE  WalkInv'
<1>1. UNCHANGED <<sections, steps, edits>> /\ DOMAIN call = Handlers
  BY DEF layout, FunnelInv, CallsInv
<1>2. ASSUME edits = 0, Walkable, w \notin disturbed'
      PROVE  UserWalks(w)'
  <2>1. UserWalks(w)
    BY <1>2 DEF WalkInv
  <2>2. \A k \in Handlers \ {h} : ~Serves(call[k], w)
    BY <2>1 DEF UserWalks
  <2>3. Fits(call[h], progress[w], stepRow[w])
    BY <2>1 DEF UserWalks
  <2>4. IF Serves(c, w) THEN Fits(c, r, m) ELSE Rests(r, m)
    BY <1>2, <2>3, IdleServesNobody DEF Serves
  <2>. QED
    BY <1>1, <2>2, <2>4, UserServed
<1>3. \A u \in Users : Serves(call[h], u) \/ Serves(c, u) => u = w
  BY IdleServesNobody DEF Serves
<1>. QED
  BY <1>2, <1>3, OthersStay

\* A request of w that handler h begins to serve.
LEMMA BeginFits ==
    ASSUME FunnelInv, WalkInv, UNCHANGED layout,
           NEW h \in Handlers, NEW w \in Users, NEW odd, AskAs(w, odd),
           NEW c, call[h] = Idle, call' = [call EXCEPT ![h] = c],
           c = Idle \/ (Serving(c) /\ c.user = w),
           \A u \in Users \ {w} : progress'[u] = progress[u] /\ stepRow'[u] = stepRow[u],
           NEW r, NEW m, progress'[w] = r, stepRow'[w] = m,
           Walkable /\ ~odd /\ Rests(progress[w], stepRow[w]) =>
               IF c = Idle THEN Rests(r, m) ELSE Fits(c, r, m)
    PROVE  WalkInv'
<1>1. UNCHANGED <<sections, steps, edits>> /\ DOMAIN call = Handlers
  BY DEF layout, FunnelInv, CallsInv
<1>2. disturbed \subseteq disturbed' /\ (w \notin disturbed' => ~Busy(w) /\ ~odd)
  BY DEF AskAs
<1>3. ASSUME edits = 0, Walkable, w \notin disturbed'
      PROVE  UserWalks(w)'
  <2>1. UserWalks(w)
    BY <1>2, <1>3 DEF WalkInv
  <2>2. \A k \in Handlers : ~Serves(call[k], w)
    BY <1>2, <1>3, IdleServesNobody DEF Busy, Serves
  <2>3. IF Serves(c, w) THEN Fits(c, r, m) ELSE Rests(r, m)
    BY <1>2, <1>3, <2>1, <2>2, IdleServesNobody DEF UserWalks, Serves
  <2>. QED
    BY <1>1, <2>2, <2>3, UserServed
<1>4. \A u \in Users : Serves(call[h], u) \/ Serves(c, u) => u = w
  BY IdleServesNobody DEF Serves
<1>. QED
  BY <1>2, <1>3, <1>4, OthersStay

----------------------------------------------------------------------------
(* Every request is fit for what its user's row says *)

LEMMA PutOne ==
    ASSUME FunnelInv, NEW u \in Users, NEW row, Put(u, row)
    PROVE  progress'[u] = row /\ \A v \in Users \ {u} : progress'[v] = progress[v]
  BY DEF FunnelInv, RowsInv, Put

LEMMA MarkOne ==
    ASSUME FunnelInv, NEW u \in Users, NEW s, Mark(u, s)
    PROVE  /\ stepRow'[u] = [stepRow[u] EXCEPT ![s] = "done"]
           /\ \A v \in Users \ {u} : stepRow'[v] = stepRow[v]
  BY DEF FunnelInv, MarksInv, Mark

LEMMA GetOrCreateFits ==
    ASSUME FunnelInv, WalkInv, NEW h \in Handlers, NEW u \in Users, NEW odd, AskAs(u, odd),
           NEW goal, GoalOf(goal, u), Walkable /\ ~odd => FitsGoal(goal),
           GetOrCreateProgress(h, u, goal), UNCHANGED <<layout, walks>>
    PROVE  WalkInv'
<1>1. PICK r, m : r = progress[u] /\ m = stepRow[u]
  OBVIOUS
<1>2. /\ progress'[u] = r /\ stepRow'[u] = m
      /\ \A v \in Users \ {u} : progress'[v] = progress[v] /\ stepRow'[v] = stepRow[v]
  BY <1>1 DEF walks
<1>3. CASE Settled(r) /\ Admits(u, r, goal) /\ Begin(h, goal)
  <2>1. r # Absent
    BY <1>3 DEF Settled
  <2>2. goal = Idle \/ (goal.at \in OfUser /\ goal.user = u)
    BY DEF GoalOf, OfUser
  <2>3. ASSUME Walkable, ~odd, Rests(progress[u], stepRow[u])
        PROVE  IF goal = Idle THEN Rests(r, m) ELSE Fits(goal, r, m)
    BY <1>1, <1>3, <2>1, <2>3, GoalFits
  <2>4. goal = Idle \/ (Serving(goal) /\ goal.user = u)
    BY <2>2 DEF Serving
  <2>5. call[h] = Idle /\ call' = [call EXCEPT ![h] = goal] /\ UNCHANGED layout
    BY <1>3 DEF Begin
  <2>6. CASE goal = Idle
    <3>1. call' = [call EXCEPT ![h] = Idle]
      BY <2>5, <2>6
    <3>2. Rests(progress[u], stepRow[u]) => Rests(r, m)
      BY <1>1
    <3>. QED
      BY <1>2, <2>5, <3>1, <3>2, BeginFits
  <2>7. CASE goal # Idle
    <3>1. Walkable /\ ~odd /\ Rests(progress[u], stepRow[u]) => Fits(goal, r, m)
      BY <2>3, <2>7
    <3>. QED
      BY <1>2, <2>4, <2>5, <2>7, <3>1, BeginFits
  <2>. QED
    BY <2>6, <2>7
<1>4. CASE ~Settled(r) /\ Begin(h, Seed(u, goal))
  <2>1. PICK c : c = [at |-> "seed", user |-> u, fresh |-> progress[u] = Absent, goal |-> goal]
    OBVIOUS
  <2>2. c.at = "seed" /\ c.user = u /\ (c.fresh <=> r = Absent) /\ c.goal = goal
    BY <1>1, <2>1
  <2>3. c.at \in Seeding /\ c # Idle
    BY <2>2 DEF Seeding, Idle
  <2>4. ASSUME Walkable, ~odd, Rests(progress[u], stepRow[u])
        PROVE  Fits(c, r, m)
    BY <1>1, <1>4, <2>2, <2>4 DEF Fits, Seeding
  <2>5. call[h] = Idle /\ call' = [call EXCEPT ![h] = c]
    BY <1>4, <2>1 DEF Begin, Seed
  <2>. QED
    BY <1>2, <2>2, <2>3, <2>4, <2>5, BeginFits DEF Serving
<1>. QED
  BY <1>1, <1>3, <1>4 DEF GetOrCreateProgress

LEMMA GetProgressFits ==
    ASSUME FunnelInv, WalkInv, NEW h \in Handlers, NEW u \in Users, GetProgress(h, u)
    PROVE  WalkInv'
<1>1. GoalOf(Idle, u) /\ FitsGoal(Idle)
  BY DEF GoalOf, FitsGoal, Idle
<1>. QED
  BY <1>1, GetOrCreateFits DEF GetProgress, Ask

LEMMA BeginCompleteFits ==
    ASSUME FunnelInv, WalkInv, NEW h \in Handlers, NEW u \in Users, NEW s \in Steps,
           NEW w \in BOOLEAN, BeginComplete(h, u, s, w)
    PROVE  WalkInv'
<1>1. PICK c : c = [at |-> "mark", user |-> u, step |-> s,
                    section |-> steps[s].section, order |-> steps[s].order,
                    phone |-> steps[s].type = "PHONE_GATE"]
  OBVIOUS
<1>2. PICK odd : odd = (steps[s].type \in {"PHONE_GATE", "PAYMENT_GATE"})
  OBVIOUS
<1>3. c \in MarkCall /\ c.at = "mark" /\ c.user = u
  BY <1>1 DEF BeginComplete, FunnelInv, LayoutInv, Step, MarkCall
<1>4. GoalOf(c, u)
  BY <1>3 DEF GoalOf
<1>5. ~odd => FitsGoal(c)
  BY <1>1, <1>2 DEF FitsGoal, Carries, Plain
<1>6. GetOrCreateProgress(h, u, c) /\ AskAs(u, odd) /\ UNCHANGED <<layout, walks>>
  BY <1>1, <1>2 DEF BeginComplete
<1>. QED
  BY <1>4, <1>5, <1>6, GetOrCreateFits

LEMMA FindFirstStepFits ==
    ASSUME FunnelInv, WalkInv, NEW h \in Handlers, FindFirstStep(h)
    PROVE  WalkInv'
<1>1. PICK c : c = call[h]
  OBVIOUS
<1>2. c.at = "seed" /\ c.at \in Seeding /\ c.user \in Users
  BY <1>1 DEF FindFirstStep, FunnelInv, CallsInv, Holds, Seeding
<1>3. PICK u \in Users : u = c.user
  BY <1>2
<1>4. PICK r, m : r = progress[u] /\ m = stepRow[u]
  OBVIOUS
<1>5. PICK s \in FirstOfSections(ActiveSections), n \in Sections \cup {Absent} :
          Then(h, [at |-> "place", user |-> u, fresh |-> c.fresh, phone |-> FALSE,
                   section |-> n, step |-> s, goal |-> c.goal])
  BY <1>1, <1>3 DEF FindFirstStep
<1>6. PICK d : d = [at |-> "place", user |-> u, fresh |-> c.fresh, phone |-> FALSE,
                    section |-> n, step |-> s, goal |-> c.goal]
  OBVIOUS
<1>7. /\ d.at = "place" /\ d.user = u /\ d.fresh = c.fresh /\ d.phone = FALSE
      /\ d.step = s /\ d.goal = c.goal
  BY <1>6
<1>8. Serves(call[h], u) /\ UNCHANGED <<layout, disturbed, walks>>
  BY <1>1, <1>2, <1>3 DEF Serves, Serving, FindFirstStep
<1>9. /\ progress'[u] = r /\ stepRow'[u] = m
      /\ \A v \in Users \ {u} : progress'[v] = progress[v] /\ stepRow'[v] = stepRow[v]
  BY <1>4, <1>8 DEF walks
<1>10. ASSUME Walkable, Fits(call[h], progress[u], stepRow[u])
       PROVE  Fits(d, r, m)
  <2>1. Rests(r, m) /\ ~Settled(r) /\ (d.fresh <=> r = Absent) /\ FitsGoal(d.goal)
    BY <1>1, <1>2, <1>4, <1>7, <1>10 DEF Fits
  <2>2. IsFirst(s)
    BY <1>10, FirstStands DEF FunnelInv
  <2>. QED
    BY <1>7, <2>1, <2>2 DEF Fits
<1>11. Serving(d) /\ d # Idle
  BY <1>7 DEF Serving, Seeding, Idle
<1>. QED
  BY <1>5, <1>6, <1>7, <1>8, <1>9, <1>10, <1>11, StepFits DEF Then

LEMMA PlaceProgressFits ==
    ASSUME FunnelInv, WalkInv, NEW h \in Handlers, PlaceProgress(h)
    PROVE  WalkInv'
<1>1. PICK c : c = call[h]
  OBVIOUS
<1>2. /\ c.at = "place" /\ c.at \in Seeding /\ c.user \in Users /\ GoalOf(c.goal, c.user)
      /\ c.fresh \in BOOLEAN
      /\ c.step \in Steps \cup {NoStep} /\ c.section \in Sections \cup {Absent}
      /\ c.phone \in BOOLEAN /\ (c.fresh \/ progress[c.user] # Absent)
  BY <1>1 DEF PlaceProgress, FunnelInv, CallsInv, Holds, Seeding
<1>3. PICK u \in Users : u = c.user
  BY <1>2
<1>4. PICK r, m : r = progress[u] /\ m = stepRow[u]
  OBVIOUS
<1>5. PICK row : row = IF c.fresh THEN NewRow(c.section, c.step, c.phone)
                       ELSE [progress[u] EXCEPT !.step = c.step, !.section = c.section]
  OBVIOUS
<1>6. Serves(call[h], u) /\ UNCHANGED <<layout, disturbed, stepRow>>
  BY <1>1, <1>2, <1>3 DEF Serves, Serving, PlaceProgress
<1>7. CASE /\ IF c.fresh THEN r # Absent ELSE c.step = NoStep
           /\ End(h)
           /\ UNCHANGED <<progress, visited>>
  <2>1. ASSUME Walkable, Fits(call[h], progress[u], stepRow[u])
        PROVE  Rests(r, m)
    BY <1>1, <1>2, <1>4, <2>1 DEF Fits
  <2>2. /\ progress'[u] = r /\ stepRow'[u] = m
        /\ \A v \in Users \ {u} : progress'[v] = progress[v] /\ stepRow'[v] = stepRow[v]
    BY <1>4, <1>6, <1>7
  <2>. QED
    BY <1>6, <1>7, <2>1, <2>2, StepFits DEF End
<1>8. CASE /\ IF c.fresh THEN r = Absent ELSE c.step # NoStep
           /\ Put(u, row)
           /\ Then(h, IF Admits(u, row, c.goal) THEN c.goal ELSE Idle)
  <2>1. row # Absent
    BY <1>2, <1>3, <1>4, <1>5, <1>8, PlacedRow, RowAssumption
  <2>2. PICK d : d = IF Admits(u, row, c.goal) THEN c.goal ELSE Idle
    OBVIOUS
  <2>3. /\ progress'[u] = row /\ stepRow'[u] = m
        /\ \A v \in Users \ {u} : progress'[v] = progress[v] /\ stepRow'[v] = stepRow[v]
    BY <1>4, <1>6, <1>8, PutOne
  <2>4. ASSUME Walkable, Fits(call[h], progress[u], stepRow[u])
        PROVE  IF d = Idle THEN Rests(row, m) ELSE Serving(d) /\ Fits(d, row, m)
    <3>1. Rests(row, m)
      BY <1>1, <1>2, <1>4, <1>5, <2>1, <2>4, PlacedRests
    <3>2. FitsGoal(c.goal)
      BY <1>1, <1>2, <2>4 DEF Fits
    <3>3. Admits(u, row, c.goal) =>
              c.goal = Idle \/ (c.goal.at \in OfUser /\ c.goal.user = u /\ Fits(c.goal, row, m))
      BY <1>2, <1>3, <1>4, <2>1, <2>4, <3>1, <3>2, GoalFits
    <3>. QED
      BY <2>2, <3>1, <3>3 DEF Serving
  <2>5. d = Idle \/ d.user = u
    BY <1>2, <1>3, <2>2 DEF GoalOf
  <2>. QED
    BY <1>6, <1>8, <2>2, <2>3, <2>4, <2>5, StepFits DEF Then
<1>. QED
  BY <1>1, <1>3, <1>4, <1>5, <1>7, <1>8 DEF PlaceProgress

LEMMA MarkCompletedFits ==
    ASSUME FunnelInv, WalkInv, NEW h \in Handlers, MarkCompleted(h)
    PROVE  WalkInv'
<1>1. PICK c : c = call[h]
  OBVIOUS
<1>2. c.at = "mark" /\ c \in MarkCall
  BY <1>1 DEF MarkCompleted, FunnelInv, CallsInv, Holds
<1>3. PICK u \in Users : u = c.user
  BY <1>2 DEF MarkCall
<1>4. PICK s \in Steps : s = c.step
  BY <1>2 DEF MarkCall
<1>5. PICK r, m : r = progress[u] /\ m = stepRow[u]
  OBVIOUS
<1>6. Serves(call[h], u) /\ UNCHANGED <<layout, disturbed>>
  BY <1>1, <1>2, <1>3 DEF Serves, Serving, OfUser, MarkCompleted
<1>7. ASSUME Walkable, Fits(call[h], progress[u], stepRow[u])
      PROVE  OnStep(r, m, s) /\ Carries(c)
  BY <1>1, <1>2, <1>4, <1>5, <1>7 DEF Fits
<1>8. CASE steps[s] # Absent
  <2>1. PICK d : d = [c EXCEPT !.at = "find"]
    OBVIOUS
  <2>2. PICK n : n = [m EXCEPT ![s] = "done"]
    OBVIOUS
  <2>3. /\ call' = [call EXCEPT ![h] = d] /\ progress'[u] = r /\ stepRow'[u] = n
        /\ \A v \in Users \ {u} : progress'[v] = progress[v] /\ stepRow'[v] = stepRow[v]
    BY <1>1, <1>3, <1>4, <1>5, <1>8, <2>1, <2>2, MarkOne DEF MarkCompleted, Then
  <2>4. /\ d.at = "find" /\ d.user = u /\ d.step = s /\ d # Idle
        /\ d.section = c.section /\ d.order = c.order /\ d.phone = c.phone
    BY <1>2, <1>3, <1>4, <2>1 DEF MarkCall, Idle
  <2>5. ASSUME OnStep(r, m, s), Carries(c)
        PROVE  d.at \in OfUser /\ Fits(d, r, n)
    <3>1. \A t \in Steps : n[t] = "done" => t = s \/ m[t] = "done"
      BY <1>5, <2>2 DEF FunnelInv, MarksInv
    <3>2. DoneUpTo(n, s)
      BY <2>5, <3>1 DEF OnStep, DoneBefore, DoneUpTo, Stands
    <3>3. Leaving(r, n, s)
      BY <2>5, <3>2 DEF OnStep, Leaving
    <3>4. Carries(d)
      BY <1>4, <2>4, <2>5 DEF Carries
    <3>5. d.at \in OfUser
      BY <2>4 DEF OfUser
    <3>. QED
      BY <2>4, <3>3, <3>4, <3>5 DEF Fits, Seeding
  <2>6. Walkable /\ Fits(call[h], progress[u], stepRow[u]) =>
            IF d = Idle THEN Rests(r, n) ELSE Serving(d) /\ Fits(d, r, n)
    BY <1>7, <2>4, <2>5 DEF Serving
  <2>7. d = Idle \/ d.user = u
    BY <2>4
  <2>. QED
    BY <1>6, <2>3, <2>6, <2>7, StepFits
<1>9. CASE steps[s] = Absent
  <2>1. /\ call' = [call EXCEPT ![h] = Idle] /\ progress'[u] = r /\ stepRow'[u] = m
        /\ \A v \in Users \ {u} : progress'[v] = progress[v] /\ stepRow'[v] = stepRow[v]
    BY <1>1, <1>4, <1>5, <1>9 DEF MarkCompleted, End
  <2>2. ~(Walkable /\ Fits(call[h], progress[u], stepRow[u]))
    BY <1>7, <1>9, ActiveStep DEF OnStep, Stands, FunnelInv
  <2>. QED
    BY <1>6, <2>1, <2>2, StepFits
<1>. QED
  BY <1>8, <1>9

LEMMA FindNextStepFits ==
    ASSUME FunnelInv, WalkInv, NEW h \in Handlers, FindNextStep(h)
    PROVE  WalkInv'
<1>1. PICK c : c = call[h]
  OBVIOUS
<1>2. c.at = "find" /\ c \in MarkCall
  BY <1>1 DEF FindNextStep, FunnelInv, CallsInv, Holds
<1>3. PICK u \in Users : u = c.user
  BY <1>2 DEF MarkCall
<1>4. PICK s \in Steps : s = c.step
  BY <1>2 DEF MarkCall
<1>5. PICK r, m : r = progress[u] /\ m = stepRow[u]
  OBVIOUS
<1>6. PICK next \in NextAfter(c.section, c.order) :
          call' = [call EXCEPT ![h] = [at |-> "move", user |-> u, next |-> next,
                                       phone |-> c.phone]]
  BY <1>1, <1>3 DEF FindNextStep, Then
<1>7. PICK d : d = [at |-> "move", user |-> u, next |-> next, phone |-> c.phone]
  OBVIOUS
<1>8. /\ d.at = "move" /\ d.user = u /\ d.next = next /\ d.phone = c.phone
      /\ d.at \in OfUser /\ d # Idle
  BY <1>7 DEF OfUser, Idle
<1>9. Serves(call[h], u) /\ UNCHANGED <<layout, disturbed, walks>>
  BY <1>1, <1>2, <1>3 DEF Serves, Serving, OfUser, FindNextStep
<1>10. /\ progress'[u] = r /\ stepRow'[u] = m
       /\ \A v \in Users \ {u} : progress'[v] = progress[v] /\ stepRow'[v] = stepRow[v]
  BY <1>5, <1>9 DEF walks
<1>11. ASSUME Walkable, Fits(call[h], progress[u], stepRow[u])
       PROVE  Fits(d, r, m)
  <2>1. Leaving(r, m, s) /\ Carries(c)
    BY <1>1, <1>2, <1>4, <1>5, <1>11 DEF Fits
  <2>2. s # NoStep /\ steps[s] # Absent
    BY <2>1, ActiveStep, FunnelAssumption DEF Leaving, Stands, FunnelInv
  <2>3. next \in NextFromCurrent(s)
    BY <1>4, <1>6, <2>1, <2>2 DEF Carries, NextFromCurrent
  <2>. QED
    BY <1>4, <1>8, <2>1, <2>3 DEF Fits, Carries, Seeding
<1>. QED
  BY <1>6, <1>7, <1>8, <1>9, <1>10, <1>11, StepFits DEF Serving

LEMMA MoveOnFits ==
    ASSUME FunnelInv, WalkInv, NEW h \in Handlers, MoveOn(h)
    PROVE  WalkInv'
<1>1. PICK c : c = call[h]
  OBVIOUS
<1>2. c.at = "move" /\ c.at \in OfUser
  BY <1>1 DEF MoveOn, OfUser
<1>3. PICK u \in Users : u = c.user /\ progress[u] \in Row
  BY <1>1, <1>2, RowOf
<1>4. PICK r, m : r = progress[u] /\ m = stepRow[u]
  OBVIOUS
<1>5. PICK section : section = IF c.next # NoStep /\ steps[c.next] # Absent
                               THEN steps[c.next].section ELSE r.section
  OBVIOUS
<1>6. PICK new : new = [r EXCEPT !.step = c.next, !.section = section,
                                 !.phone = r.phone \/ c.phone,
                                 !.finished = r.finished \/ c.next = NoStep]
  OBVIOUS
<1>7. /\ Put(u, new) /\ call' = [call EXCEPT ![h] = Idle]
      /\ UNCHANGED <<layout, disturbed, stepRow>>
  BY <1>1, <1>3, <1>4, <1>5, <1>6 DEF MoveOn, End
<1>8. Serves(call[h], u)
  BY <1>1, <1>2, <1>3 DEF Serves, Serving
<1>9. /\ progress'[u] = new /\ stepRow'[u] = m
      /\ \A v \in Users \ {u} : progress'[v] = progress[v] /\ stepRow'[v] = stepRow[v]
  BY <1>4, <1>7, PutOne
<1>10. /\ new.step = c.next /\ new.answer = r.answer /\ new.paid = r.paid
       /\ new.phone = (r.phone \/ c.phone)
       /\ new.finished = (r.finished \/ c.next = NoStep)
  BY <1>3, <1>4, <1>6 DEF Row
<1>11. ASSUME Walkable, Fits(call[h], progress[u], stepRow[u])
       PROVE  Rests(new, m)
  <2>1. ~c.phone /\ \E s \in Steps : Leaving(r, m, s) /\ Plain(s) /\ c.next \in NextFromCurrent(s)
    BY <1>1, <1>2, <1>4, <1>11 DEF Fits
  <2>2. PICK s \in ActiveSteps : Leaving(r, m, s) /\ Plain(s) /\ c.next \in NextFromCurrent(s)
    BY <2>1 DEF Leaving, Stands
  <2>3. new.phone = r.phone
    BY <1>3, <1>4, <1>10, <2>1 DEF Row
  <2>4. /\ \A t \in OfType("PHONE_GATE") : t = s \/ Before(t, s) => new.phone
        /\ \A t \in OfType("PAYMENT_GATE") : t = s \/ Before(t, s) => new.paid
        /\ new.paid => new.phone
    BY <1>10, <2>2, <2>3, TypesDiffer DEF Leaving, Stands, GatesPassed, Plain
  <2>5. new.answer = "none" /\ DoneUpTo(m, s)
    BY <1>10, <2>2 DEF Leaving, Stands
  <2>6. PICK next \in NextFromCurrent(s) : next = c.next
    BY <2>2
  <2>7. IF next = NoStep THEN new.phone /\ new.paid ELSE OnStep(new, m, next)
    <3>1. new.step = next /\ LayoutInv
      BY <1>10, <2>6 DEF FunnelInv
    <3>. QED
      BY <1>11, <2>4, <2>5, <3>1, MovesOn, Zenon
  <2>8. new # Absent
    <3>1. new.step = next /\ (next = NoStep \/ next \in Steps)
      BY <1>10, <2>6, <2>7, ActiveStep DEF OnStep, Stands, FunnelInv
    <3>2. PICK old \in Row : old = r
      BY <1>3, <1>4
    <3>3. section \in Sections \cup {Absent} /\ c.next \in Steps \cup {NoStep} /\ c.phone \in BOOLEAN
      BY <1>1, <1>2, <1>3, <1>4, <1>5, <3>1
      DEF FunnelInv, LayoutInv, CallsInv, Holds, Row, Step
    <3>4. new \in Row
      BY <1>6, <3>2, <3>3 DEF Row
    <3>. QED
      BY <3>4, RowAssumption
  <2>. QED
    BY <1>10, <2>6, <2>7, <2>8 DEF Rests, Finished, Through
<1>. QED
  BY <1>7, <1>8, <1>9, <1>11, StepFits

LEMMA BeginPingFits ==
    ASSUME FunnelInv, WalkInv, NEW h \in Handlers, NEW u \in Users, NEW s \in Steps,
           BeginPing(h, u, s)
    PROVE  WalkInv'
<1>1. PICK ping : ping = [at |-> "ping", user |-> u, step |-> s]
  OBVIOUS
<1>2. PICK c : c = IF progress[u] = Absent
                   THEN [at |-> "seed", user |-> u, fresh |-> progress[u] = Absent, goal |-> ping]
                   ELSE ping
  OBVIOUS
<1>3. PICK r, m : r = progress[u] /\ m = stepRow[u]
  OBVIOUS
<1>4. /\ UNCHANGED layout /\ AskAs(u, FALSE)
      /\ call[h] = Idle /\ call' = [call EXCEPT ![h] = c]
      /\ progress'[u] = r /\ stepRow'[u] = m
      /\ \A v \in Users \ {u} : progress'[v] = progress[v] /\ stepRow'[v] = stepRow[v]
  BY <1>1, <1>2, <1>3 DEF BeginPing, Begin, Ask, Seed, walks
<1>5. c # Idle /\ Serving(c) /\ c.user = u
  BY <1>1, <1>2 DEF Serving, OfUser, Seeding, Idle
<1>6. ASSUME Walkable, Rests(progress[u], stepRow[u])
      PROVE  Fits(c, r, m)
  <2>1. CASE progress[u] = Absent
    <3>1. c.at = "seed" /\ c.fresh = TRUE /\ c.goal = ping /\ ping.at = "ping"
      BY <1>1, <1>2, <2>1
    <3>. QED
      BY <1>3, <1>6, <2>1, <3>1 DEF Fits, Seeding, Settled, FitsGoal
  <2>2. CASE progress[u] # Absent
    BY <1>1, <1>2, <1>3, <1>6, <2>2 DEF Fits, Seeding
  <2>. QED
    BY <2>1, <2>2
<1>. QED
  BY <1>4, <1>5, <1>6, BeginFits

LEMMA SameDone ==
    ASSUME LayoutInv, NEW r, NEW m, NEW n, Rests(r, m),
           \A t \in Steps : n[t] = "done" <=> m[t] = "done"
    PROVE  Rests(r, n)
<1>1. NothingDone(m) => NothingDone(n)
  BY DEF NothingDone
<1>2. \A s : DoneBefore(m, s) => DoneBefore(n, s)
  BY DEF DoneBefore
<1>3. Declined(r, r.step) => r.step \in Steps
  BY ActiveStep DEF Declined
<1>. QED
  BY <1>1, <1>2, <1>3 DEF Rests, Unplaced, OnStep

LEMMA PingFits ==
    ASSUME FunnelInv, WalkInv, NEW h \in Handlers, Ping(h)
    PROVE  WalkInv'
<1>1. PICK c : c = call[h]
  OBVIOUS
<1>2. c.at = "ping" /\ c.at \in OfUser /\ c.step \in Steps
  BY <1>1 DEF Ping, OfUser, FunnelInv, CallsInv, Holds
<1>3. PICK u \in Users : u = c.user
  BY <1>1, <1>2, RowOf
<1>4. PICK s \in Steps : s = c.step
  BY <1>2
<1>5. PICK r, m : r = progress[u] /\ m = stepRow[u]
  OBVIOUS
<1>6. PICK n : n = stepRow'[u]
  OBVIOUS
<1>7. /\ Serves(call[h], u) /\ UNCHANGED <<layout, disturbed, progress>>
      /\ call' = [call EXCEPT ![h] = Idle]
  BY <1>1, <1>2, <1>3 DEF Serves, Serving, Ping, End
<1>8. stepRow' = [stepRow EXCEPT ![u][s] =
                      IF steps[s] # Absent /\ @ = "none" THEN "open" ELSE @]
  BY <1>1, <1>3, <1>4 DEF Ping
<1>9. stepRow \in [Users -> [Steps -> {"none", "open", "done"}]]
  BY DEF FunnelInv, MarksInv
<1>10. /\ \A t \in Steps : n[t] = "done" <=> m[t] = "done"
       /\ \A v \in Users \ {u} : stepRow'[v] = stepRow[v]
  BY <1>5, <1>6, <1>8, <1>9
<1>11. ASSUME Fits(call[h], progress[u], stepRow[u])
       PROVE  Rests(r, n)
  <2>1. Rests(r, m)
    BY <1>1, <1>2, <1>5, <1>11 DEF Fits
  <2>. QED
    BY <2>1, <1>10, SameDone DEF FunnelInv
<1>12. /\ progress'[u] = r
       /\ \A v \in Users \ {u} : progress'[v] = progress[v] /\ stepRow'[v] = stepRow[v]
  BY <1>5, <1>7, <1>10
<1>. QED
  BY <1>6, <1>7, <1>11, <1>12, StepFits

LEMMA BeginDecisionFits ==
    ASSUME FunnelInv, WalkInv, NEW h \in Handlers, NEW u \in Users, NEW s \in Steps,
           NEW a \in {"YES", "NO"}, BeginDecision(h, u, s, a)
    PROVE  WalkInv'
<1>1. PICK c : c = [at |-> "decide", user |-> u, step |-> s, answer |-> a]
  OBVIOUS
<1>2. GoalOf(c, u) /\ FitsGoal(c)
  BY <1>1 DEF GoalOf, FitsGoal
<1>. QED
  BY <1>1, <1>2, GetOrCreateFits DEF BeginDecision, Ask

LEMMA RecordDecisionFits ==
    ASSUME FunnelInv, WalkInv, NEW h \in Handlers, RecordDecision(h)
    PROVE  WalkInv'
<1>1. PICK c : c = call[h]
  OBVIOUS
<1>2. c.at = "decide" /\ c.at \in OfUser
  BY <1>1 DEF RecordDecision, OfUser
<1>3. PICK u \in Users : u = c.user /\ progress[u] \in Row
  BY <1>1, <1>2, RowOf
<1>4. PICK r, m : r = progress[u] /\ m = stepRow[u]
  OBVIOUS
<1>5. PICK new : new = IF c.answer = "YES"
                       THEN [r EXCEPT !.answer = "YES", !.step = NoStep, !.finished = TRUE]
                       ELSE [r EXCEPT !.answer = "NO", !.step = c.step]
  OBVIOUS
<1>6. PICK d : d = [at |-> "decided", user |-> u, step |-> c.step]
  OBVIOUS
<1>7. /\ Put(u, new) /\ call' = [call EXCEPT ![h] = d]
      /\ UNCHANGED <<layout, disturbed, stepRow>>
  BY <1>1, <1>3, <1>4, <1>5, <1>6 DEF RecordDecision, Then
<1>8. Serves(call[h], u)
  BY <1>1, <1>2, <1>3 DEF Serves, Serving
<1>9. /\ progress'[u] = new /\ stepRow'[u] = m
      /\ \A v \in Users \ {u} : progress'[v] = progress[v] /\ stepRow'[v] = stepRow[v]
  BY <1>4, <1>7, PutOne
<1>10. d.at = "decided" /\ d.at \in OfUser /\ d.user = u /\ d.step = c.step /\ d # Idle
  BY <1>6 DEF OfUser, Idle
<1>11. /\ new.paid = r.paid /\ new.phone = r.phone
       /\ \/ new.step = NoStep /\ new.finished
          \/ new.step = c.step /\ new.answer = "NO"
  BY <1>3, <1>4, <1>5 DEF Row
<1>12. ASSUME Walkable, Fits(call[h], progress[u], stepRow[u])
       PROVE  Fits(d, new, m)
  <2>1. c.step \in ActiveSteps /\ Through(r)
    BY <1>1, <1>2, <1>4, <1>12 DEF Fits
  <2>2. Finished(new) \/ Declined(new, c.step)
    BY <1>11, <2>1 DEF Finished, Declined, Through
  <2>. QED
    BY <1>10, <2>2 DEF Fits, Seeding
<1>13. Walkable /\ Fits(call[h], progress[u], stepRow[u]) =>
           IF d = Idle THEN Rests(new, m) ELSE d.at \in OfUser /\ Fits(d, new, m)
  BY <1>10, <1>12
<1>14. UNCHANGED <<layout, disturbed>> /\ (d = Idle \/ d.user = u)
  BY <1>7, <1>10
<1>. QED
  BY <1>7, <1>8, <1>9, <1>13, <1>14, StepFits DEF Serving

LEMMA MarkDecidedFits ==
    ASSUME FunnelInv, WalkInv, NEW h \in Handlers, MarkDecided(h)
    PROVE  WalkInv'
<1>1. PICK c : c = call[h]
  OBVIOUS
<1>2. c.at = "decided" /\ c.at \in OfUser
  BY <1>1 DEF MarkDecided, OfUser
<1>3. PICK u \in Users : u = c.user /\ progress[u] \in Row
  BY <1>1, <1>2, RowOf
<1>4. PICK s \in Steps : s = c.step
  BY <1>1, <1>2 DEF FunnelInv, CallsInv, Holds, RowsInv
<1>5. PICK r, m : r = progress[u] /\ m = stepRow[u]
  OBVIOUS
<1>6. PICK n : n = stepRow'[u]
  OBVIOUS
<1>7. /\ Serves(call[h], u) /\ UNCHANGED <<layout, disturbed, progress>>
      /\ call' = [call EXCEPT ![h] = Idle]
  BY <1>1, <1>2, <1>3 DEF Serves, Serving, MarkDecided, End
<1>8. /\ \A v \in Users \ {u} : stepRow'[v] = stepRow[v]
      /\ steps[s] # Absent => n[s] = "done"
  <2>1. IF steps[s] # Absent THEN Mark(u, s) ELSE UNCHANGED stepRow
    BY <1>1, <1>3, <1>4 DEF MarkDecided
  <2>2. stepRow \in [Users -> [Steps -> {"none", "open", "done"}]]
    BY DEF FunnelInv, MarksInv
  <2>3. CASE steps[s] # Absent
    <3>1. /\ stepRow'[u] = [stepRow[u] EXCEPT ![s] = "done"]
          /\ \A v \in Users \ {u} : stepRow'[v] = stepRow[v]
      BY <2>1, <2>3, MarkOne
    <3>. QED
      BY <1>6, <2>2, <3>1
  <2>4. CASE steps[s] = Absent
    BY <2>1, <2>4
  <2>. QED
    BY <2>3, <2>4
<1>9. ASSUME Fits(call[h], progress[u], stepRow[u])
      PROVE  Rests(r, n)
  <2>1. Finished(r) \/ Declined(r, s)
    BY <1>1, <1>2, <1>4, <1>5, <1>9 DEF Fits
  <2>2. Declined(r, s) => r.step = s /\ n[s] = "done"
    BY <1>8, ActiveStep DEF Declined, FunnelInv
  <2>3. r # Absent
    BY <1>3, <1>5, RowAssumption
  <2>. QED
    BY <2>1, <2>2, <2>3 DEF Rests
<1>10. /\ progress'[u] = r
       /\ \A v \in Users \ {u} : progress'[v] = progress[v] /\ stepRow'[v] = stepRow[v]
  BY <1>5, <1>7, <1>8
<1>. QED
  BY <1>6, <1>7, <1>9, <1>10, StepFits

\* Whose gates are not behind them is not on the last step.
LEMMA GoesOn ==
    ASSUME LayoutInv, Walkable, NEW s \in ActiveSteps, NEW next \in NextFromCurrent(s),
           NEW r, ((~r.phone \/ ~r.paid) /\ GatesPassed(r, s)) \/ s \in OfType("PAYMENT_GATE")
    PROVE  next # NoStep
<1>. SUFFICES ASSUME next = NoStep PROVE FALSE
  OBVIOUS
<1>1. \A t \in ActiveSteps : ~Before(s, t)
  BY WalkableIs, NextFollows
<1>2. /\ Plain(s)
      /\ \E t \in OfType("PHONE_GATE") : Before(t, s)
      /\ \E t \in OfType("PAYMENT_GATE") : Before(t, s)
  BY <1>1, LastIsDecision
<1>. QED
  BY <1>2, TypesDiffer DEF GatesPassed, Plain

LEMMA BeginPhoneFits ==
    ASSUME FunnelInv, WalkInv, NEW h \in Handlers, NEW u \in Users, BeginPhone(h, u)
    PROVE  WalkInv'
<1>1. PICK m : m = stepRow[u]
  OBVIOUS
<1>2. PICK odd : odd = (progress[u] # Absent /\ progress[u].phone)
  OBVIOUS
<1>3. UNCHANGED <<layout, stepRow>> /\ AskAs(u, odd)
  BY <1>2 DEF BeginPhone, walks
<1>4. CASE progress[u] = Absent
  <2>1. PICK c : c = [at |-> "place", user |-> u, fresh |-> TRUE, phone |-> TRUE,
                      section |-> Absent, step |-> NoStep, goal |-> Idle]
    OBVIOUS
  <2>2. call[h] = Idle /\ call' = [call EXCEPT ![h] = c]
    BY <1>4, <2>1 DEF BeginPhone, Begin
  <2>3. /\ c.at = "place" /\ c.user = u /\ c.fresh = TRUE /\ c.phone = TRUE
        /\ c.step = NoStep /\ c.goal = Idle
    BY <2>1
  <2>4. Serving(c) /\ c # Idle
    BY <2>3 DEF Serving, Seeding, Idle
  <2>5. ASSUME Rests(progress[u], stepRow[u])
        PROVE  Fits(c, progress[u], m)
    BY <1>1, <1>4, <2>3, <2>5 DEF Fits, Seeding, Settled, FitsGoal, Idle
  <2>6. /\ progress'[u] = progress[u] /\ stepRow'[u] = m
        /\ \A v \in Users \ {u} : progress'[v] = progress[v] /\ stepRow'[v] = stepRow[v]
    BY <1>1 DEF BeginPhone, walks
  <2>. QED
    BY <1>3, <2>2, <2>3, <2>4, <2>5, <2>6, BeginFits
<1>5. CASE progress[u] # Absent
  <2>1. PICK r : r = progress[u]
    OBVIOUS
  <2>2. PICK next \in NextFromCurrent(r.step) :
            Begin(h, [at |-> "phone", user |-> u, step |-> r.step, next |-> next])
    BY <1>5, <2>1 DEF BeginPhone
  <2>3. PICK c : c = [at |-> "phone", user |-> u, step |-> r.step, next |-> next]
    OBVIOUS
  <2>4. /\ c.at = "phone" /\ c # Idle /\ Serving(c) /\ c.user = u
        /\ c.step = r.step /\ c.next = next
    BY <2>3 DEF OfUser, Serving, Idle
  <2>5. ASSUME Walkable, ~odd, Rests(progress[u], stepRow[u])
        PROVE  Fits(c, r, m)
    <3>1. Rests(r, m) /\ r # Absent /\ ~r.phone
      BY <1>1, <1>2, <1>5, <2>1, <2>5
    <3>2. OnStep(r, m, r.step)
      BY <3>1 DEF Rests, Unplaced, Finished, Declined, Through
    <3>. QED
      BY <2>2, <2>4, <3>1, <3>2 DEF Fits, Seeding
  <2>6. /\ progress'[u] = r /\ stepRow'[u] = m /\ call[h] = Idle
        /\ call' = [call EXCEPT ![h] = c]
        /\ \A v \in Users \ {u} : progress'[v] = progress[v] /\ stepRow'[v] = stepRow[v]
    BY <1>1, <1>3, <1>5, <2>1, <2>2, <2>3 DEF BeginPhone, Begin, walks
  <2>. QED
    BY <1>3, <2>4, <2>5, <2>6, BeginFits
<1>. QED
  BY <1>4, <1>5

LEMMA MarkPhoneFits ==
    ASSUME FunnelInv, WalkInv, NEW h \in Handlers, MarkPhone(h)
    PROVE  WalkInv'
<1>1. PICK c : c = call[h]
  OBVIOUS
<1>2. c.at = "phone" /\ c \in PhoneCall
  BY <1>1 DEF MarkPhone, FunnelInv, CallsInv, Holds
<1>3. PICK u \in Users : u = c.user
  BY <1>2 DEF PhoneCall
<1>4. PICK r, m : r = progress[u] /\ m = stepRow[u]
  OBVIOUS
<1>5. Serves(call[h], u) /\ UNCHANGED <<layout, disturbed, progress>>
  BY <1>1, <1>2, <1>3 DEF Serves, Serving, OfUser, MarkPhone
<1>6. PICK d : d = [c EXCEPT !.at = "verified"]
  OBVIOUS
<1>7. /\ d.at = "verified" /\ d.user = u /\ d.step = c.step /\ d.next = c.next
      /\ d # Idle /\ d.at \in OfUser
  BY <1>2, <1>3, <1>6 DEF PhoneCall, Idle, OfUser
<1>8. ASSUME Walkable, Fits(call[h], progress[u], stepRow[u])
      PROVE  OnStep(r, m, c.step) /\ ~r.phone /\ c.next \in NextFromCurrent(c.step)
  BY <1>1, <1>2, <1>4, <1>8 DEF Fits
<1>9. CASE c.step # NoStep /\ steps[c.step] # Absent
  <2>1. PICK s \in Steps : s = c.step
    BY <1>2, <1>9 DEF PhoneCall
  <2>2. PICK n : n = [m EXCEPT ![s] = "done"]
    OBVIOUS
  <2>3. /\ call' = [call EXCEPT ![h] = d] /\ progress'[u] = r /\ stepRow'[u] = n
        /\ \A v \in Users \ {u} : progress'[v] = progress[v] /\ stepRow'[v] = stepRow[v]
    <3>1. Mark(u, s) /\ call' = [call EXCEPT ![h] = d]
      BY <1>1, <1>3, <1>6, <1>9, <2>1 DEF MarkPhone, Then
    <3>. QED
      BY <1>4, <1>5, <2>2, <3>1, MarkOne
  <2>4. ASSUME Walkable, Fits(call[h], progress[u], stepRow[u])
        PROVE  Fits(d, r, n)
    <3>1. OnStep(r, m, s) /\ ~r.phone /\ d.next \in NextFromCurrent(s) /\ d.step = s
      BY <1>7, <1>8, <2>1, <2>4
    <3>2. \A t \in Steps : n[t] = "done" => t = s \/ m[t] = "done"
      BY <1>4, <2>2 DEF FunnelInv, MarksInv
    <3>3. DoneUpTo(n, s)
      BY <3>1, <3>2 DEF OnStep, DoneBefore, DoneUpTo, Stands
    <3>4. Leaving(r, n, s)
      BY <3>1, <3>3 DEF OnStep, Leaving
    <3>. QED
      BY <1>7, <3>1, <3>4 DEF Fits, Seeding
  <2>5. Walkable /\ Fits(call[h], progress[u], stepRow[u]) =>
            IF d = Idle THEN Rests(r, n) ELSE Serving(d) /\ Fits(d, r, n)
    BY <1>7, <2>4 DEF Serving
  <2>6. UNCHANGED <<layout, disturbed>> /\ (d = Idle \/ d.user = u)
    BY <1>5, <1>7
  <2>. QED
    BY <1>5, <2>3, <2>5, <2>6, StepFits
<1>10. CASE c.step = NoStep \/ steps[c.step] = Absent
  <2>1. PICK e : /\ e = Idle \/ e = d
                 /\ call' = [call EXCEPT ![h] = e] /\ UNCHANGED stepRow
    BY <1>1, <1>6, <1>10 DEF MarkPhone, Then, End
  <2>2. e = Idle \/ e.user = u
    BY <2>1, <1>7
  <2>3. ~(Walkable /\ Fits(call[h], progress[u], stepRow[u]))
    BY <1>8, <1>10, ActiveStep, FunnelAssumption DEF OnStep, Stands, FunnelInv
  <2>4. /\ progress'[u] = r /\ stepRow'[u] = m
        /\ \A v \in Users \ {u} : progress'[v] = progress[v] /\ stepRow'[v] = stepRow[v]
    BY <1>4, <1>5, <2>1
  <2>5. UNCHANGED <<layout, disturbed>>
    BY <1>5
  <2>. QED
    BY <1>5, <2>1, <2>2, <2>3, <2>4, <2>5, StepFits
<1>. QED
  BY <1>9, <1>10

LEMMA VerifyPhoneFits ==
    ASSUME FunnelInv, WalkInv, NEW h \in Handlers, VerifyPhone(h)
    PROVE  WalkInv'
<1>1. PICK c : c = call[h]
  OBVIOUS
<1>2. c.at = "verified" /\ c.at \in OfUser /\ c \in PhoneCall
  BY <1>1 DEF VerifyPhone, OfUser, FunnelInv, CallsInv, Holds
<1>3. PICK u \in Users : u = c.user /\ progress[u] \in Row
  BY <1>1, <1>2, RowOf
<1>4. PICK r \in Row : r = progress[u]
  BY <1>3
<1>5. PICK m : m = stepRow[u]
  OBVIOUS
<1>6. PICK moved : moved = IF c.next # NoStep /\ steps[c.next] = Absent
                           THEN [r EXCEPT !.step = c.next] ELSE Moved(r, c.next)
  OBVIOUS
<1>7. PICK new : new = [moved EXCEPT !.phone = TRUE]
  OBVIOUS
<1>8. /\ Put(u, new) /\ call' = [call EXCEPT ![h] = Idle]
      /\ UNCHANGED <<layout, disturbed, stepRow>>
  BY <1>1, <1>3, <1>4, <1>6, <1>7 DEF VerifyPhone, End
<1>9. Serves(call[h], u)
  BY <1>1, <1>2, <1>3 DEF Serves, Serving
<1>10. /\ progress'[u] = new /\ stepRow'[u] = m
       /\ \A v \in Users \ {u} : progress'[v] = progress[v] /\ stepRow'[v] = stepRow[v]
  BY <1>5, <1>8, PutOne
<1>11. moved \in Row /\ moved.paid = r.paid /\ moved.answer = r.answer /\ moved.step = c.next
  <2>1. c.next \in Steps \cup {NoStep}
    BY <1>2 DEF PhoneCall
  <2>2. CASE c.next # NoStep /\ steps[c.next] = Absent
    BY <1>6, <2>1, <2>2 DEF Row
  <2>3. CASE ~(c.next # NoStep /\ steps[c.next] = Absent)
    <3>1. moved = Moved(r, c.next) /\ c.next \in Existing \cup {NoStep}
      BY <1>6, <2>1, <2>3 DEF Existing
    <3>2. moved \in Row /\ moved.paid = r.paid /\ moved.answer = r.answer
      BY <3>1, MovedIsRow
    <3>. QED
      BY <3>1, <3>2 DEF Moved, Row
  <2>. QED
    BY <2>2, <2>3
<1>12. /\ new \in Row /\ new.paid = r.paid /\ new.answer = r.answer
       /\ new.step = c.next /\ new.phone
  BY <1>7, <1>11 DEF Row
<1>13. ASSUME Walkable, Fits(call[h], progress[u], stepRow[u])
       PROVE  Rests(new, m)
  <2>1. LayoutInv
    BY DEF FunnelInv
  <2>2. Leaving(r, m, c.step) /\ ~r.phone /\ c.next \in NextFromCurrent(c.step)
    BY <1>1, <1>2, <1>4, <1>5, <1>13 DEF Fits
  <2>3. PICK s \in ActiveSteps : s = c.step
    BY <2>2 DEF Leaving, Stands
  <2>4. PICK next \in NextFromCurrent(s) : next = c.next
    BY <2>2, <2>3
  <2>5. DoneUpTo(m, s) /\ GatesPassed(r, s) /\ r.answer = "none"
    BY <2>2, <2>3 DEF Leaving, Stands
  <2>6. next # NoStep
    BY <1>13, <2>1, <2>2, <2>5, GoesOn
  <2>7. ASSUME NEW t \in OfType("PAYMENT_GATE"), t = s \/ Before(t, s)
        PROVE  new.paid
    <3>1. CASE Before(t, s)
      BY <1>12, <2>5, <3>1 DEF GatesPassed
    <3>2. CASE t = s
      <4>1. PICK q \in OfType("PHONE_GATE") : Before(q, s)
        BY <1>13, <2>1, <3>2, PhoneComesFirst
      <4>. QED
        BY <2>2, <2>5, <4>1 DEF GatesPassed
    <3>. QED
      BY <2>7, <3>1, <3>2
  <2>8. /\ new.step = next /\ new.answer = "none" /\ (new.paid => new.phone)
        /\ \A t \in OfType("PHONE_GATE") : t = s \/ Before(t, s) => new.phone
    BY <1>12, <2>4, <2>5
  <2>9. IF next = NoStep THEN new.phone /\ new.paid ELSE OnStep(new, m, next)
    BY <1>13, <2>1, <2>5, <2>7, <2>8, MovesOn, Zenon
  <2>. QED
    BY <1>12, <2>6, <2>8, <2>9, RowAssumption DEF Rests
<1>. QED
  BY <1>8, <1>9, <1>10, <1>13, StepFits

LEMMA BeginCaptureFits ==
    ASSUME FunnelInv, WalkInv, NEW h \in Handlers, NEW u \in Users, BeginCapture(h, u)
    PROVE  WalkInv'
<1>1. PICK r, m : r = progress[u] /\ m = stepRow[u]
  OBVIOUS
<1>2. PICK gate \in (IF OfType("PAYMENT_GATE") = {} THEN {NoStep} ELSE OfType("PAYMENT_GATE")) :
          Begin(h, [at |-> "capture", user |-> u,
                    step |-> IF r.step # NoStep THEN r.step ELSE gate])
  BY <1>1 DEF BeginCapture
<1>3. PICK c : c = [at |-> "capture", user |-> u,
                    step |-> IF r.step # NoStep THEN r.step ELSE gate]
  OBVIOUS
<1>4. /\ c.at = "capture" /\ c # Idle /\ Serving(c) /\ c.user = u
      /\ c.step = IF r.step # NoStep THEN r.step ELSE gate
  BY <1>3 DEF OfUser, Serving, Idle
<1>5. /\ UNCHANGED layout /\ AskAs(u, r.paid)
      /\ call[h] = Idle /\ call' = [call EXCEPT ![h] = c]
      /\ progress'[u] = r /\ stepRow'[u] = m
      /\ \A v \in Users \ {u} : progress'[v] = progress[v] /\ stepRow'[v] = stepRow[v]
  BY <1>1, <1>2, <1>3 DEF BeginCapture, Begin, Ask, walks
<1>6. r # Absent /\ r.phone
  BY <1>1 DEF BeginCapture
<1>7. ASSUME Walkable, ~r.paid, Rests(progress[u], stepRow[u])
      PROVE  Fits(c, r, m)
  <2>1. Unplaced(r, m) \/ OnStep(r, m, r.step)
    BY <1>1, <1>6, <1>7 DEF Rests, Finished, Declined, Through
  <2>2. CASE Unplaced(r, m)
    <3>1. c.step \in OfType("PAYMENT_GATE")
      BY <1>2, <1>4, <1>7, <2>2, WalkableIs DEF Unplaced
    <3>. QED
      BY <1>4, <1>6, <1>7, <2>2, <3>1 DEF Fits, Seeding
  <2>3. CASE OnStep(r, m, r.step)
    <3>1. c.step = r.step
      BY <1>4, <2>3, ActiveStep, FunnelAssumption DEF OnStep, Stands, FunnelInv
    <3>. QED
      BY <1>4, <1>6, <1>7, <2>3, <3>1 DEF Fits, Seeding
  <2>. QED
    BY <2>1, <2>2, <2>3
<1>. QED
  BY <1>4, <1>5, <1>7, BeginFits

\* What a captured payment makes of the row.
LEMMA PaidRests ==
    ASSUME LayoutInv, Walkable, NEW r \in Row, NEW m \in [Steps -> {"none", "open", "done"}],
           NEW s \in ActiveSteps, r.phone, ~r.paid,
           OnStep(r, m, s) \/ (Unplaced(r, m) /\ s \in OfType("PAYMENT_GATE")),
           NEW next \in NextFromCurrent(s), NEW new \in Row,
           new.step = next, new.paid, new.phone = r.phone, new.answer = r.answer,
           NEW n, n = [m EXCEPT ![s] = "done"]
    PROVE  Rests(new, n)
<1>1. \A t \in Steps : n[t] = "done" => t = s \/ m[t] = "done"
  OBVIOUS
<1>2. r.answer = "none"
  BY DEF OnStep, Stands, Unplaced
<1>3. DoneUpTo(n, s)
  <2>1. CASE OnStep(r, m, s)
    BY <1>1, <2>1 DEF OnStep, DoneBefore, DoneUpTo
  <2>2. CASE Unplaced(r, m)
    BY <1>1, <2>2 DEF Unplaced, NothingDone, DoneUpTo
  <2>. QED
    BY <2>1, <2>2
<1>4. next # NoStep
  <2>1. ((~r.phone \/ ~r.paid) /\ GatesPassed(r, s)) \/ s \in OfType("PAYMENT_GATE")
    BY DEF OnStep, Stands
  <2>. QED
    BY <2>1, GoesOn
<1>5. IF next = NoStep THEN new.phone /\ new.paid ELSE OnStep(new, n, next)
  <2>1. new.answer = "none" /\ new.phone
    BY <1>2
  <2>. QED
    BY <1>3, <2>1, MovesOn
<1>. QED
  BY <1>4, <1>5, RowAssumption DEF Rests

LEMMA ProcessSuccessfulPaymentFits ==
    ASSUME FunnelInv, WalkInv, NEW h \in Handlers, ProcessSuccessfulPayment(h)
    PROVE  WalkInv'
<1>1. PICK c : c = call[h]
  OBVIOUS
<1>2. c.at = "capture" /\ c.at \in OfUser /\ c.step \in Steps \cup {NoStep}
  BY <1>1 DEF ProcessSuccessfulPayment, OfUser, FunnelInv, CallsInv, Holds
<1>3. PICK u \in Users : u = c.user /\ progress[u] \in Row
  BY <1>1, <1>2, RowOf
<1>4. PICK r \in Row : r = progress[u]
  BY <1>3
<1>5. PICK m \in [Steps -> {"none", "open", "done"}] : m = stepRow[u]
  BY DEF FunnelInv, MarksInv
<1>6. /\ Serves(call[h], u) /\ UNCHANGED <<layout, disturbed>>
      /\ call' = [call EXCEPT ![h] = Idle]
  BY <1>1, <1>2, <1>3 DEF Serves, Serving, ProcessSuccessfulPayment, End
<1>7. ASSUME Walkable, Fits(call[h], progress[u], stepRow[u])
      PROVE  /\ r.phone /\ ~r.paid /\ c.step \in ActiveSteps
             /\ OnStep(r, m, c.step) \/ (Unplaced(r, m) /\ c.step \in OfType("PAYMENT_GATE"))
  <2>1. /\ r.phone /\ ~r.paid
        /\ OnStep(r, m, c.step) \/ (Unplaced(r, m) /\ c.step \in OfType("PAYMENT_GATE"))
    BY <1>1, <1>2, <1>4, <1>5, <1>7 DEF Fits
  <2>. QED
    BY <2>1, TypesDiffer DEF OnStep, Stands
<1>8. CASE c.step # NoStep /\ steps[c.step] # Absent
  <2>1. PICK s \in Steps : s = c.step
    BY <1>2, <1>8
  <2>2. PICK next \in NextFromCurrent(s) :
            Put(u, [Moved(r, next) EXCEPT !.paid = TRUE]) /\ Mark(u, s)
    BY <1>1, <1>3, <1>4, <1>8, <2>1 DEF ProcessSuccessfulPayment
  <2>3. PICK moved : moved = Moved(r, next)
    OBVIOUS
  <2>4. moved \in Row /\ moved.step = next /\ moved.phone = r.phone /\ moved.answer = r.answer
    <3>1. next \in Existing \cup {NoStep}
      BY <2>2, NextOfCurrentExists
    <3>2. moved \in Row
      BY <2>3, <3>1, MovedIsRow
    <3>. QED
      BY <2>3, <3>2 DEF Moved, Row
  <2>5. PICK new : new = [moved EXCEPT !.paid = TRUE]
    OBVIOUS
  <2>6. /\ new \in Row /\ new.step = next /\ new.phone = r.phone /\ new.answer = r.answer
        /\ new.paid
    BY <2>4, <2>5 DEF Row
  <2>7. PICK n : n = [m EXCEPT ![s] = "done"]
    OBVIOUS
  <2>8. /\ progress'[u] = new /\ stepRow'[u] = n
        /\ \A v \in Users \ {u} : progress'[v] = progress[v] /\ stepRow'[v] = stepRow[v]
    BY <1>5, <2>2, <2>3, <2>5, <2>7, PutOne, MarkOne
  <2>9. ASSUME Walkable, Fits(call[h], progress[u], stepRow[u])
        PROVE  Rests(new, n)
    <3>1. /\ r.phone /\ ~r.paid /\ s \in ActiveSteps /\ LayoutInv
          /\ OnStep(r, m, s) \/ (Unplaced(r, m) /\ s \in OfType("PAYMENT_GATE"))
      BY <1>7, <2>1, <2>9 DEF FunnelInv
    <3>. QED
      BY <2>6, <2>7, <2>9, <3>1, PaidRests
  <2>. QED
    BY <1>6, <2>8, <2>9, StepFits
<1>9. CASE ~(c.step # NoStep /\ steps[c.step] # Absent)
  <2>1. PICK new, n : new = progress'[u] /\ n = stepRow'[u]
    OBVIOUS
  <2>2. \A v \in Users \ {u} : progress'[v] = progress[v] /\ stepRow'[v] = stepRow[v]
    <3>1. UNCHANGED stepRow
      BY <1>1, <1>9 DEF ProcessSuccessfulPayment, walks
    <3>2. UNCHANGED progress \/ \E row : Put(u, row)
      BY <1>1, <1>3, <1>9 DEF ProcessSuccessfulPayment, walks
    <3>. QED
      BY <3>1, <3>2, PutOne
  <2>3. ~(Walkable /\ Fits(call[h], progress[u], stepRow[u]))
    BY <1>7, <1>9, ActiveStep, FunnelAssumption DEF FunnelInv
  <2>. QED
    BY <1>6, <2>1, <2>2, <2>3, StepFits
<1>. QED
  BY <1>8, <1>9

\* A step of a handler that serves no user, before and after.
LEMMA NobodyMoves ==
    ASSUME FunnelInv, WalkInv, UNCHANGED <<layout, walks, disturbed>>,
           \A h \in Handlers : call'[h] = call[h]
               \/ (~Serving(call[h]) /\ ~Serving(call'[h]))
    PROVE  WalkInv'
<1>1. UNCHANGED <<sections, steps, edits, progress, stepRow>>
  BY DEF layout, walks
<1>2. Walkable' = Walkable
  BY <1>1, LayoutStays
<1>3. \A u : \A h \in Handlers :
          call'[h] = call[h] \/ (~Serves(call[h], u) /\ ~Serves(call'[h], u))
  BY DEF Serves, Serving
<1>. QED
  BY <1>1, <1>2, <1>3, UserStays DEF WalkInv

LEMMA WalkFits ==
    ASSUME FunnelInv, WalkInv, NEW h \in Handlers, Walk(h)
    PROVE  WalkInv'
<1>1. DOMAIN call = Handlers /\ ~Serving(Idle)
  BY DEF FunnelInv, CallsInv, Idle, Serving, OfUser, Seeding
<1>2. CASE ReadStructure(h)
  <2>1. PICK c : c = [at |-> "fill", user |-> Absent, value |-> Structure, seen |-> edits]
    OBVIOUS
  <2>2. ~Serving(c) /\ call[h] = Idle /\ call' = [call EXCEPT ![h] = c]
    BY <1>2, <2>1 DEF ReadStructure, Begin, Serving, OfUser, Seeding
  <2>3. \A k \in Handlers : call'[k] = call[k]
            \/ (~Serving(call[k]) /\ ~Serving(call'[k]))
    BY <1>1, <2>2
  <2>. QED
    BY <1>2, <2>3, NobodyMoves DEF ReadStructure
<1>3. CASE FillCache(h)
  <2>1. ~Serving(call[h]) /\ call' = [call EXCEPT ![h] = Idle]
    BY <1>3 DEF FillCache, End, Serving, OfUser, Seeding
  <2>2. \A k \in Handlers : call'[k] = call[k]
            \/ (~Serving(call[k]) /\ ~Serving(call'[k]))
    BY <1>1, <2>1
  <2>. QED
    BY <1>3, <2>2, NobodyMoves DEF FillCache
<1>. QED
  BY <1>2, <1>3, GetProgressFits, FindFirstStepFits, PlaceProgressFits, BeginCompleteFits, MarkCompletedFits, FindNextStepFits, MoveOnFits,
     BeginPingFits, PingFits, BeginDecisionFits, RecordDecisionFits, MarkDecidedFits,
     BeginPhoneFits, MarkPhoneFits, VerifyPhoneFits, BeginCaptureFits,
     ProcessSuccessfulPaymentFits
  DEF Walk

\* An edit ends what is said of the walk.
LEMMA EditFits ==
    ASSUME FunnelInv, Edit
    PROVE  WalkInv'
<1>1. edits \in Nat /\ edits' = edits + 1
  BY FunnelAssumption DEF FunnelInv, CountsInv, Edit
<1>. QED
  BY <1>1 DEF WalkInv

\* The users who are served when the server restarts are disturbed.
LEMMA RestartFits ==
    ASSUME FunnelInv, WalkInv, Restart
    PROVE  WalkInv'
<1>1. UNCHANGED <<sections, steps, edits, progress, stepRow>>
  BY DEF Restart, layout, walks
<1>2. Walkable' = Walkable
  BY <1>1, LayoutStays
<1>3. SUFFICES ASSUME edits = 0, Walkable, NEW u \in Users, u \notin disturbed'
               PROVE  UserWalks(u)'
  BY <1>1, <1>2 DEF WalkInv
<1>4. \A h \in Handlers : call'[h] = Idle
  BY DEF Restart
<1>5. u \notin disturbed
  BY <1>3 DEF Restart
<1>6. ASSUME NEW h \in Handlers PROVE ~Serves(call[h], u)
  BY <1>3 DEF Restart, Serves, Serving, OfUser, Seeding, Idle
<1>7. UserWalks(u)
  BY <1>3, <1>5 DEF WalkInv
<1>. QED
  BY <1>1, <1>4, <1>6, <1>7, IdleServesNobody, UserStays

LEMMA NextFits ==
    ASSUME FunnelInv, WalkInv, [Next]_vars
    PROVE  WalkInv'
<1>1. CASE EditSections
  <2>1. CASE \E h \in Handlers, n \in Sections : BeginDeleteSection(h, n)
    <3>1. PICK h \in Handlers, n \in Sections : BeginDeleteSection(h, n)
      BY <2>1
    <3>2. PICK c : c = [at |-> "deleteSection", user |-> Absent, section |-> n]
      OBVIOUS
    <3>3. ~Serving(c) /\ ~Serving(call[h]) /\ call' = [call EXCEPT ![h] = c]
      BY <3>1, <3>2 DEF BeginDeleteSection, Begin, Serving, OfUser, Seeding, Idle
    <3>4. \A k \in Handlers : call'[k] = call[k]
              \/ (~Serving(call[k]) /\ ~Serving(call'[k]))
      BY <3>3 DEF FunnelInv, CallsInv
    <3>. QED
      BY <3>1, <3>4, NobodyMoves DEF BeginDeleteSection
  <2>2. CASE Edit
    BY <2>2, EditFits
  <2>. QED
    BY <1>1, <2>1, <2>2 DEF EditSections, CreateSection, UpdateSection, DeleteSection
<1>2. CASE EditSteps
  <2>1. CASE \E h \in Handlers, s \in Steps : BeginDeleteStep(h, s)
    <3>1. PICK h \in Handlers, s \in Steps : BeginDeleteStep(h, s)
      BY <2>1
    <3>2. PICK c : c = [at |-> "deleteStep", user |-> Absent, step |-> s]
      OBVIOUS
    <3>3. ~Serving(c) /\ ~Serving(call[h]) /\ call' = [call EXCEPT ![h] = c]
      BY <3>1, <3>2 DEF BeginDeleteStep, Begin, Serving, OfUser, Seeding, Idle
    <3>4. \A k \in Handlers : call'[k] = call[k]
              \/ (~Serving(call[k]) /\ ~Serving(call'[k]))
      BY <3>3 DEF FunnelInv, CallsInv
    <3>. QED
      BY <3>1, <3>4, NobodyMoves DEF BeginDeleteStep
  <2>2. CASE Edit
    BY <2>2, EditFits
  <2>. QED
    BY <1>2, <2>1, <2>2
    DEF EditSteps, CreateStep, UpdateStep, UpsertStepContent, ReorderStep, DeleteStep
<1>3. CASE ExpireCache
  BY <1>3, NobodyMoves DEF ExpireCache
<1>4. CASE InvalidateStructureCache
  BY <1>4, NobodyMoves DEF InvalidateStructureCache
<1>5. CASE UNCHANGED vars
  BY <1>5, NobodyMoves DEF vars
<1>. QED
  BY <1>1, <1>2, <1>3, <1>4, <1>5, WalkFits, RestartFits DEF Next

LEMMA InitFits == Init => WalkInv
<1>. SUFFICES ASSUME Init, NEW u \in Users PROVE UserWalks(u)
  BY DEF WalkInv
<1>1. \A h \in Handlers : call[h] = Idle
  BY DEF Init
<1>2. NothingDone(stepRow[u]) /\ progress[u] = Absent
  BY DEF Init, NothingDone
<1>3. Rests(progress[u], stepRow[u])
  BY <1>2 DEF Rests
<1>. QED
  BY <1>1, <1>3, IdleServesNobody DEF UserWalks

LEMMA InvWorks ==
    ASSUME FunnelInv, WalkInv
    PROVE  UnwarnedFunnelWorks
<1>1. ASSUME NEW u \in Users, edits = 0, u \notin disturbed, ~Busy(u), progress[u] # Absent,
             Walkable, progress[u].step # NoStep, progress[u].answer # "NO"
      PROVE  stepRow[u][progress[u].step] # "done"
  <2>1. UserWalks(u)
    BY <1>1 DEF WalkInv
  <2>2. \A h \in Handlers : ~Serves(call[h], u)
    BY <1>1, IdleServesNobody DEF Busy, Serves
  <2>3. Rests(progress[u], stepRow[u])
    BY <2>1, <2>2 DEF UserWalks
  <2>4. PICK r, m : r = progress[u] /\ m = stepRow[u]
    OBVIOUS
  <2>5. OnStep(r, m, r.step)
    BY <1>1, <2>3, <2>4 DEF Rests, Unplaced, Finished, Declined
  <2>6. r.step \in ActiveSteps /\ DoneBefore(m, r.step)
    BY <2>5 DEF OnStep, Stands
  <2>7. m[r.step] # "done"
    BY <2>6, ActiveStep, BeforeIsStrict DEF DoneBefore, FunnelInv
  <2>. QED
    BY <2>4, <2>7
<1>2. NotStuck
  BY <1>1 DEF NotStuck
<1>3. UnwarnedWalkIsComplete
  BY WalkIsComplete DEF FunnelInv
<1>. QED
  BY <1>2, <1>3 DEF UnwarnedFunnelWorks

----------------------------------------------------------------------------
(* The cache *)

\* A reader that no edit overtook holds the list of steps as it is.
Fresh(c) == c.at = "fill" => c.seen \in 0..edits /\ (c.seen = edits => c.value = Structure)

CacheInv == CacheIsFresh /\ \A h \in Handlers : Fresh(call[h])

LEMMA StructureStays ==
    ASSUME UNCHANGED <<sections, steps>>
    PROVE  Structure' = Structure
<1>1. ActiveSections' = ActiveSections
  BY DEF ActiveSections
<1>2. \A n : ActiveStepsOf(n)' = ActiveStepsOf(n)
  BY DEF ActiveStepsOf
<1>3. ActiveSteps' = ActiveSteps
  BY <1>1, <1>2 DEF ActiveSteps
<1>. QED
  BY <1>1, <1>3 DEF Structure

\* A request that reads neither the cache nor the list.
LEMMA CacheUntouched ==
    ASSUME FunnelInv, CacheInv, UNCHANGED <<layout, caching>>,
           \A h \in Handlers : call'[h] = call[h] \/ call'[h].at # "fill"
    PROVE  CacheInv'
<1>1. UNCHANGED <<sections, steps, edits, cache, stale, overtaken>>
  BY DEF layout, caching
<1>2. Structure' = Structure
  BY <1>1, StructureStays
<1>. QED
  BY <1>1, <1>2 DEF CacheInv, CacheIsFresh, Fresh

\* An edit overtakes every reader.
LEMMA EditOvertakes ==
    ASSUME FunnelInv, CacheInv, Edit,
           \A h \in Handlers : call'[h] = call[h] \/ call'[h].at # "fill"
    PROVE  CacheInv'
<1>1. edits \in Nat /\ edits' = edits + 1 /\ stale'
  BY FunnelAssumption DEF Edit, FunnelInv, CountsInv
<1>2. \A h \in Handlers : Fresh(call[h])'
  BY <1>1 DEF CacheInv, Fresh
<1>. QED
  BY <1>1, <1>2 DEF CacheInv, CacheIsFresh

\* No other request of a user is one of the cache.
LEMMA WalkFillsNothing ==
    ASSUME FunnelInv, NEW h \in Handlers, Walk(h), ~ReadStructure(h), ~FillCache(h)
    PROVE  \A k \in Handlers : call'[k] = call[k] \/ call'[k].at # "fill"
<1>. DEFINE Other(c) == c.at # "fill"
<1>. SUFFICES \E c : Other(c) /\ call' = [call EXCEPT ![h] = c]
  BY DEF FunnelInv, CallsInv
<1>1. \A g, u : GoalOf(g, u) => Other(g)
  BY DEF GoalOf, Idle
<1>2. Other(Idle) /\ \A u, g : Other(Seed(u, g))
  BY DEF Idle, Seed
<1>3. ASSUME NEW u \in Users, NEW g, Other(g), GetOrCreateProgress(h, u, g)
      PROVE  \E c : Other(c) /\ call' = [call EXCEPT ![h] = c]
  BY <1>2, <1>3 DEF GetOrCreateProgress, Begin
<1>4. CASE \E u \in Users : GetProgress(h, u)
  BY <1>2, <1>3, <1>4 DEF GetProgress
<1>5. CASE \E u \in Users, s \in Steps, w \in BOOLEAN : BeginComplete(h, u, s, w)
  BY <1>3, <1>5 DEF BeginComplete
<1>6. CASE \E u \in Users, s \in Steps, a \in {"YES", "NO"} : BeginDecision(h, u, s, a)
  BY <1>3, <1>6 DEF BeginDecision
<1>7. CASE \E u \in Users, s \in Steps : BeginPing(h, u, s)
  <2>1. PICK u \in Users, s \in Steps : BeginPing(h, u, s)
    BY <1>7
  <2>2. PICK g : g = [at |-> "ping", user |-> u, step |-> s]
    OBVIOUS
  <2>3. Other(g)
    BY <2>2
  <2>. QED
    BY <1>2, <2>1, <2>2, <2>3 DEF BeginPing, Begin
<1>8. CASE \E u \in Users : BeginPhone(h, u) \/ BeginCapture(h, u)
  BY <1>8 DEF BeginPhone, BeginCapture, Begin
<1>9. CASE PlaceProgress(h)
  <2>1. Other(call[h].goal)
    BY <1>1, <1>9 DEF PlaceProgress, FunnelInv, CallsInv, Holds, Seeding
  <2>. QED
    BY <1>2, <1>9, <2>1 DEF PlaceProgress, Then, End
<1>10. CASE FindFirstStep(h)
  BY <1>10 DEF FindFirstStep, Then
<1>11. CASE FindNextStep(h) \/ RecordDecision(h)
  BY <1>11 DEF FindNextStep, RecordDecision, Then
<1>12. CASE MarkCompleted(h)
  <2>1. call[h] \in MarkCall
    BY <1>12 DEF MarkCompleted, FunnelInv, CallsInv, Holds
  <2>2. PICK c : c = [call[h] EXCEPT !.at = "find"]
    OBVIOUS
  <2>3. c.at = "find"
    BY <2>1, <2>2 DEF MarkCall
  <2>. QED
    BY <1>2, <1>12, <2>2, <2>3 DEF MarkCompleted, Then, End
<1>13. CASE MarkPhone(h)
  <2>1. call[h] \in PhoneCall
    BY <1>13 DEF MarkPhone, FunnelInv, CallsInv, Holds
  <2>2. PICK c : c = [call[h] EXCEPT !.at = "verified"]
    OBVIOUS
  <2>3. c.at = "verified"
    BY <2>1, <2>2 DEF PhoneCall
  <2>. QED
    BY <1>2, <1>13, <2>2, <2>3 DEF MarkPhone, Then, End
<1>14. CASE MoveOn(h) \/ Ping(h) \/ MarkDecided(h) \/ VerifyPhone(h) \/ ProcessSuccessfulPayment(h)
  BY <1>2, <1>14 DEF MoveOn, Ping, MarkDecided, VerifyPhone, ProcessSuccessfulPayment, End
<1>. QED
  BY <1>4, <1>5, <1>6, <1>7, <1>8, <1>9, <1>10, <1>11, <1>12, <1>13, <1>14 DEF Walk

LEMMA WalkLeavesCache ==
    ASSUME FunnelInv, CacheInv, NEW h \in Handlers, Walk(h)
    PROVE  CacheInv'
<1>1. CASE ReadStructure(h)
  <2>1. PICK c : c = [at |-> "fill", user |-> Absent, value |-> Structure, seen |-> edits]
    OBVIOUS
  <2>2. Structure' = Structure /\ UNCHANGED <<edits, cache, stale, overtaken>>
    BY <1>1, StructureStays DEF ReadStructure, layout, caching
  <2>3. c.value = Structure /\ c.seen = edits /\ edits \in Nat
    BY <2>1, FunnelAssumption DEF FunnelInv, CountsInv
  <2>4. call' = [call EXCEPT ![h] = c]
    BY <1>1, <2>1 DEF ReadStructure, Begin
  <2>5. \A k \in Handlers : Fresh(call[k])'
    BY <2>2, <2>3, <2>4 DEF CacheInv, Fresh, FunnelInv, CallsInv
  <2>. QED
    BY <2>2, <2>5 DEF CacheInv, CacheIsFresh
<1>2. CASE FillCache(h)
  <2>1. Structure' = Structure /\ UNCHANGED <<edits, stale>>
    BY <1>2, StructureStays DEF FillCache, layout
  <2>2. cache' = Structure \/ overtaken'
    BY <1>2 DEF FillCache, CacheInv, Fresh
  <2>3. \A k \in Handlers : call'[k] = call[k] \/ call'[k].at # "fill"
    BY <1>2 DEF FillCache, End, Idle, FunnelInv, CallsInv
  <2>4. \A k \in Handlers : Fresh(call[k])'
    BY <2>1, <2>3 DEF CacheInv, Fresh
  <2>. QED
    BY <2>1, <2>2, <2>4 DEF CacheInv, CacheIsFresh
<1>3. CASE ~ReadStructure(h) /\ ~FillCache(h)
  <2>1. UNCHANGED <<layout, caching>>
    BY <1>3 DEF Walk, GetProgress, FindFirstStep, PlaceProgress, BeginComplete, MarkCompleted,
       FindNextStep, MoveOn, BeginPing, Ping, BeginDecision, RecordDecision, MarkDecided,
       BeginPhone, BeginCapture, MarkPhone, VerifyPhone, ProcessSuccessfulPayment
  <2>. QED
    BY <1>3, <2>1, WalkFillsNothing, CacheUntouched
<1>. QED
  BY <1>1, <1>2, <1>3

LEMMA NextLeavesFresh ==
    ASSUME FunnelInv, CacheInv, [Next]_vars
    PROVE  CacheInv'
<1>1. CASE EditSections
  <2>1. CASE \E h \in Handlers, n \in Sections : BeginDeleteSection(h, n)
    BY <2>1, CacheUntouched DEF BeginDeleteSection, Begin, FunnelInv, CallsInv
  <2>2. CASE Edit /\ UNCHANGED call
    BY <2>2, EditOvertakes
  <2>3. CASE \E h \in Handlers : DeleteSection(h)
    BY <2>3, EditOvertakes DEF DeleteSection, End, Idle, FunnelInv, CallsInv
  <2>. QED
    BY <1>1, <2>1, <2>2, <2>3 DEF EditSections, CreateSection, UpdateSection
<1>2. CASE EditSteps
  <2>1. CASE \E h \in Handlers, s \in Steps : BeginDeleteStep(h, s)
    BY <2>1, CacheUntouched DEF BeginDeleteStep, Begin, FunnelInv, CallsInv
  <2>2. CASE Edit /\ UNCHANGED call
    BY <2>2, EditOvertakes
  <2>3. CASE \E h \in Handlers : DeleteStep(h)
    BY <2>3, EditOvertakes DEF DeleteStep, End, Idle, FunnelInv, CallsInv
  <2>. QED
    BY <1>2, <2>1, <2>2, <2>3
    DEF EditSteps, CreateStep, UpdateStep, UpsertStepContent, ReorderStep
<1>3. CASE ExpireCache \/ InvalidateStructureCache \/ Restart
  <2>1. Structure' = Structure /\ UNCHANGED edits
    BY <1>3, StructureStays DEF ExpireCache, InvalidateStructureCache, Restart, layout
  <2>2. \A h \in Handlers : call'[h] = call[h] \/ call'[h].at # "fill"
    BY <1>3 DEF ExpireCache, InvalidateStructureCache, Restart, Idle
  <2>3. \A h \in Handlers : Fresh(call[h])'
    BY <2>1, <2>2 DEF CacheInv, Fresh
  <2>4. CacheIsFresh'
    BY <1>3, <2>1 DEF ExpireCache, InvalidateStructureCache, Restart, CacheInv, CacheIsFresh
  <2>. QED
    BY <2>3, <2>4 DEF CacheInv
<1>4. CASE UNCHANGED vars
  BY <1>4, CacheUntouched DEF vars
<1>. QED
  BY <1>1, <1>2, <1>3, <1>4, WalkLeavesCache DEF Next

----------------------------------------------------------------------------
(* Results *)

\* For every layout, number of users, handlers, edits and restarts: the rows have
\* their types, what a user may open is a step they were put on or the gate of a
\* payment that was captured, and who answered the decision has paid.
THEOREM GatesAlwaysHold == Spec => []GatesHold
<1>1. Init => FunnelInv
  BY InitHolds
<1>2. FunnelInv /\ [Next]_vars => FunnelInv'
  BY NextKeeps
<1>3. FunnelInv => GatesHold
  BY InvGivesGates
<1>. QED
  BY <1>1, <1>2, <1>3, PTL DEF Spec

\* For every layout, number of users, handlers and requests, while nothing is edited:
\* when both gates are there and validation warns of nothing, a user who sends one
\* request at a time, completes no gate by hand, pays for one order and is not cut off
\* by a restart stands on a step that is still to be completed, or has declined, or is
\* through; and whenever no section is empty the walk shows every active step.
THEOREM FunnelAlwaysWorks == Spec => []UnwarnedFunnelWorks
<1>1. Init => FunnelInv /\ WalkInv
  BY InitHolds, InitFits
<1>2. FunnelInv /\ WalkInv /\ [Next]_vars => (FunnelInv /\ WalkInv)'
  BY NextKeeps, NextFits
<1>3. FunnelInv /\ WalkInv => UnwarnedFunnelWorks
  BY InvWorks
<1>. QED
  BY <1>1, <1>2, <1>3, PTL DEF Spec

\* For every number of edits, readers and restarts: the list of steps that is served
\* is the current one, or its invalidation is under way, or an edit came between its
\* read and its store, or its invalidation was lost to a restart.
THEOREM CacheIsAlwaysFresh == Spec => []CacheIsFresh
<1>1. Init => FunnelInv /\ CacheInv
  <2>1. Init => CacheInv
    BY DEF Init, CacheInv, CacheIsFresh, Fresh, Idle
  <2>. QED
    BY <2>1, InitHolds
<1>2. FunnelInv /\ CacheInv /\ [Next]_vars => (FunnelInv /\ CacheInv)'
  BY NextKeeps, NextLeavesFresh
<1>3. CacheInv => CacheIsFresh
  BY DEF CacheInv
<1>. QED
  BY <1>1, <1>2, <1>3, PTL DEF Spec

\* A completed step stays completed until it is deleted, whatever requests, edits
\* and restarts overlap.
THEOREM CompletedStays == Spec => CompletionKept
<1>1. Init => FunnelInv
  BY InitHolds
<1>2. FunnelInv /\ [Next]_vars => FunnelInv'
  BY NextKeeps
<1>3. FunnelInv /\ [Next]_vars =>
          [\A u \in Users, s \in Steps :
               stepRow[u][s] = "done" => stepRow'[u][s] = "done" \/ steps'[s] = Absent]_vars
  BY NextKeeps DEF Kept
<1>. QED
  BY <1>1, <1>2, <1>3, PTL DEF Spec, CompletionKept
=============================================================================

------------------------------- MODULE Funnel -------------------------------
(***************************************************************************)
(* The funnel while it is edited.  Users complete steps, watch videos, pay,*)
(* verify their phone and decide, each in a handler that reads the row of  *)
(* the user, writes the step and then moves the user on; meanwhile the     *)
(* administrator adds, moves, hides and deletes sections and steps, and    *)
(* the list of steps is served from a cache that edits invalidate without  *)
(* waiting.  FunnelSteps states the same walk for a fixed layout.          *)
(***************************************************************************)
EXTENDS Naturals, FiniteSets

CONSTANTS
    Users,          \* users
    Sections,       \* funnel_sections that will ever exist
    Steps,          \* funnel_steps that will ever exist
    Absent,         \* a row that does not exist
    NoStep,         \* a null currentStepUuid
    Orders,         \* values of order
    FirstLayouts,   \* the sections and steps there may be at the start
    NewTypes,       \* the types of the steps that are added
    Handlers,       \* requests served at the same time
    MaxRequests,    \* bound on the requests
    MaxDisturbances \* bound on edits and restarts together

Types == {"VIDEO_TEXT", "PHONE_GATE", "PAYMENT_GATE", "DECISION"}

Section == [order : Orders, active : BOOLEAN]

\* mustWatch: the video has a duration and has to be watched to its end.
Step == [section : Sections, type : Types, order : Orders, active : BOOLEAN,
         mustWatch : BOOLEAN]

ASSUME FunnelAssumption ==
    /\ Absent \notin Step \cup Section /\ NoStep \notin Steps
    /\ Orders \subseteq Nat /\ IsFiniteSet(Steps)
    /\ NewTypes \subseteq Types
    /\ FirstLayouts \subseteq [sections : [Sections -> Section \cup {Absent}],
                               steps : [Steps -> Step \cup {Absent}]]
    /\ MaxRequests \in Nat /\ MaxDisturbances \in Nat

VARIABLES
    sections,       \* funnel_sections
    steps,          \* funnel_steps with their content
    known,          \* sections and steps that have been there: no uuid is given twice
    cache,          \* funnel:structure
    stale,          \* an invalidation of the cache is under way
    overtaken,      \* the entry was read before an edit whose invalidation came first
                    \* or was lost to a restart
    progress,       \* funnel_progress
    stepRow,        \* step_progress: none, open or done
    call,           \* what each handler is doing
    visited,        \* steps a user has been put on
    disturbed,      \* users who sent two requests at once, lost one to a restart, passed
                    \* a gate without its code or payment, used two codes or paid twice
    requests, edits, crashes

layout == <<sections, steps, known, edits>>
caching == <<cache, stale, overtaken>>
walks == <<progress, stepRow, visited>>
vars == <<layout, caching, walks, call, disturbed, requests, crashes>>

Row == [section : Sections \cup {Absent}, step : Steps \cup {NoStep}, finished : BOOLEAN,
        phone : BOOLEAN, paid : BOOLEAN, answer : {"none", "YES", "NO"}]

ASSUME RowAssumption == Absent \notin Row

Idle == [at |-> "idle"]

----------------------------------------------------------------------------
(* The walk over the layout of the moment *)

ActiveSections == {n \in Sections : sections[n] # Absent /\ sections[n].active}

ActiveStepsOf(n) ==
    {s \in Steps : steps[s] # Absent /\ steps[s].active /\ steps[s].section = n}

ActiveSteps == UNION {ActiveStepsOf(n) : n \in ActiveSections}

\* Rows of equal order come in any order.
Firsts(S) ==
    IF S = {} THEN {NoStep}
    ELSE {s \in S : \A t \in S : steps[s].order <= steps[t].order}

FirstSections(S) == {n \in S : \A m \in S : sections[n].order <= sections[m].order}

FirstOfSections(S) ==
    IF S = {} THEN {NoStep} ELSE UNION {Firsts(ActiveStepsOf(n)) : n \in FirstSections(S)}

\* The next step of the section; failing that, the first step of the section that
\* follows, which may have none.
NextAfter(n, order) ==
    LET later == {s \in ActiveStepsOf(n) : steps[s].order > order}
    IN  IF later # {} THEN Firsts(later)
        ELSE IF sections[n] = Absent THEN {NoStep}
        ELSE FirstOfSections({m \in ActiveSections : sections[m].order > sections[n].order})

NextFromCurrent(s) ==
    IF s = NoStep \/ steps[s] = Absent THEN {NoStep}
    ELSE NextAfter(steps[s].section, steps[s].order)

Before(s, t) ==
    LET m == sections[steps[s].section].order
        n == sections[steps[t].section].order
    IN  m < n \/ (m = n /\ steps[s].order < steps[t].order)

OfType(type) == {s \in ActiveSteps : steps[s].type = type}

\* Mutant: a section without steps is not looked for.
WarningsNoEmpty ==
    LET phones == OfType("PHONE_GATE")
        payments == OfType("PAYMENT_GATE")
        decisions == OfType("DECISION")
    IN  {w \in {"PAYMENT_BEFORE_PHONE"} :
             phones # {} /\ \E p \in payments : \A q \in phones : Before(p, q)}
        \cup {w \in {"MULTIPLE_PAYMENT_GATES"} : Cardinality(payments) > 1}
        \cup {w \in {"MULTIPLE_PHONE_GATES"} : Cardinality(phones) > 1}
        \cup {w \in {"NO_DECISION_STEP"} : decisions = {}}
        \cup {w \in {"DECISION_NOT_LAST"} :
                  decisions # {} /\ \E s \in ActiveSteps : \A d \in decisions : Before(d, s)}

\* What validateFunnel warns of.
Warnings ==
    LET phones == OfType("PHONE_GATE")
        payments == OfType("PAYMENT_GATE")
        decisions == OfType("DECISION")
    IN  {w \in {"PAYMENT_BEFORE_PHONE"} :
             phones # {} /\ \E p \in payments : \A q \in phones : Before(p, q)}
        \cup {w \in {"MULTIPLE_PAYMENT_GATES"} : Cardinality(payments) > 1}
        \cup {w \in {"MULTIPLE_PHONE_GATES"} : Cardinality(phones) > 1}
        \cup {w \in {"NO_DECISION_STEP"} : decisions = {}}
        \cup {w \in {"DECISION_NOT_LAST"} :
                  decisions # {} /\ \E s \in ActiveSteps : \A d \in decisions : Before(d, s)}
        \cup {w \in {"EMPTY_SECTION"} : \E n \in ActiveSections : ActiveStepsOf(n) = {}}

\* What GET structure returns.
Structure ==
    [sections |-> {<<n, sections[n].order>> : n \in ActiveSections},
     steps |-> {<<s, steps[s].section, steps[s].type, steps[s].order>> : s \in ActiveSteps}]

----------------------------------------------------------------------------
(* Requests *)

\* Who else is served now.
Busy(u) == \E h \in Handlers : call[h] # Idle /\ call[h].user = u

AskAs(u, odd) ==
    /\ requests < MaxRequests
    /\ requests' = requests + 1
    /\ disturbed' = IF Busy(u) \/ odd THEN disturbed \cup {u} ELSE disturbed

Ask(u) == AskAs(u, FALSE)

Begin(h, c) == call[h] = Idle /\ call' = [call EXCEPT ![h] = c]
Then(h, c) == call' = [call EXCEPT ![h] = c]
End(h) == call' = [call EXCEPT ![h] = Idle]

NewRow(n, s, phone) ==
    [section |-> n, step |-> s, finished |-> FALSE, phone |-> phone, paid |-> FALSE,
     answer |-> "none"]

Put(u, row) ==
    /\ progress' = [progress EXCEPT ![u] = row]
    /\ visited' = [visited EXCEPT ![u] = @ \cup ({row.step} \ {NoStep})]

\* A row with a step, or that is finished, is returned as it was read.
Settled(row) == row # Absent /\ (row.step # NoStep \/ row.finished)

Seed(u, goal) ==
    [at |-> "seed", user |-> u, fresh |-> progress[u] = Absent, goal |-> goal]

\* Mutant: any step may be completed.
AdmitsAny(u, row, goal) ==
    goal.at = "decide" =>
        /\ row.paid /\ row.step = goal.step
        /\ row.answer # "YES" /\ ~(row.answer = "NO" /\ goal.answer = "NO")

\* Mutant: whoever reached the step may answer.
AdmitsUnpaid(u, row, goal) ==
    /\ goal.at = "mark" => row.step = goal.step /\ stepRow[u][goal.step] # "done"
    /\ goal.at = "decide" =>
           /\ row.step = goal.step
           /\ row.answer # "YES" /\ ~(row.answer = "NO" /\ goal.answer = "NO")

\* What a request checks on the row it is given.  A completed step is answered at
\* once; one that is not the current is refused.  A YES is final, a NO may become
\* a YES.
Admits(u, row, goal) ==
    /\ goal.at = "mark" => row.step = goal.step /\ stepRow[u][goal.step] # "done"
    /\ goal.at = "decide" =>
           /\ row.paid /\ row.step = goal.step
           /\ row.answer # "YES" /\ ~(row.answer = "NO" /\ goal.answer = "NO")

\* The row as it is read; without a row or without a step the first step is looked
\* up before the request goes on.
GetOrCreateProgress(h, u, goal) ==
    \/ /\ Settled(progress[u])
       /\ Admits(u, progress[u], goal)
       /\ Begin(h, goal)
    \/ /\ ~Settled(progress[u])
       /\ Begin(h, Seed(u, goal))

FindFirstStep(h) ==
    LET c == call[h]
    IN  /\ c.at = "seed"
        /\ \E s \in FirstOfSections(ActiveSections), n \in Sections \cup {Absent} :
               /\ \/ s # NoStep /\ n = steps[s].section
                  \/ s = NoStep /\ ActiveSections = {} /\ n = Absent
                  \/ s = NoStep /\ n \in FirstSections(ActiveSections) /\ ActiveStepsOf(n) = {}
               /\ Then(h, [at |-> "place", user |-> c.user, fresh |-> c.fresh, phone |-> FALSE,
                           section |-> n, step |-> s, goal |-> c.goal])
        /\ UNCHANGED <<layout, caching, walks, disturbed, requests, crashes>>

\* The row is created, which fails when there is one by now, or put on the first step.
PlaceProgress(h) ==
    LET c == call[h]
        row == IF c.fresh THEN NewRow(c.section, c.step, c.phone)
               ELSE [progress[c.user] EXCEPT !.step = c.step, !.section = c.section]
    IN  /\ c.at = "place"
        /\ \/ /\ IF c.fresh THEN progress[c.user] # Absent ELSE c.step = NoStep
              /\ End(h)
              /\ UNCHANGED <<progress, visited>>
           \/ /\ IF c.fresh THEN progress[c.user] = Absent ELSE c.step # NoStep
              /\ Put(c.user, row)
              /\ Then(h, IF Admits(c.user, row, c.goal) THEN c.goal ELSE Idle)
        /\ UNCHANGED <<layout, caching, stepRow, disturbed, requests, crashes>>

\* Mutant: the section is cleared like the step.
MovedCleared(row, next) ==
    IF next = NoStep THEN [row EXCEPT !.step = NoStep, !.section = NoStep]
    ELSE [row EXCEPT !.step = next, !.section = steps[next].section]

\* Where the row points after a move; finished only where the code says so.
Moved(row, next) ==
    IF next = NoStep THEN [row EXCEPT !.step = NoStep]
    ELSE [row EXCEPT !.step = next, !.section = steps[next].section]

Mark(u, s) == stepRow' = [stepRow EXCEPT ![u][s] = "done"]

\* What GET step shows: the current step and those completed.
MayOpen(u, s) ==
    /\ steps[s] # Absent /\ steps[s].active
    /\ stepRow[u][s] = "done" \/ (progress[u] # Absent /\ progress[u].step = s)

GetProgress(h, u) ==
    /\ Ask(u)
    /\ GetOrCreateProgress(h, u, Idle)
    /\ UNCHANGED <<layout, caching, walks, crashes>>

----------------------------------------------------------------------------
(* completeStep *)

BeginComplete(h, u, s, watched) ==
    /\ steps[s] # Absent /\ steps[s].active
    /\ AskAs(u, steps[s].type \in {"PHONE_GATE", "PAYMENT_GATE"})
    /\ steps[s].type = "VIDEO_TEXT" /\ steps[s].mustWatch => watched
    /\ GetOrCreateProgress(h, u, [at |-> "mark", user |-> u, step |-> s,
                                  section |-> steps[s].section, order |-> steps[s].order,
                                  phone |-> steps[s].type = "PHONE_GATE"])
    /\ UNCHANGED <<layout, caching, walks, crashes>>

\* The row cannot be written when the step was deleted meanwhile.
MarkCompleted(h) ==
    LET c == call[h]
    IN  /\ c.at = "mark"
        /\ \/ /\ steps[c.step] # Absent
              /\ Mark(c.user, c.step)
              /\ Then(h, [c EXCEPT !.at = "find"])
           \/ /\ steps[c.step] = Absent
              /\ End(h)
              /\ UNCHANGED stepRow
        /\ UNCHANGED <<layout, caching, progress, visited, disturbed, requests, crashes>>

FindNextStep(h) ==
    LET c == call[h]
    IN  /\ c.at = "find"
        /\ \E next \in NextAfter(c.section, c.order) :
               Then(h, [at |-> "move", user |-> c.user, next |-> next, phone |-> c.phone])
        /\ UNCHANGED <<layout, caching, walks, disturbed, requests, crashes>>

\* Mutant: the user is left on the step.
MoveOnNot(h) ==
    LET c == call[h]
        row == progress[c.user]
    IN  /\ c.at = "move"
        /\ Put(c.user, [row EXCEPT !.phone = row.phone \/ c.phone])
        /\ End(h)
        /\ UNCHANGED <<layout, caching, stepRow, disturbed, requests, crashes>>

\* The last step finishes the funnel.  (The section of a step that was deleted
\* after it was read is written all the same; it is left out here.)
MoveOn(h) ==
    LET c == call[h]
        row == progress[c.user]
        section == IF c.next # NoStep /\ steps[c.next] # Absent THEN steps[c.next].section
                   ELSE row.section
    IN  /\ c.at = "move"
        /\ Put(c.user, [row EXCEPT !.step = c.next, !.section = section,
                                   !.phone = row.phone \/ c.phone,
                                   !.finished = row.finished \/ c.next = NoStep])
        /\ End(h)
        /\ UNCHANGED <<layout, caching, stepRow, disturbed, requests, crashes>>

----------------------------------------------------------------------------
(* saveVideoProgress, recordDecision *)

\* Any step may be watched, and a user without a step stays without.
BeginPing(h, u, s) ==
    LET ping == [at |-> "ping", user |-> u, step |-> s]
    IN  /\ Ask(u)
        /\ steps[s] # Absent
        /\ Begin(h, IF progress[u] = Absent THEN Seed(u, ping) ELSE ping)
        /\ UNCHANGED <<layout, caching, walks, crashes>>

\* Mutant: the ping opens the row again.
PingReopens(h) ==
    LET c == call[h]
    IN  /\ c.at = "ping"
        /\ stepRow' = [stepRow EXCEPT ![c.user][c.step] =
                           IF steps[c.step] = Absent THEN @ ELSE "open"]
        /\ End(h)
        /\ UNCHANGED <<layout, caching, progress, visited, disturbed, requests, crashes>>

Ping(h) ==
    LET c == call[h]
    IN  /\ c.at = "ping"
        /\ stepRow' = [stepRow EXCEPT ![c.user][c.step] =
                           IF steps[c.step] # Absent /\ @ = "none" THEN "open" ELSE @]
        /\ End(h)
        /\ UNCHANGED <<layout, caching, progress, visited, disturbed, requests, crashes>>

BeginDecision(h, u, s, answer) ==
    /\ Ask(u)
    /\ steps[s] # Absent /\ steps[s].type = "DECISION"
    /\ GetOrCreateProgress(h, u, [at |-> "decide", user |-> u, step |-> s, answer |-> answer])
    /\ UNCHANGED <<layout, caching, walks, crashes>>

\* NO leaves the user on the step, so that the answer can be given again.
RecordDecision(h) ==
    LET c == call[h]
        row == progress[c.user]
    IN  /\ c.at = "decide"
        /\ Put(c.user, IF c.answer = "YES"
                       THEN [row EXCEPT !.answer = "YES", !.step = NoStep, !.finished = TRUE]
                       ELSE [row EXCEPT !.answer = "NO", !.step = c.step])
        /\ Then(h, [at |-> "decided", user |-> c.user, step |-> c.step])
        /\ UNCHANGED <<layout, caching, stepRow, disturbed, requests, crashes>>

MarkDecided(h) ==
    LET c == call[h]
    IN  /\ c.at = "decided"
        /\ IF steps[c.step] # Absent THEN Mark(c.user, c.step) ELSE UNCHANGED stepRow
        /\ End(h)
        /\ UNCHANGED <<layout, caching, progress, visited, disturbed, requests, crashes>>

----------------------------------------------------------------------------
(* The gates: an accepted phone code and a captured payment *)

\* The current step, of whatever type, is the one to complete.  A code that was
\* sent before the phone was verified is still taken.
BeginPhone(h, u) ==
    /\ AskAs(u, progress[u] # Absent /\ progress[u].phone)
    /\ IF progress[u] = Absent
       THEN Begin(h, [at |-> "place", user |-> u, fresh |-> TRUE, phone |-> TRUE,
                      section |-> Absent, step |-> NoStep, goal |-> Idle])
       ELSE \E next \in NextFromCurrent(progress[u].step) :
                Begin(h, [at |-> "phone", user |-> u, step |-> progress[u].step, next |-> next])
    /\ UNCHANGED <<layout, caching, walks, crashes>>

MarkPhone(h) ==
    LET c == call[h]
    IN  /\ c.at = "phone"
        /\ \/ /\ c.step # NoStep
              /\ steps[c.step] = Absent
              /\ End(h)
              /\ UNCHANGED stepRow
           \/ /\ c.step # NoStep => steps[c.step] # Absent
              /\ IF c.step = NoStep THEN UNCHANGED stepRow ELSE Mark(c.user, c.step)
              /\ Then(h, [c EXCEPT !.at = "verified"])
        /\ UNCHANGED <<layout, caching, progress, visited, disturbed, requests, crashes>>

VerifyPhone(h) ==
    LET c == call[h]
        row == progress[c.user]
    IN  /\ c.at = "verified"
        /\ Put(c.user, [(IF c.next # NoStep /\ steps[c.next] = Absent
                         THEN [row EXCEPT !.step = c.next]
                         ELSE Moved(row, c.next)) EXCEPT !.phone = TRUE])
        /\ End(h)
        /\ UNCHANGED <<layout, caching, stepRow, disturbed, requests, crashes>>

\* The order was created for a user with a verified phone who had not paid then;
\* whether another order was paid since is not looked at.
BeginCapture(h, u) ==
    /\ progress[u] # Absent /\ progress[u].phone
    /\ AskAs(u, progress[u].paid)
    /\ \E gate \in (IF OfType("PAYMENT_GATE") = {} THEN {NoStep} ELSE OfType("PAYMENT_GATE")) :
           Begin(h, [at |-> "capture", user |-> u,
                     step |-> IF progress[u].step # NoStep THEN progress[u].step ELSE gate])
    /\ UNCHANGED <<layout, caching, walks, crashes>>

\* One transaction; it fails when the step was deleted meanwhile.
ProcessSuccessfulPayment(h) ==
    LET c == call[h]
    IN  /\ c.at = "capture"
        /\ \/ /\ c.step # NoStep
              /\ steps[c.step] = Absent
              /\ UNCHANGED walks
           \/ /\ c.step # NoStep => steps[c.step] # Absent
              /\ \E next \in NextFromCurrent(c.step) :
                     Put(c.user, [Moved(progress[c.user], next) EXCEPT !.paid = TRUE])
              /\ IF c.step = NoStep THEN UNCHANGED stepRow ELSE Mark(c.user, c.step)
        /\ End(h)
        /\ UNCHANGED <<layout, caching, disturbed, requests, crashes>>

----------------------------------------------------------------------------
(* The structure and its cache *)

\* Nobody is disturbed by a reader.
ReadStructure(h) ==
    /\ requests < MaxRequests
    /\ requests' = requests + 1
    /\ cache = Absent
    /\ Begin(h, [at |-> "fill", user |-> Absent, value |-> Structure, seen |-> edits])
    /\ UNCHANGED <<layout, caching, walks, disturbed, crashes>>

FillCache(h) ==
    /\ call[h].at = "fill"
    /\ cache' = call[h].value
    /\ overtaken' = (call[h].seen # edits)
    /\ End(h)
    /\ UNCHANGED <<layout, stale, walks, disturbed, requests, crashes>>

ExpireCache ==
    /\ cache # Absent
    /\ cache' = Absent
    /\ overtaken' = FALSE
    /\ UNCHANGED <<layout, stale, walks, call, disturbed, requests, crashes>>

InvalidateStructureCache ==
    /\ stale
    /\ stale' = FALSE
    /\ cache' = Absent
    /\ overtaken' = FALSE
    /\ UNCHANGED <<layout, walks, call, disturbed, requests, crashes>>

----------------------------------------------------------------------------
(* The administrator *)

\* The bound on edits, asked again when a deletion that was begun is carried out.
MayEdit == edits + crashes < MaxDisturbances

Edit ==
    /\ MayEdit
    /\ edits' = edits + 1
    /\ stale' = TRUE
    /\ UNCHANGED overtaken

CreateSection(n, order) ==
    /\ Edit
    /\ n \notin known
    /\ known' = known \cup {n}
    /\ sections' = [sections EXCEPT ![n] = [order |-> order, active |-> TRUE]]
    /\ UNCHANGED <<steps, cache, walks, call, disturbed, requests, crashes>>

UpdateSection(n, order, active) ==
    /\ Edit
    /\ sections[n] # Absent
    /\ sections' = [sections EXCEPT ![n] = [order |-> order, active |-> active]]
    /\ UNCHANGED <<steps, known, cache, walks, call, disturbed, requests, crashes>>

\* A new step has no video yet.
CreateStep(s, n, type, order) ==
    /\ Edit
    /\ sections[n] # Absent
    /\ s \notin known
    /\ known' = known \cup {s}
    /\ steps' = [steps EXCEPT ![s] = [section |-> n, type |-> type, order |-> order,
                                      active |-> TRUE, mustWatch |-> FALSE]]
    /\ UNCHANGED <<sections, cache, walks, call, disturbed, requests, crashes>>

\* Hiding a step does not look for the users who are on it.
UpdateStep(s, active) ==
    /\ Edit
    /\ steps[s] # Absent
    /\ steps' = [steps EXCEPT ![s].active = active]
    /\ UNCHANGED <<sections, known, cache, walks, call, disturbed, requests, crashes>>

\* Mutant: a new order does not invalidate the cache.
ReorderStepQuiet(s, order) ==
    /\ MayEdit
    /\ edits' = edits + 1
    /\ steps[s] # Absent
    /\ steps' = [steps EXCEPT ![s].order = order]
    /\ UNCHANGED <<sections, known, caching, walks, call, disturbed, requests, crashes>>

\* The items of a new order are written one by one.
ReorderStep(s, order) ==
    /\ Edit
    /\ steps[s] # Absent
    /\ steps' = [steps EXCEPT ![s].order = order]
    /\ UNCHANGED <<sections, known, cache, walks, call, disturbed, requests, crashes>>

UpsertStepContent(s, mustWatch) ==
    /\ Edit
    /\ steps[s] # Absent
    /\ steps[s].type = "VIDEO_TEXT"
    /\ steps' = [steps EXCEPT ![s].mustWatch = mustWatch]
    /\ UNCHANGED <<sections, known, cache, walks, call, disturbed, requests, crashes>>

\* The users on the step are counted before it is deleted.
BeginDeleteStep(h, s) ==
    /\ MayEdit
    /\ steps[s] # Absent
    /\ \A u \in Users : progress[u] # Absent => progress[u].step # s
    /\ Begin(h, [at |-> "deleteStep", user |-> Absent, step |-> s])
    /\ UNCHANGED <<layout, caching, walks, disturbed, requests, crashes>>

\* Its step_progress rows go with it.
Deleted(S) ==
    /\ steps' = [s \in Steps |-> IF s \in S THEN Absent ELSE steps[s]]
    /\ stepRow' = [u \in Users |-> [s \in Steps |-> IF s \in S THEN "none" ELSE stepRow[u][s]]]

DeleteStep(h) ==
    /\ call[h].at = "deleteStep"
    /\ Edit
    /\ Deleted({call[h].step})
    /\ End(h)
    /\ UNCHANGED <<sections, known, cache, progress, visited, disturbed, requests, crashes>>

BeginDeleteSection(h, n) ==
    /\ MayEdit
    /\ sections[n] # Absent
    /\ \A u \in Users : progress[u] # Absent => progress[u].section # n
    /\ Begin(h, [at |-> "deleteSection", user |-> Absent, section |-> n])
    /\ UNCHANGED <<layout, caching, walks, disturbed, requests, crashes>>

DeleteSection(h) ==
    LET n == call[h].section
    IN  /\ call[h].at = "deleteSection"
        /\ Edit
        /\ sections' = [sections EXCEPT ![n] = Absent]
        /\ Deleted({s \in Steps : steps[s] # Absent /\ steps[s].section = n})
        /\ End(h)
        /\ UNCHANGED <<known, cache, progress, visited, disturbed, requests, crashes>>

\* The cache is in the process or in Redis.
Restart ==
    /\ edits + crashes < MaxDisturbances
    /\ crashes' = crashes + 1
    /\ disturbed' = disturbed \cup {call[h].user : h \in {h \in Handlers :
                        call[h] # Idle /\ call[h].user \in Users}}
    /\ call' = [h \in Handlers |-> Idle]
    /\ stale' = FALSE
    /\ cache' \in {cache, Absent}
    /\ overtaken' = (cache' # Absent /\ (overtaken \/ stale))
    /\ UNCHANGED <<layout, walks, requests>>

----------------------------------------------------------------------------
Init ==
    /\ \E first \in FirstLayouts : sections = first.sections /\ steps = first.steps
    /\ known = {n \in Sections : sections[n] # Absent} \cup {s \in Steps : steps[s] # Absent}
    /\ cache = Absent
    /\ stale = FALSE
    /\ overtaken = FALSE
    /\ progress = [u \in Users |-> Absent]
    /\ stepRow = [u \in Users |-> [s \in Steps |-> "none"]]
    /\ call = [h \in Handlers |-> Idle]
    /\ visited = [u \in Users |-> {}]
    /\ disturbed = {}
    /\ requests = 0 /\ edits = 0 /\ crashes = 0

Walk(h) ==
    \/ \E u \in Users : GetProgress(h, u)
    \/ FindFirstStep(h) \/ PlaceProgress(h)
    \/ \E u \in Users, s \in Steps, w \in BOOLEAN : BeginComplete(h, u, s, w)
    \/ MarkCompleted(h) \/ FindNextStep(h) \/ MoveOn(h)
    \/ \E u \in Users, s \in Steps : BeginPing(h, u, s)
    \/ Ping(h)
    \/ \E u \in Users, s \in Steps, a \in {"YES", "NO"} : BeginDecision(h, u, s, a)
    \/ RecordDecision(h) \/ MarkDecided(h)
    \/ \E u \in Users : BeginPhone(h, u) \/ BeginCapture(h, u)
    \/ MarkPhone(h) \/ VerifyPhone(h) \/ ProcessSuccessfulPayment(h)
    \/ ReadStructure(h) \/ FillCache(h)

EditSections ==
    \/ \E n \in Sections, o \in Orders : CreateSection(n, o)
    \/ \E n \in Sections, o \in Orders, b \in BOOLEAN : UpdateSection(n, o, b)
    \/ \E h \in Handlers, n \in Sections : BeginDeleteSection(h, n)
    \/ \E h \in Handlers : DeleteSection(h)

EditSteps ==
    \/ \E s \in Steps, n \in Sections, t \in NewTypes, o \in Orders : CreateStep(s, n, t, o)
    \/ \E s \in Steps, b \in BOOLEAN : UpdateStep(s, b) \/ UpsertStepContent(s, b)
    \/ \E s \in Steps, o \in Orders : ReorderStep(s, o)
    \/ \E h \in Handlers, s \in Steps : BeginDeleteStep(h, s)
    \/ \E h \in Handlers : DeleteStep(h)

Next ==
    \/ \E h \in Handlers : Walk(h)
    \/ EditSections \/ EditSteps
    \/ ExpireCache \/ InvalidateStructureCache \/ Restart

Spec == Init /\ [][Next]_vars

----------------------------------------------------------------------------
(* Properties *)

TypeOK ==
    /\ sections \in [Sections -> Section \cup {Absent}]
    /\ steps \in [Steps -> Step \cup {Absent}]
    /\ known \in SUBSET (Sections \cup Steps)
    /\ stale \in BOOLEAN /\ overtaken \in BOOLEAN
    /\ progress \in [Users -> Row \cup {Absent}]
    /\ stepRow \in [Users -> [Steps -> {"none", "open", "done"}]]
    /\ visited \in [Users -> SUBSET Steps]
    /\ disturbed \in SUBSET Users
    /\ requests \in 0..MaxRequests
    /\ edits \in 0..MaxDisturbances /\ crashes \in 0..MaxDisturbances

\* However the funnel is edited and whatever requests overlap, a user can open only
\* steps they were put on; only a payment completes, and so opens, its gate for a
\* user who was on no step.
OpenWasReached ==
    \A u \in Users, s \in Steps :
        MayOpen(u, s) /\ steps[s].type # "PAYMENT_GATE" => s \in visited[u]

\* A late ping of the player, a second answer or an edit never takes a completed
\* step back; only the deletion of the step removes its row.
CompletionKept ==
    [][\A u \in Users, s \in Steps :
          stepRow[u][s] = "done" => stepRow'[u][s] = "done" \/ steps'[s] = Absent]_vars

\* Who answered has paid, whatever the order of the gates.
DecisionIsPaid ==
    \A u \in Users : progress[u] # Absent /\ progress[u].answer # "none" => progress[u].paid

NoTies ==
    /\ \A s, t \in ActiveSteps : s = t \/ Before(s, t) \/ Before(t, s)
    /\ \A m, n \in ActiveSections : sections[m].order = sections[n].order => m = n

\* validateFunnel warns neither of two rows with one order nor of a missing gate;
\* in such a funnel a user may be led back to a step that is completed.
Walkable ==
    /\ Warnings = {} /\ NoTies
    /\ OfType("PHONE_GATE") # {} /\ OfType("PAYMENT_GATE") # {}

\* In a funnel with both gates that raises no warning and is not edited, a user who
\* sends one request at a time, none of which is lost to a restart, and who neither
\* completes a gate by hand nor pays for a second order, is never left on a step that
\* is completed already, except on the decision after a NO.
NotStuck ==
    \A u \in Users :
        (edits = 0 /\ u \notin disturbed /\ ~Busy(u) /\ progress[u] # Absent /\ Walkable)
            => LET s == progress[u].step
               IN  s = NoStep \/ stepRow[u][s] # "done" \/ progress[u].answer = "NO"

\* S has the first step and, with a step, the one that follows.
ClosedUnderWalk(S) ==
    /\ FirstOfSections(ActiveSections) \subseteq S \cup {NoStep}
    /\ \A s \in S : NextFromCurrent(s) \subseteq S \cup {NoStep}

\* When validation does not warn of an empty section and no two rows share an
\* order, the walk shows every active step: a set it does not leave has them all.
UnwarnedWalkIsComplete ==
    NoTies /\ "EMPTY_SECTION" \notin Warnings =>
        \A S \in SUBSET Steps : ClosedUnderWalk(S) => ActiveSteps \subseteq S

\* Every edit reaches the list of steps that is served: one that is not the current
\* one is about to be dropped, or its reader was overtaken by an edit.
CacheIsFresh == cache \in {Absent, Structure} \/ stale \/ overtaken

\* The rows have their types; who opens a step was put on it, and who answered paid.
GatesHold == TypeOK /\ OpenWasReached /\ DecisionIsPaid

\* A funnel without warnings can be walked: nobody is stuck and no step is left out.
UnwarnedFunnelWorks == NotStuck /\ UnwarnedWalkIsComplete
=============================================================================

---------------------------- MODULE FunnelSteps ----------------------------
(***************************************************************************)
(* The funnel: an administrator lays out active steps in active sections,  *)
(* and every user owns one funnel_progress row that points at the step the *)
(* user is on.  Payment, phone verification and the funnel itself each     *)
(* carry a private copy of the walk to the next step; they agree, so the   *)
(* walk is stated once here and shared by the modules that move a user.    *)
(*                                                                         *)
(* The layout is constant: editing the funnel while users walk it belongs  *)
(* to the funnel CMS, which is not modelled.                               *)
(***************************************************************************)
EXTENDS Integers, FiniteSets

CONSTANTS
    Users,          \* users with a funnel_progress row
    Steps,          \* active funnel steps
    Sections,       \* orders of the active sections, empty sections included
    StepType,       \* funnel_steps.type
    StepSection,    \* order of the section a step belongs to
    StepOrder,      \* order of a step within its section
    NoStep          \* a null currentStepUuid

StepTypes == {"VIDEO_TEXT", "PHONE_GATE", "PAYMENT_GATE", "DECISION"}

ASSUME LayoutAssumption ==
    /\ NoStep \notin Steps
    /\ Sections \subseteq Nat
    /\ StepType \in [Steps -> StepTypes]
    /\ StepSection \in [Steps -> Sections]
    /\ StepOrder \in [Steps -> Nat]

\* Two active steps of one section never share an order: the CMS numbers them.
ASSUME OrderAssumption ==
    \A s, t \in Steps :
        StepSection[s] = StepSection[t] /\ StepOrder[s] = StepOrder[t] => s = t

\* The steps of a section are finitely many, so that findFirst has a first.
ASSUME FiniteAssumption == IsFiniteSet(Steps) /\ IsFiniteSet(Sections)

----------------------------------------------------------------------------
(* The walk *)

\* s comes strictly before t in the funnel.
Before(s, t) ==
    \/ StepSection[s] < StepSection[t]
    \/ StepSection[s] = StepSection[t] /\ StepOrder[s] < StepOrder[t]

StepsOf(section) == {s \in Steps : StepSection[s] = section}

\* findFirst({orderBy: {order: 'asc'}}) over a set of steps of one section;
\* NoStep when the query returns null.
FirstOf(S) ==
    IF S = {} THEN NoStep
    ELSE CHOOSE s \in S : \A t \in S : StepOrder[s] <= StepOrder[t]

LaterInSection(s) ==
    {t \in StepsOf(StepSection[s]) : StepOrder[t] > StepOrder[s]}

LaterSections(s) == {n \in Sections : n > StepSection[s]}

Least(S) == CHOOSE n \in S : \A m \in S : n <= m

\* The next step of the same section; failing that, the first step of the one
\* section that follows, and nothing when that section has no active step.
NextStep(s) ==
    IF LaterInSection(s) # {} THEN FirstOf(LaterInSection(s))
    ELSE IF LaterSections(s) = {} THEN NoStep
    ELSE FirstOf(StepsOf(Least(LaterSections(s))))

\* Where a user with no current step is put: the first step of the first
\* section, which may have none.
FirstStep == IF Sections = {} THEN NoStep ELSE FirstOf(StepsOf(Least(Sections)))

----------------------------------------------------------------------------
(* The progress row *)

\* step = currentStepUuid, done = the completed step_progress rows, phone =
\* phoneVerified, paid = paymentCompleted, finished = (status = COMPLETED).
\* currentSectionUuid follows from step and is not kept apart.
ProgressRow == [step : Steps \cup {NoStep}, done : SUBSET Steps,
                phone : BOOLEAN, paid : BOOLEAN, finished : BOOLEAN]

NewRow == [step |-> FirstStep, done |-> {}, phone |-> FALSE, paid |-> FALSE,
           finished |-> FALSE]

\* Every step before s is completed in row r.
AllBeforeDone(r, s) == \A t \in Steps : Before(t, s) => t \in r.done
=============================================================================

------------------------------- MODULE Leads -------------------------------
(***************************************************************************)
(* The lead of a user: made when the profile is complete, moved by the     *)
(* funnel (phone, decision), by the people it is assigned to, by the       *)
(* nurture job, and handed to the super admin when its distributor stops.  *)
(*                                                                         *)
(* No handler uses a transaction.  The triggers are fire and forget: the   *)
(* request that starts one has been answered, or is, while it runs.  The   *)
(* funnel is reduced to whether a user who has paid stands at the decision *)
(* step, a distributor to whether the role is DISTRIBUTOR.                 *)
(***************************************************************************)
EXTENDS Naturals

CONSTANTS
    Users,          \* users that may become leads
    Distributors,   \* users that are, were or may become distributors
    Admin,          \* the first SUPER_ADMIN
    None,           \* null
    Handlers,       \* requests that may run at the same time
    Jobs,           \* instances of the server, each with its hourly job
    MaxCodes,       \* bound on the phone codes of a user the provider accepts
    MaxCrashes      \* bound on the restarts of the server

ASSUME LeadsAssumption ==
    /\ Admin \notin Distributors
    /\ None \notin Distributors \cup {Admin}
    /\ MaxCodes \in Nat
    /\ MaxCrashes \in Nat

VARIABLES
    lead,           \* leads, per user
    nurture,        \* nurture_enrollments, per user
    acquisition,    \* user_acquisitions.distributorUuid, per user
    complete,       \* users whose status is ACTIVE
    customers,      \* users made CUSTOMER
    serving,        \* distributors with the role DISTRIBUTOR
    atDecision,     \* users who paid and whose current step is the decision
    decision,       \* funnel_progress.decisionAnswer, per user
    codes,          \* phone codes the provider has still to accept, per user
    call,           \* what each handler is doing
    job,            \* what each nurture job is doing
    crashes         \* restarts so far

people == <<acquisition, complete, customers, serving>>
funnel == <<atDecision, decision, codes>>
vars == <<lead, nurture, people, funnel, call, job, crashes>>

----------------------------------------------------------------------------
(* Rows and handlers *)

Owners == Distributors \cup {Admin}

Statuses == {"NEW", "WARM", "HOT", "CONTACTED", "FOLLOWUP", "NURTURE", "LOST",
             "MARK_AS_CUSTOMER"}

Lead == [status : Statuses, assigned : Owners, distributor : Owners \cup {None}]

NoLead == [status |-> "none"]

Days == {1, 3, 7}

\* sent holds the days whose mail was sent, due says that nextEmailAt is past.
Enrollment == [status : {"ACTIVE", "COMPLETED"}, sent : SUBSET Days, due : BOOLEAN]

NotEnrolled == [status |-> "none"]

NewEnrollment == [status |-> "ACTIVE", sent |-> {}, due |-> FALSE]

Idle == [at |-> "idle"]

ProfileCall == [at : {"profile.write", "lead.read", "lead.create"}, user : Users,
                distributor : Owners \cup {None}]

PhoneCall == [at : {"phone.lead"}, user : Users]

DecisionCall == [at : {"decision.write", "decision.lead", "decision.enroll"},
                 user : Users, answer : {"YES", "NO"}]

UpdateCall == [at : {"update.write", "update.promote"}, user : Users, to : Statuses]

\* Handing over what belongs to a distributor: by the column the query looks at,
\* with the users of the leads it found.
HandCall == [at : {"hand.read", "hand.move", "hand.attribute"},
             by : {"assigned", "distributor"}, from : Distributors, users : SUBSET Users]

Calls == {Idle} \cup ProfileCall \cup PhoneCall \cup DecisionCall \cup UpdateCall
             \cup HandCall

\* A job: the enrollments it read and has still to treat, each with the day whose
\* mail it is to send, and the user whose lead it is about to lose.
JobStates == [todo : SUBSET (Users \X Days), losing : SUBSET Users]

Asleep == [todo |-> {}, losing |-> {}]

Begin(h, c) == call[h] = Idle /\ call' = [call EXCEPT ![h] = c]
Goto(h, where) == call' = [call EXCEPT ![h].at = where]
End(h) == call' = [call EXCEPT ![h] = Idle]

HasLead(u) == lead[u] # NoLead
SetStatus(u, status) == lead' = [lead EXCEPT ![u].status = status]

----------------------------------------------------------------------------
(* Creation and attribution *)

\* A visit by the link of a distributor; the first one counts.  The link was looked up
\* when the visitor came, so the distributor may have stopped serving since.
Attribute(u, d) ==
    /\ acquisition[u] = None
    /\ acquisition' = [acquisition EXCEPT ![u] = d]
    /\ UNCHANGED <<lead, nurture, complete, customers, serving, funnel, call, job, crashes>>

\* The code given at signup, which does not wait for it; it overwrites whoever is there.
AttachReferralCode(u, d) ==
    /\ acquisition' = [acquisition EXCEPT ![u] = d]
    /\ UNCHANGED <<lead, nurture, complete, customers, serving, funnel, call, job, crashes>>

CompleteProfile(h, u) ==
    /\ u \notin complete
    /\ Begin(h, [at |-> "profile.write", user |-> u, distributor |-> None])
    /\ UNCHANGED <<lead, nurture, people, funnel, job, crashes>>

WriteProfile(h) ==
    /\ call[h].at = "profile.write"
    /\ complete' = complete \cup {call[h].user}
    /\ Goto(h, "lead.read")
    /\ UNCHANGED <<lead, nurture, acquisition, customers, serving, funnel, job, crashes>>

ReadAttribution(h) ==
    /\ call[h].at = "lead.read"
    /\ IF HasLead(call[h].user)
       THEN End(h)
       ELSE call' = [call EXCEPT ![h].at = "lead.create",
                                 ![h].distributor = acquisition[call[h].user]]
    /\ UNCHANGED <<lead, nurture, people, funnel, job, crashes>>

\* userUuid is unique: a second insert fails and is logged.
CreateLead(h) ==
    LET u == call[h].user
        d == call[h].distributor
    IN  /\ call[h].at = "lead.create"
        /\ lead' = IF HasLead(u) THEN lead
                   ELSE [lead EXCEPT ![u] = [status |-> "NEW", distributor |-> d,
                             assigned |-> IF d = None THEN Admin ELSE d]]
        /\ End(h)
        /\ UNCHANGED <<nurture, people, funnel, job, crashes>>

----------------------------------------------------------------------------
(* Triggers of the funnel *)

\* Whatever completes the current step: away from the decision, or perhaps to it.
MoveOn(u) ==
    IF u \in atDecision THEN atDecision' = atDecision \ {u}
    ELSE atDecision' \in {atDecision, atDecision \cup {u}}

Walk(u) ==
    /\ MoveOn(u)
    /\ UNCHANGED <<lead, nurture, people, decision, codes, call, job, crashes>>

VerifyPhone(h, u) ==
    /\ codes[u] > 0
    /\ codes' = [codes EXCEPT ![u] = @ - 1]
    /\ MoveOn(u)
    /\ Begin(h, [at |-> "phone.lead", user |-> u])
    /\ UNCHANGED <<lead, nurture, people, decision, job, crashes>>

OnPhoneVerified(h) ==
    /\ call[h].at = "phone.lead"
    /\ IF HasLead(call[h].user) THEN SetStatus(call[h].user, "WARM") ELSE UNCHANGED lead
    /\ End(h)
    /\ UNCHANGED <<nurture, people, funnel, job, crashes>>

\* Mutant of RecordDecision: NO may be answered again.
RecordDecisionAgain(h, u, answer) ==
    /\ u \in atDecision
    /\ decision[u] # "YES"
    /\ Begin(h, [at |-> "decision.write", user |-> u, answer |-> answer])
    /\ UNCHANGED <<lead, nurture, people, funnel, job, crashes>>

\* NO may become YES, nothing else may be answered twice.
RecordDecision(h, u, answer) ==
    /\ u \in atDecision
    /\ decision[u] # "YES"
    /\ ~(decision[u] = "NO" /\ answer = "NO")
    /\ Begin(h, [at |-> "decision.write", user |-> u, answer |-> answer])
    /\ UNCHANGED <<lead, nurture, people, funnel, job, crashes>>

WriteDecision(h) ==
    LET u == call[h].user
        answer == call[h].answer
    IN  /\ call[h].at = "decision.write"
        /\ decision' = [decision EXCEPT ![u] = answer]
        /\ atDecision' = IF answer = "YES" THEN atDecision \ {u} ELSE atDecision \cup {u}
        /\ Goto(h, "decision.lead")
        /\ UNCHANGED <<lead, nurture, people, codes, job, crashes>>

OnDecision(h) ==
    LET u == call[h].user
    IN  /\ call[h].at = "decision.lead"
        /\ \/ /\ ~HasLead(u)
              /\ End(h)
              /\ UNCHANGED lead
           \/ /\ HasLead(u)
              /\ call[h].answer = "YES"
              /\ SetStatus(u, "HOT")
              /\ End(h)
           \/ /\ HasLead(u)
              /\ call[h].answer = "NO"
              /\ SetStatus(u, "NURTURE")
              /\ Goto(h, "decision.enroll")
        /\ UNCHANGED <<nurture, people, funnel, job, crashes>>

\* leadUuid is unique: an enrollment that is there stays as it is.
Enroll(h) ==
    LET u == call[h].user
    IN  /\ call[h].at = "decision.enroll"
        /\ nurture' = IF nurture[u] = NotEnrolled
                      THEN [nurture EXCEPT ![u] = NewEnrollment] ELSE nurture
        /\ End(h)
        /\ UNCHANGED <<lead, people, funnel, job, crashes>>

----------------------------------------------------------------------------
(* Manual transitions *)

\* Mutant of AllowedTransitions: a WARM lead may be contacted.
WarmTransitions ==
    {"WARM", "HOT", "CONTACTED", "FOLLOWUP"}
        \X {"CONTACTED", "FOLLOWUP", "MARK_AS_CUSTOMER", "LOST"}

AllowedTransitions ==
    ({"HOT"} \X {"CONTACTED", "FOLLOWUP", "MARK_AS_CUSTOMER", "LOST"})
        \cup ({"CONTACTED"} \X {"FOLLOWUP", "MARK_AS_CUSTOMER", "LOST"})
        \cup ({"FOLLOWUP"} \X {"CONTACTED", "MARK_AS_CUSTOMER", "LOST"})

\* A distributor may update the leads assigned to them, the admin those that no
\* distributor brought.
MayUpdate(actor, u) ==
    \/ actor \in serving /\ lead[u].assigned = actor
    \/ actor = Admin /\ lead[u].distributor = None

UpdateLeadStatus(h, actor, u, to) ==
    /\ HasLead(u)
    /\ MayUpdate(actor, u)
    /\ <<lead[u].status, to>> \in AllowedTransitions
    /\ Begin(h, [at |-> "update.write", user |-> u, to |-> to])
    /\ UNCHANGED <<lead, nurture, people, funnel, job, crashes>>

WriteStatus(h) ==
    /\ call[h].at = "update.write"
    /\ SetStatus(call[h].user, call[h].to)
    /\ IF call[h].to = "MARK_AS_CUSTOMER" THEN Goto(h, "update.promote") ELSE End(h)
    /\ UNCHANGED <<nurture, people, funnel, job, crashes>>

\* The role is set to CUSTOMER, also that of a user who is a distributor.
Promote(h) ==
    /\ call[h].at = "update.promote"
    /\ customers' = customers \cup {call[h].user}
    /\ serving' = serving \ {call[h].user}
    /\ End(h)
    /\ UNCHANGED <<lead, nurture, acquisition, complete, funnel, job, crashes>>

----------------------------------------------------------------------------
(* Hand-over to the super admin *)

StartServing(d) ==
    /\ d \notin serving
    /\ serving' = serving \cup {d}
    /\ UNCHANGED <<lead, nurture, acquisition, complete, customers, funnel, call, job, crashes>>

\* An administrator who takes the role away hands nothing over.
UpdateUserRole(d) ==
    /\ d \in serving
    /\ serving' = serving \ {d}
    /\ UNCHANGED <<lead, nurture, acquisition, complete, customers, funnel, call, job, crashes>>

\* A suspension looks for the leads assigned to the distributor, the end of a
\* subscription for those the distributor brought.
StopServing(h, d, by) ==
    /\ d \in serving
    /\ serving' = serving \ {d}
    /\ Begin(h, [at |-> "hand.read", by |-> by, from |-> d, users |-> {}])
    /\ UNCHANGED <<lead, nurture, acquisition, complete, customers, funnel, job, crashes>>

\* Mutant of Affected: the query goes by the acquisition rows.
AffectedByAttribution(by, d) ==
    {u \in Users : acquisition[u] = d}

Affected(by, d) ==
    {u \in Users : /\ lead[u].status \in Statuses \ {"LOST", "MARK_AS_CUSTOMER"}
                   /\ IF by = "assigned" THEN lead[u].assigned = d
                      ELSE lead[u].distributor = d}

ReadAffected(h) ==
    /\ call[h].at = "hand.read"
    /\ call' = [call EXCEPT ![h].at = "hand.move",
                            ![h].users = Affected(call[h].by, call[h].from)]
    /\ UNCHANGED <<lead, nurture, people, funnel, job, crashes>>

MoveLeads(h) ==
    /\ call[h].at = "hand.move"
    /\ lead' = [u \in Users |-> IF u \in Affected(call[h].by, call[h].from)
                                THEN [lead[u] EXCEPT !.assigned = Admin] ELSE lead[u]]
    /\ IF call[h].users = {} THEN End(h) ELSE Goto(h, "hand.attribute")
    /\ UNCHANGED <<nurture, people, funnel, job, crashes>>

MoveAttribution(h) ==
    /\ call[h].at = "hand.attribute"
    /\ acquisition' = [u \in Users |-> IF u \in call[h].users THEN Admin ELSE acquisition[u]]
    /\ End(h)
    /\ UNCHANGED <<lead, nurture, complete, customers, serving, funnel, job, crashes>>

----------------------------------------------------------------------------
(* The nurture job *)

\* Mails are days apart, and recording an answer or running the job takes no day:
\* time passes for a user while neither is in the middle of it.
Quiet(u) ==
    /\ \A h \in Handlers : call[h] \in DecisionCall => call[h].user # u
    /\ \A j \in Jobs : u \notin job[j].losing /\ \A day \in Days : <<u, day>> \notin job[j].todo

MailDue(u) ==
    /\ nurture[u].status = "ACTIVE"
    /\ ~nurture[u].due
    /\ Quiet(u)
    /\ nurture' = [nurture EXCEPT ![u].due = TRUE]
    /\ UNCHANGED <<lead, people, funnel, call, job, crashes>>

\* Mutant of DueMails: the last mail is never due.
DueMailsButLast ==
    {m \in Users \X {1, 3} :
        /\ nurture[m[1]].status = "ACTIVE"
        /\ nurture[m[1]].due
        /\ m[2] \notin nurture[m[1]].sent
        /\ \A day \in Days : day < m[2] => day \in nurture[m[1]].sent}

\* The enrollments whose mail is due, each with the first day not yet sent.
DueMails ==
    {m \in Users \X Days :
        /\ nurture[m[1]].status = "ACTIVE"
        /\ nurture[m[1]].due
        /\ m[2] \notin nurture[m[1]].sent
        /\ \A day \in Days : day < m[2] => day \in nurture[m[1]].sent}

StartJob(j) ==
    /\ job[j] = Asleep
    /\ DueMails # {}
    /\ job' = [job EXCEPT ![j].todo = DueMails]
    /\ UNCHANGED <<lead, nurture, people, funnel, call, crashes>>

\* After the last mail the enrollment is complete and the lead is lost, in two
\* writes.
SendMail(j, u, day) ==
    /\ <<u, day>> \in job[j].todo
    /\ job[j].losing = {}
    /\ nurture' = [nurture EXCEPT ![u].sent = @ \cup {day}, ![u].due = FALSE,
                       ![u].status = IF day = 7 THEN "COMPLETED" ELSE @]
    /\ job' = [job EXCEPT ![j].todo = @ \ {<<u, day>>},
                          ![j].losing = IF day = 7 THEN {u} ELSE {}]
    /\ UNCHANGED <<lead, people, funnel, call, crashes>>

LoseLead(j, u) ==
    /\ u \in job[j].losing
    /\ SetStatus(u, "LOST")
    /\ job' = [job EXCEPT ![j].losing = {}]
    /\ UNCHANGED <<nurture, people, funnel, call, crashes>>

----------------------------------------------------------------------------
(* The specification *)

Crash ==
    /\ crashes < MaxCrashes
    /\ crashes' = crashes + 1
    /\ call' = [h \in Handlers |-> Idle]
    /\ job' = [j \in Jobs |-> Asleep]
    /\ UNCHANGED <<lead, nurture, people, funnel>>

Init ==
    /\ lead = [u \in Users |-> NoLead]
    /\ nurture = [u \in Users |-> NotEnrolled]
    /\ acquisition = [u \in Users |-> None]
    /\ complete = {}
    /\ customers = {}
    /\ serving \in SUBSET Distributors
    /\ atDecision = {}
    /\ decision = [u \in Users |-> "none"]
    /\ codes = [u \in Users |-> MaxCodes]
    /\ call = [h \in Handlers |-> Idle]
    /\ job = [j \in Jobs |-> Asleep]
    /\ crashes = 0

\* What a running handler does next.
Continue(h) ==
    \/ WriteProfile(h) \/ ReadAttribution(h) \/ CreateLead(h)
    \/ OnPhoneVerified(h)
    \/ WriteDecision(h) \/ OnDecision(h) \/ Enroll(h)
    \/ WriteStatus(h) \/ Promote(h)
    \/ ReadAffected(h) \/ MoveLeads(h) \/ MoveAttribution(h)

\* What users and administrators may start.
Start(h) ==
    \/ \E u \in Users :
          \/ CompleteProfile(h, u)
          \/ VerifyPhone(h, u)
          \/ \E answer \in {"YES", "NO"} : RecordDecision(h, u, answer)
          \/ \E actor \in Owners, to \in Statuses : UpdateLeadStatus(h, actor, u, to)
    \/ \E d \in Distributors, by \in {"assigned", "distributor"} : StopServing(h, d, by)

RunJob(j) ==
    \/ StartJob(j)
    \/ \E u \in Users, day \in Days : SendMail(j, u, day)
    \/ \E u \in Users : LoseLead(j, u)

Next ==
    \/ \E h \in Handlers : Start(h) \/ Continue(h)
    \/ \E j \in Jobs : RunJob(j)
    \/ \E u \in Users : Walk(u) \/ MailDue(u)
    \/ \E u \in Users, d \in Distributors : Attribute(u, d) \/ AttachReferralCode(u, d)
    \/ \E d \in Distributors : StartServing(d) \/ UpdateUserRole(d)
    \/ Crash

Spec == Init /\ [][Next]_vars

\* Handlers and jobs run to their end, and the days pass however often somebody
\* is busy.
FairSpec ==
    /\ Spec
    /\ \A h \in Handlers : WF_vars(Continue(h))
    /\ \A j \in Jobs : WF_vars(RunJob(j))
    /\ \A u \in Users : SF_vars(MailDue(u))

----------------------------------------------------------------------------
(* Properties *)

\* Every row and every handler has a value of its type.
TypeOK ==
    /\ lead \in [Users -> Lead \cup {NoLead}]
    /\ nurture \in [Users -> Enrollment \cup {NotEnrolled}]
    /\ acquisition \in [Users -> Owners \cup {None}]
    /\ complete \subseteq Users
    /\ customers \subseteq Users
    /\ serving \subseteq Distributors
    /\ atDecision \subseteq Users
    /\ decision \in [Users -> {"none", "YES", "NO"}]
    /\ codes \in [Users -> 0..MaxCodes]
    /\ call \in [Handlers -> Calls]
    /\ job \in [Jobs -> JobStates]
    /\ crashes \in 0..MaxCrashes

\* Nobody is worked on before the decision: a lead that is past WARM, a nurture
\* enrollment or a promotion to CUSTOMER is of a user who answered, although the
\* answer is written by the funnel and the lead by handlers that run later, on
\* what they have read (applyStatusChange, recordDecision).
OnlyAnswered ==
    \A u \in Users :
        \/ HasLead(u) /\ lead[u].status \notin {"NEW", "WARM"}
        \/ nurture[u] # NotEnrolled
        \/ u \in customers
        => decision[u] # "none"

\* Handing over never makes the super admin the one who brought a lead: that is for
\* distributors, and updateAdminLeadStatus goes by it.  The hand-over gives the
\* admin the acquisition row that creation reads, but only of users whose lead is
\* there (reassignLeadsOnSuspension, createLeadForUser).
OriginKept ==
    \A u \in Users :
        /\ acquisition[u] = Admin => HasLead(u)
        /\ HasLead(u) => lead[u].distributor # Admin

\* A lead in NURTURE is in somebody's hands: its enrollment is active, is about to
\* be made, or has just run out and the job is about to lose the lead.  A restart
\* between the two writes of onDecisionNo or of the seventh day breaks it.
NurtureIsEnrolled ==
    crashes = 0 =>
        \A u \in Users : lead[u].status = "NURTURE" =>
            \/ nurture[u].status = "ACTIVE"
            \/ \E h \in Handlers : call[h].at = "decision.enroll" /\ call[h].user = u
            \/ \E j \in Jobs : u \in job[j].losing

\* A lead does not stay in NURTURE: it is lost after the last mail unless the user
\* comes back first (processNurtureEmails).
NurtureEnds ==
    [](crashes = 0) =>
        \A u \in Users : lead[u].status = "NURTURE" ~> lead[u].status # "NURTURE"
=============================================================================

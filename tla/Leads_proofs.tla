---------------------------- MODULE Leads_proofs ----------------------------
(***************************************************************************)
(* Proofs about Leads, for any number of users, distributors, handlers and *)
(* jobs, and any bounds.                                                   *)
(***************************************************************************)
EXTENDS Leads, TLAPS

\* What holds of the rows: who is enrolled has a lead, and the two invariants.
Rows ==
    /\ \A u \in Users : nurture[u] # NotEnrolled => HasLead(u)
    /\ OnlyAnswered
    /\ OriginKept

\* What a handler read is still so: the lead it is to write is there, the user
\* it is about has answered, the origin it found is nobody's or a distributor's
\* unless somebody else has made the lead by now.
Holds(v) ==
    /\ v.at \in {"update.write", "update.promote", "decision.enroll"} => HasLead(v.user)
    /\ v.at \in {"update.write", "update.promote", "decision.lead", "decision.enroll"} =>
          decision[v.user] # "none"
    /\ v.at = "lead.create" => v.distributor # Admin \/ HasLead(v.user)
    /\ v.at \in {"hand.move", "hand.attribute"} => \A u \in v.users : HasLead(u)

\* Whom a job holds is enrolled, and it loses one lead at a time.
JobHolds(j) ==
    /\ \A u \in Users, day \in Days : <<u, day>> \in job[j].todo => nurture[u] # NotEnrolled
    /\ \A u \in job[j].losing : nurture[u] # NotEnrolled
    /\ \A u, v \in job[j].losing : u = v

CallsHold == \A h \in Handlers : Holds(call[h])
JobsHold == \A j \in Jobs : JobHolds(j)

Inv == TypeOK /\ Rows /\ CallsHold /\ JobsHold

\* The types of everything but handlers and jobs.
RowsTyped ==
    /\ lead \in [Users -> Lead \cup {NoLead}]
    /\ nurture \in [Users -> Enrollment \cup {NotEnrolled}]
    /\ acquisition \in [Users -> Owners \cup {None}]
    /\ complete \subseteq Users
    /\ customers \subseteq Users
    /\ serving \subseteq Distributors
    /\ atDecision \subseteq Users
    /\ decision \in [Users -> {"none", "YES", "NO"}]
    /\ codes \in [Users -> 0..MaxCodes]
    /\ crashes \in 0..MaxCrashes

\* Leads, answers and enrollments stay.
Growing ==
    \A u \in Users :
        /\ HasLead(u) => HasLead(u)'
        /\ decision[u] # "none" => decision'[u] # "none"
        /\ nurture[u] # NotEnrolled => nurture'[u] # NotEnrolled

\* Every call that moved is one that holds what is there.
CallMoved ==
    \/ call' = call
    \/ \E h \in Handlers, v \in Calls : call' = [call EXCEPT ![h] = v] /\ Holds(v)'

----------------------------------------------------------------------------
(* Handlers and jobs *)

\* The kinds of calls are told apart by their stages.
LEMMA Stages ==
    ASSUME NEW v \in Calls
    PROVE  /\ v.at \in {"profile.write", "lead.read", "lead.create"} => v \in ProfileCall
           /\ v.at = "phone.lead" => v \in PhoneCall
           /\ v.at \in {"decision.write", "decision.lead", "decision.enroll"} =>
                 v \in DecisionCall
           /\ v.at \in {"update.write", "update.promote"} => v \in UpdateCall
           /\ v.at \in {"hand.read", "hand.move", "hand.attribute"} => v \in HandCall
           /\ v \in DecisionCall =>
                 v.at \in {"decision.write", "decision.lead", "decision.enroll"}
<1>1. CASE v = Idle
  BY <1>1 DEF Idle, DecisionCall
<1>2. CASE v \in ProfileCall
  BY <1>2 DEF ProfileCall, DecisionCall
<1>3. CASE v \in PhoneCall
  BY <1>3 DEF PhoneCall, DecisionCall
<1>4. CASE v \in DecisionCall
  BY <1>4 DEF DecisionCall
<1>5. CASE v \in UpdateCall
  BY <1>5 DEF UpdateCall, DecisionCall
<1>6. CASE v \in HandCall
  BY <1>6 DEF HandCall, DecisionCall
<1> QED
  BY <1>1, <1>2, <1>3, <1>4, <1>5, <1>6 DEF Calls

\* What a handler at a stage is, with the users it speaks of.
LEMMA CallFacts ==
    ASSUME TypeOK, NEW h \in Handlers
    PROVE  /\ call[h].at \in {"profile.write", "lead.read", "lead.create"} =>
                 call[h] \in ProfileCall /\ call[h].user \in Users
                    /\ call[h].distributor \in Owners \cup {None}
           /\ call[h].at = "phone.lead" => call[h].user \in Users
           /\ call[h].at \in {"decision.write", "decision.lead", "decision.enroll"} =>
                 call[h] \in DecisionCall /\ call[h].user \in Users
                    /\ call[h].answer \in {"YES", "NO"}
           /\ call[h].at \in {"update.write", "update.promote"} =>
                 call[h] \in UpdateCall /\ call[h].user \in Users
                    /\ call[h].to \in Statuses
           /\ call[h].at \in {"hand.read", "hand.move", "hand.attribute"} =>
                 call[h] \in HandCall /\ call[h].users \subseteq Users
                    /\ call[h].from \in Distributors
<1>1. call[h] \in Calls
  BY DEF TypeOK
<1>2. \A v \in ProfileCall : v.user \in Users /\ v.distributor \in Owners \cup {None}
  BY DEF ProfileCall
<1>3. \A v \in PhoneCall : v.user \in Users
  BY DEF PhoneCall
<1>4. \A v \in DecisionCall : v.user \in Users /\ v.answer \in {"YES", "NO"}
  BY DEF DecisionCall
<1>5. \A v \in UpdateCall : v.user \in Users /\ v.to \in Statuses
  BY DEF UpdateCall
<1>6. \A v \in HandCall : v.users \subseteq Users /\ v.from \in Distributors
  BY DEF HandCall
<1> QED
  BY <1>1, <1>2, <1>3, <1>4, <1>5, <1>6, Stages

\* Handlers that stand still go on holding what is there.
LEMMA HoldsOn ==
    ASSUME TypeOK, CallsHold, Growing, NEW h \in Handlers, call'[h] = call[h]
    PROVE  Holds(call[h])'
<1>1. Holds(call[h])
  BY DEF CallsHold
<1> QED
  BY <1>1, CallFacts DEF Holds, Growing

\* The invariant holds again once rows, handlers and jobs are seen to be right.
LEMMA Preserved ==
    ASSUME Inv, RowsTyped', Rows', Growing, CallMoved,
           \/ job' = job
           \/ job' \in [Jobs -> JobStates] /\ JobsHold'
    PROVE  Inv'
<1>1. call \in [Handlers -> Calls]
  BY DEF Inv, TypeOK
<1>2. call' \in [Handlers -> Calls] /\ CallsHold'
  <2>1. CASE call' = call
    BY <1>1, <2>1, HoldsOn DEF Inv, CallsHold
  <2>2. ASSUME NEW h \in Handlers, NEW v \in Calls,
               call' = [call EXCEPT ![h] = v], Holds(v)'
        PROVE  call' \in [Handlers -> Calls] /\ CallsHold'
    <3>1. call' \in [Handlers -> Calls] /\ call'[h] = v
      BY <1>1, <2>2
    <3>2. Holds(call[h])'
      BY <2>2, <3>1
    <3>3. ASSUME NEW k \in Handlers, k # h
          PROVE  Holds(call[k])'
      BY <1>1, <2>2, <3>3, HoldsOn DEF Inv
    <3> QED
      BY <3>1, <3>2, <3>3 DEF CallsHold
  <2> QED
    BY <2>1, <2>2 DEF CallMoved
<1>3. job' \in [Jobs -> JobStates] /\ JobsHold'
  <2>1. CASE job' = job
    BY <2>1 DEF Inv, TypeOK, JobsHold, JobHolds, Growing, JobStates
  <2> QED
    BY <2>1
<1> QED
  BY <1>2, <1>3 DEF Inv, TypeOK, RowsTyped

\* Rows that stand still.
LEMMA RowsStand ==
    ASSUME Inv, UNCHANGED <<lead, nurture, acquisition, customers, decision>>
    PROVE  Rows' /\ Growing
BY DEF Inv, Rows, OnlyAnswered, OriginKept, HasLead, Growing

LEMMA RowsAreTyped ==
    ASSUME Inv
    PROVE  RowsTyped
BY DEF Inv, TypeOK, RowsTyped

\* A handler that ends, and one that starts or goes on with a call of its kind.
LEMMA EndMoves ==
    ASSUME NEW h \in Handlers, End(h)
    PROVE  CallMoved
<1>1. Idle \in Calls /\ Holds(Idle)'
  BY DEF Calls, Idle, Holds
<1> QED
  BY <1>1 DEF End, CallMoved

LEMMA GotoMoves ==
    ASSUME TypeOK, NEW h \in Handlers, NEW where, Goto(h, where),
           NEW v \in Calls, v = [call[h] EXCEPT !.at = where], Holds(v)'
    PROVE  CallMoved
<1>1. call' = [call EXCEPT ![h] = v]
  BY DEF TypeOK, Goto
<1> QED
  BY <1>1 DEF CallMoved

\* A handler that starts.
LEMMA BeginMoves ==
    ASSUME NEW h \in Handlers, NEW v \in Calls, Begin(h, v), Holds(v)'
    PROVE  CallMoved
BY DEF Begin, CallMoved

\* One lead gets a status that its user's answer allows.
LEMMA StatusSet ==
    ASSUME Inv, NEW u \in Users, HasLead(u), NEW status \in Statuses,
           SetStatus(u, status),
           status \in {"NEW", "WARM"} \/ decision[u] # "none",
           UNCHANGED <<nurture, acquisition, customers, decision>>
    PROVE  lead' \in [Users -> Lead \cup {NoLead}] /\ Rows' /\ Growing
<1>1. /\ lead \in [Users -> Lead \cup {NoLead}]
      /\ lead[u] \in Lead
  BY DEF Inv, TypeOK, HasLead
<1>2. \A r \in Lead : r # NoLead
  BY DEF Lead, NoLead, Statuses
<1>3. /\ [lead[u] EXCEPT !.status = status] \in Lead
      /\ [lead[u] EXCEPT !.status = status].status = status
      /\ [lead[u] EXCEPT !.status = status].distributor = lead[u].distributor
  BY <1>1 DEF Lead
<1>4. \A v \in Users : lead'[v] = IF v = u THEN [lead[u] EXCEPT !.status = status]
                                  ELSE lead[v]
  BY <1>1 DEF SetStatus
<1>5. lead' \in [Users -> Lead \cup {NoLead}]
  BY <1>1, <1>3 DEF SetStatus
<1>6. \A v \in Users : /\ HasLead(v)' <=> HasLead(v)
                       /\ lead'[v].distributor = lead[v].distributor
                       /\ v # u => lead'[v] = lead[v]
  BY <1>1, <1>2, <1>3, <1>4 DEF HasLead
<1>7. lead'[u].status = status
  BY <1>3, <1>4
<1>8. Rows'
  <2>1. OnlyAnswered'
    BY <1>6, <1>7 DEF Inv, Rows, OnlyAnswered
  <2> QED
    BY <1>6, <2>1 DEF Inv, Rows, OriginKept
<1>9. Growing
  BY <1>6 DEF Growing
<1> QED
  BY <1>5, <1>8, <1>9

----------------------------------------------------------------------------
(* The invariant is inductive *)

LEMMA InvInit == Init => Inv
<1> SUFFICES ASSUME Init PROVE Inv
  OBVIOUS
<1>1. TypeOK
  BY LeadsAssumption DEF Init, TypeOK, Calls, Asleep, JobStates
<1>2. Rows
  BY LeadsAssumption DEF Init, Rows, OnlyAnswered, OriginKept, HasLead
<1>3. CallsHold
  BY DEF Init, CallsHold, Holds, Idle
<1>4. JobsHold
  BY DEF Init, JobsHold, JobHolds, Asleep
<1> QED
  BY <1>1, <1>2, <1>3, <1>4 DEF Inv

\* Creation and attribution.
LEMMA CreationKeepsInv ==
    ASSUME Inv, NEW h \in Handlers,
           \/ \E u \in Users : CompleteProfile(h, u)
           \/ WriteProfile(h) \/ ReadAttribution(h) \/ CreateLead(h)
    PROVE  Inv'
<1>1. CASE \E u \in Users : CompleteProfile(h, u)
  <2>1. PICK u \in Users : CompleteProfile(h, u)
    BY <1>1
  <2>2. PICK v \in ProfileCall :
            v = [at |-> "profile.write", user |-> u, distributor |-> None]
    BY DEF ProfileCall
  <2>3. v \in Calls /\ Holds(v)'
    BY <2>2 DEF Calls, Holds
  <2>4. CallMoved
    BY <2>1, <2>2, <2>3, BeginMoves DEF CompleteProfile
  <2>5. UNCHANGED <<lead, nurture, people, funnel, job, crashes>>
    BY <2>1 DEF CompleteProfile
  <2> QED
    BY <2>4, <2>5, RowsStand, RowsAreTyped, Preserved DEF people, funnel, RowsTyped
<1>3. CASE WriteProfile(h)
  <2>1. /\ call[h] \in ProfileCall /\ call[h].user \in Users
    BY <1>3, CallFacts DEF WriteProfile, Inv
  <2>2. PICK v \in ProfileCall : v = [call[h] EXCEPT !.at = "lead.read"]
    BY <2>1 DEF ProfileCall
  <2>3. v \in Calls /\ v.at = "lead.read"
    BY <2>1, <2>2 DEF Calls, ProfileCall
  <2>4. Holds(v)'
    BY <2>3 DEF Holds
  <2>5. CallMoved
    BY <1>3, <2>2, <2>3, <2>4, GotoMoves DEF WriteProfile, Inv
  <2>6. complete' \subseteq Users /\ UNCHANGED <<lead, nurture, acquisition, customers,
                                                 serving, funnel, job, crashes>>
    BY <1>3, <2>1 DEF WriteProfile, Inv, TypeOK
  <2> QED
    BY <2>5, <2>6, RowsStand, RowsAreTyped, Preserved DEF funnel, RowsTyped
<1>4. CASE ReadAttribution(h)
  <2>1. /\ call[h] \in ProfileCall /\ call[h].user \in Users
    BY <1>4, CallFacts DEF ReadAttribution, Inv
  <2>2. CASE HasLead(call[h].user)
    BY <1>4, <2>2, EndMoves, RowsStand, RowsAreTyped, Preserved
       DEF ReadAttribution, people, funnel, RowsTyped
  <2>3. CASE ~HasLead(call[h].user)
    <3>1. acquisition[call[h].user] \in Owners \cup {None}
             /\ acquisition[call[h].user] # Admin
      BY <2>1, <2>3 DEF Inv, TypeOK, Rows, OriginKept
    <3>2. PICK v \in ProfileCall :
              v = [call[h] EXCEPT !.at = "lead.create",
                                  !.distributor = acquisition[call[h].user]]
      BY <2>1, <3>1 DEF ProfileCall
    <3>3. v \in Calls /\ v.at = "lead.create" /\ v.distributor # Admin
      BY <2>1, <3>1, <3>2 DEF Calls, ProfileCall
    <3>4. Holds(v)'
      BY <3>3 DEF Holds
    <3>5. call' = [call EXCEPT ![h] = v]
      BY <1>4, <2>3, <3>2 DEF ReadAttribution, Inv, TypeOK
    <3>6. CallMoved
      BY <3>3, <3>4, <3>5 DEF CallMoved
    <3>7. UNCHANGED <<lead, nurture, people, funnel, job, crashes>>
      BY <1>4 DEF ReadAttribution
    <3> QED
      BY <3>6, <3>7, RowsStand, RowsAreTyped, Preserved DEF people, funnel, RowsTyped
  <2> QED
    BY <2>2, <2>3
<1>5. CASE CreateLead(h)
  <2>1. /\ call[h].user \in Users /\ call[h].distributor \in Owners \cup {None}
        /\ call[h].distributor # Admin \/ HasLead(call[h].user)
    BY <1>5, CallFacts DEF CreateLead, Inv, CallsHold, Holds
  <2>2. CallMoved /\ UNCHANGED <<nurture, people, funnel, job, crashes>>
    BY <1>5, EndMoves DEF CreateLead
  <2>3. CASE HasLead(call[h].user)
    <3>1. lead' = lead
      BY <1>5, <2>3 DEF CreateLead
    <3> QED
      BY <2>2, <3>1, RowsStand, RowsAreTyped, Preserved DEF people, funnel, RowsTyped
  <2>4. CASE ~HasLead(call[h].user)
    <3>1. PICK r \in Lead : /\ lead' = [lead EXCEPT ![call[h].user] = r]
                            /\ r.status = "NEW"
                            /\ r.distributor # Admin
      <4> DEFINE d == call[h].distributor
                 r == [status |-> "NEW", distributor |-> d,
                       assigned |-> IF d = None THEN Admin ELSE d]
      <4>1. r \in Lead
        BY <2>1 DEF Lead, Statuses, Owners
      <4> QED
        BY <1>5, <2>1, <2>4, <4>1 DEF CreateLead
    <3>2. r # NoLead
      BY DEF Lead, NoLead, Statuses
    <3>3. \A u \in Users : lead'[u] = lead[u] \/ (lead'[u] = r /\ HasLead(u)')
      <4>1. \A u \in Users : lead'[u] = IF u = call[h].user THEN r ELSE lead[u]
        BY <3>1 DEF Inv, TypeOK
      <4> QED
        BY <3>2, <4>1 DEF HasLead
    <3>4. lead' \in [Users -> Lead \cup {NoLead}]
      BY <3>1 DEF Inv, TypeOK
    <3>5. Rows'
      BY <2>2, <3>1, <3>3
         DEF Inv, Rows, OnlyAnswered, OriginKept, HasLead, people, funnel
    <3>6. Growing
      BY <2>2, <3>3 DEF Growing, HasLead, people, funnel
    <3> QED
      BY <2>2, <3>4, <3>5, <3>6, RowsAreTyped, Preserved DEF people, funnel, RowsTyped
  <2> QED
    BY <2>3, <2>4
<1> QED
  BY <1>1, <1>3, <1>4, <1>5

\* Triggers of the funnel.
LEMMA TriggersKeepInv ==
    ASSUME Inv, NEW h \in Handlers,
           \/ \E u \in Users : VerifyPhone(h, u)
           \/ \E u \in Users, answer \in {"YES", "NO"} : RecordDecision(h, u, answer)
           \/ OnPhoneVerified(h) \/ WriteDecision(h) \/ OnDecision(h) \/ Enroll(h)
    PROVE  Inv'
<1>1. \A u \in Users : MoveOn(u) => atDecision' \subseteq Users
  BY DEF MoveOn, Inv, TypeOK
<1>3. CASE \E u \in Users : VerifyPhone(h, u)
  <2>1. PICK u \in Users : VerifyPhone(h, u)
    BY <1>3
  <2>2. PICK v \in PhoneCall : v = [at |-> "phone.lead", user |-> u]
    BY DEF PhoneCall
  <2>3. v \in Calls /\ Holds(v)'
    BY <2>2 DEF Calls, Holds
  <2>4. CallMoved
    BY <2>1, <2>2, <2>3, BeginMoves DEF VerifyPhone
  <2>5. atDecision' \subseteq Users /\ UNCHANGED <<lead, nurture, people, decision, job, crashes>>
    BY <1>1, <2>1 DEF VerifyPhone
  <2>6. codes' \in [Users -> 0..MaxCodes]
    BY <2>1, LeadsAssumption DEF VerifyPhone, Inv, TypeOK
  <2> QED
    BY <2>4, <2>5, <2>6, RowsStand, RowsAreTyped, Preserved DEF people, RowsTyped
<1>4. CASE \E u \in Users, answer \in {"YES", "NO"} : RecordDecision(h, u, answer)
  <2>1. PICK u \in Users, answer \in {"YES", "NO"} : RecordDecision(h, u, answer)
    BY <1>4
  <2>2. PICK v \in DecisionCall :
            v = [at |-> "decision.write", user |-> u, answer |-> answer]
    BY DEF DecisionCall
  <2>3. v \in Calls /\ Holds(v)'
    BY <2>2 DEF Calls, Holds
  <2>4. CallMoved
    BY <2>1, <2>2, <2>3, BeginMoves DEF RecordDecision
  <2>5. UNCHANGED <<lead, nurture, people, funnel, job, crashes>>
    BY <2>1 DEF RecordDecision
  <2> QED
    BY <2>4, <2>5, RowsStand, RowsAreTyped, Preserved DEF people, funnel, RowsTyped
<1>5. CASE OnPhoneVerified(h)
  <2>1. call[h].user \in Users
    BY <1>5, CallFacts DEF OnPhoneVerified, Inv
  <2>2. CallMoved /\ UNCHANGED <<nurture, people, funnel, job, crashes>>
    BY <1>5, EndMoves DEF OnPhoneVerified
  <2>3. lead' \in [Users -> Lead \cup {NoLead}] /\ Rows' /\ Growing
    <3>1. CASE HasLead(call[h].user)
      <4>1. SetStatus(call[h].user, "WARM")
        BY <1>5, <3>1 DEF OnPhoneVerified
      <4>2. "WARM" \in Statuses
        BY DEF Statuses
      <4> QED
        BY <2>1, <2>2, <3>1, <4>1, <4>2, StatusSet DEF people, funnel
    <3>2. CASE ~HasLead(call[h].user)
      <4>1. lead' = lead
        BY <1>5, <3>2 DEF OnPhoneVerified
      <4> QED
        BY <2>2, <4>1, RowsStand DEF people, funnel, Inv, TypeOK
    <3> QED
      BY <3>1, <3>2
  <2> QED
    BY <2>2, <2>3, RowsAreTyped, Preserved DEF people, funnel, RowsTyped
<1>6. CASE WriteDecision(h)
  <2>1. call[h] \in DecisionCall /\ call[h].user \in Users /\ call[h].answer \in {"YES", "NO"}
    BY <1>6, CallFacts DEF WriteDecision, Inv
  <2>2. PICK u \in Users, answer \in {"YES", "NO"} : u = call[h].user /\ answer = call[h].answer
    BY <2>1
  <2>3. /\ decision' = [decision EXCEPT ![u] = answer]
        /\ atDecision' \subseteq Users
        /\ Goto(h, "decision.lead")
        /\ UNCHANGED <<lead, nurture, people, codes, job, crashes>>
    BY <1>6, <2>2 DEF WriteDecision, Inv, TypeOK
  <2>4. \A w \in Users : decision'[w] = IF w = u THEN answer ELSE decision[w]
    BY <2>3 DEF Inv, TypeOK
  <2>5. PICK v \in DecisionCall : v = [call[h] EXCEPT !.at = "decision.lead"]
    BY <2>1 DEF DecisionCall
  <2>6. v \in Calls /\ v.at = "decision.lead" /\ v.user = u
    BY <2>1, <2>2, <2>5 DEF Calls, DecisionCall
  <2>7. Holds(v)'
    BY <2>4, <2>6 DEF Holds
  <2>8. CallMoved
    BY <2>3, <2>5, <2>6, <2>7, GotoMoves DEF Inv
  <2>9. decision' \in [Users -> {"none", "YES", "NO"}]
    BY <2>3 DEF Inv, TypeOK
  <2>10. Rows' /\ Growing
    BY <2>3, <2>4 DEF Inv, Rows, OnlyAnswered, OriginKept, HasLead, Growing, people
  <2> QED
    BY <2>3, <2>8, <2>9, <2>10, RowsAreTyped, Preserved DEF people, RowsTyped
<1>7. CASE OnDecision(h)
  <2>1. call[h] \in DecisionCall /\ call[h].user \in Users /\ decision[call[h].user] # "none"
    BY <1>7, CallFacts DEF OnDecision, Inv, CallsHold, Holds
  <2>2. UNCHANGED <<nurture, people, funnel, job, crashes>>
    BY <1>7 DEF OnDecision
  <2>3. PICK u \in Users : u = call[h].user
    BY <2>1
  <2>4. "HOT" \in Statuses /\ "NURTURE" \in Statuses
    BY DEF Statuses
  <2>5. CASE ~HasLead(u) /\ End(h) /\ UNCHANGED lead
    <3>1. CallMoved
      BY <2>5, EndMoves
    <3> QED
      BY <2>2, <2>5, <3>1, RowsStand, RowsAreTyped, Preserved DEF people, funnel, RowsTyped
  <2>6. CASE HasLead(u) /\ SetStatus(u, "HOT") /\ End(h)
    <3>1. CallMoved
      BY <2>6, EndMoves
    <3>2. lead' \in [Users -> Lead \cup {NoLead}] /\ Rows' /\ Growing
      BY <2>1, <2>2, <2>3, <2>4, <2>6, StatusSet DEF people, funnel
    <3> QED
      BY <2>2, <3>1, <3>2, RowsAreTyped, Preserved DEF people, funnel, RowsTyped
  <2>7. CASE HasLead(u) /\ SetStatus(u, "NURTURE") /\ Goto(h, "decision.enroll")
    <3>1. lead' \in [Users -> Lead \cup {NoLead}] /\ Rows' /\ Growing
      BY <2>1, <2>2, <2>3, <2>4, <2>7, StatusSet DEF people, funnel
    <3>2. PICK v \in DecisionCall : v = [call[h] EXCEPT !.at = "decision.enroll"]
      BY <2>1 DEF DecisionCall
    <3>3. v \in Calls /\ v.at = "decision.enroll" /\ v.user = u
      BY <2>1, <2>3, <3>2 DEF Calls, DecisionCall
    <3>4. Holds(v)'
      BY <2>1, <2>3, <2>7, <3>1, <3>3 DEF Holds, Growing
    <3>5. CallMoved
      BY <2>7, <3>2, <3>3, <3>4, GotoMoves DEF Inv
    <3> QED
      BY <2>2, <3>1, <3>5, RowsAreTyped, Preserved DEF people, funnel, RowsTyped
  <2> QED
    BY <1>7, <2>3, <2>5, <2>6, <2>7 DEF OnDecision
<1>8. CASE Enroll(h)
  <2>1. /\ call[h].user \in Users /\ HasLead(call[h].user)
        /\ decision[call[h].user] # "none"
    BY <1>8, CallFacts DEF Enroll, Inv, CallsHold, Holds
  <2>2. CallMoved /\ UNCHANGED <<lead, people, funnel, job, crashes>>
    BY <1>8, EndMoves DEF Enroll
  <2>3. NewEnrollment \in Enrollment /\ NewEnrollment # NotEnrolled
    BY DEF NewEnrollment, Enrollment, NotEnrolled
  <2>4. \A u \in Users : \/ nurture'[u] = nurture[u]
                         \/ nurture'[u] = NewEnrollment /\ u = call[h].user
    BY <1>8 DEF Enroll, Inv, TypeOK
  <2>5. nurture' \in [Users -> Enrollment \cup {NotEnrolled}]
    BY <1>8, <2>1, <2>3 DEF Enroll, Inv, TypeOK
  <2>6. Rows'
    BY <2>1, <2>2, <2>4 DEF Inv, Rows, OnlyAnswered, OriginKept, HasLead, people, funnel
  <2>7. Growing
    BY <2>2, <2>3, <2>4 DEF Growing, HasLead, people, funnel
  <2> QED
    BY <2>2, <2>5, <2>6, <2>7, RowsAreTyped, Preserved DEF people, funnel, RowsTyped
<1> QED
  BY <1>3, <1>4, <1>5, <1>6, <1>7, <1>8

\* Manual transitions.
LEMMA UpdatesKeepInv ==
    ASSUME Inv, NEW h \in Handlers,
           \/ \E u \in Users, actor \in Owners, to \in Statuses :
                 UpdateLeadStatus(h, actor, u, to)
           \/ WriteStatus(h) \/ Promote(h)
    PROVE  Inv'
<1>1. CASE \E u \in Users, actor \in Owners, to \in Statuses : UpdateLeadStatus(h, actor, u, to)
  <2>1. PICK u \in Users, actor \in Owners, to \in Statuses : UpdateLeadStatus(h, actor, u, to)
    BY <1>1
  <2>2. UNCHANGED <<lead, nurture, people, funnel, job, crashes>>
    BY <2>1 DEF UpdateLeadStatus
  <2>3. HasLead(u) /\ decision[u] # "none"
    <3>1. lead[u].status \in {"HOT", "CONTACTED", "FOLLOWUP"}
      BY <2>1 DEF UpdateLeadStatus, AllowedTransitions
    <3> QED
      BY <2>1, <3>1 DEF UpdateLeadStatus, Inv, Rows, OnlyAnswered
  <2>4. PICK v \in UpdateCall : v = [at |-> "update.write", user |-> u, to |-> to]
    BY DEF UpdateCall
  <2>5. v \in Calls /\ Holds(v)'
    BY <2>2, <2>3, <2>4 DEF Calls, Holds, HasLead, funnel
  <2>6. CallMoved
    BY <2>1, <2>4, <2>5, BeginMoves DEF UpdateLeadStatus
  <2> QED
    BY <2>2, <2>6, RowsStand, RowsAreTyped, Preserved DEF people, funnel, RowsTyped
<1>2. CASE WriteStatus(h)
  <2>1. /\ call[h] \in UpdateCall /\ call[h].user \in Users /\ call[h].to \in Statuses
        /\ HasLead(call[h].user) /\ decision[call[h].user] # "none"
    BY <1>2, CallFacts DEF WriteStatus, Inv, CallsHold, Holds
  <2>2. UNCHANGED <<nurture, people, funnel, job, crashes>>
    BY <1>2 DEF WriteStatus
  <2>3. lead' \in [Users -> Lead \cup {NoLead}] /\ Rows' /\ Growing
    BY <1>2, <2>1, <2>2, StatusSet DEF WriteStatus, people, funnel
  <2>4. CallMoved
    <3>1. CASE End(h)
      BY <3>1, EndMoves
    <3>2. CASE Goto(h, "update.promote")
      <4>1. PICK v \in UpdateCall : v = [call[h] EXCEPT !.at = "update.promote"]
        BY <2>1 DEF UpdateCall
      <4>2. v \in Calls /\ v.at = "update.promote" /\ v.user = call[h].user
        BY <2>1, <4>1 DEF Calls, UpdateCall
      <4>3. PICK u \in Users : u = call[h].user
        BY <2>1
      <4>4. Holds(v)'
        BY <2>1, <2>3, <4>2, <4>3 DEF Holds, Growing
      <4> QED
        BY <3>2, <4>1, <4>2, <4>4, GotoMoves DEF Inv
    <3> QED
      BY <1>2, <3>1, <3>2 DEF WriteStatus
  <2> QED
    BY <2>2, <2>3, <2>4, RowsAreTyped, Preserved DEF people, funnel, RowsTyped
<1>3. CASE Promote(h)
  <2>1. /\ call[h].user \in Users /\ decision[call[h].user] # "none"
    BY <1>3, CallFacts DEF Promote, Inv, CallsHold, Holds
  <2>2. /\ CallMoved /\ customers' = customers \cup {call[h].user}
        /\ serving' \subseteq serving
        /\ UNCHANGED <<lead, nurture, acquisition, complete, funnel, job, crashes>>
    BY <1>3, EndMoves DEF Promote
  <2>3. Rows' /\ Growing
    BY <2>1, <2>2 DEF Inv, Rows, OnlyAnswered, OriginKept, HasLead, Growing, funnel
  <2> QED
    BY <2>1, <2>2, <2>3, RowsAreTyped, Preserved DEF funnel, RowsTyped
<1> QED
  BY <1>1, <1>2, <1>3

\* Hand-over to the super admin.
LEMMA HandOverKeepsInv ==
    ASSUME Inv, NEW h \in Handlers,
           \/ \E d \in Distributors, by \in {"assigned", "distributor"} : StopServing(h, d, by)
           \/ ReadAffected(h) \/ MoveLeads(h) \/ MoveAttribution(h)
    PROVE  Inv'
<1>2. CASE \E d \in Distributors, by \in {"assigned", "distributor"} : StopServing(h, d, by)
  <2>1. PICK d \in Distributors, by \in {"assigned", "distributor"} : StopServing(h, d, by)
    BY <1>2
  <2>2. PICK v \in HandCall : v = [at |-> "hand.read", by |-> by, from |-> d, users |-> {}]
    BY DEF HandCall
  <2>3. v \in Calls /\ Holds(v)'
    BY <2>2 DEF Calls, Holds
  <2>4. CallMoved
    BY <2>1, <2>2, <2>3, BeginMoves DEF StopServing
  <2>5. serving' \subseteq Distributors
           /\ UNCHANGED <<lead, nurture, acquisition, complete, customers, funnel, job, crashes>>
    BY <2>1 DEF StopServing, Inv, TypeOK
  <2> QED
    BY <2>4, <2>5, RowsStand, RowsAreTyped, Preserved DEF funnel, RowsTyped
<1>3. ASSUME NEW by, NEW d, NEW u \in Affected(by, d)
      PROVE  u \in Users /\ lead[u] \in Lead /\ HasLead(u)
  BY <1>3 DEF Affected, Inv, TypeOK, HasLead, NoLead, Statuses
<1>4. CASE ReadAffected(h)
  <2>1. call[h] \in HandCall
    BY <1>4, CallFacts DEF ReadAffected, Inv
  <2>2. UNCHANGED <<lead, nurture, people, funnel, job, crashes>>
    BY <1>4 DEF ReadAffected
  <2>3. PICK found \in SUBSET Users : found = Affected(call[h].by, call[h].from)
    BY DEF Affected
  <2>4. PICK v \in HandCall : v = [call[h] EXCEPT !.at = "hand.move", !.users = found]
    BY <2>1 DEF HandCall
  <2>5. v \in Calls /\ v.at = "hand.move" /\ v.users = found
    BY <2>1, <2>4 DEF Calls, HandCall
  <2>6. Holds(v)'
    BY <1>3, <2>2, <2>3, <2>5 DEF Holds, HasLead
  <2>7. call' = [call EXCEPT ![h] = v]
    BY <1>4, <2>3, <2>4 DEF ReadAffected, Inv, TypeOK
  <2>8. CallMoved
    BY <2>5, <2>6, <2>7 DEF CallMoved
  <2> QED
    BY <2>2, <2>8, RowsStand, RowsAreTyped, Preserved DEF people, funnel, RowsTyped
<1>5. CASE MoveLeads(h)
  <2>1. call[h] \in HandCall /\ \A u \in call[h].users : u \in Users /\ HasLead(u)
    BY <1>5, CallFacts DEF MoveLeads, Inv, CallsHold, Holds
  <2>2. UNCHANGED <<nurture, people, funnel, job, crashes>>
    BY <1>5 DEF MoveLeads
  <2>3. PICK found \in SUBSET Users : found = Affected(call[h].by, call[h].from)
    BY DEF Affected
  <2>4. lead' = [u \in Users |-> IF u \in found THEN [lead[u] EXCEPT !.assigned = Admin]
                                 ELSE lead[u]]
    BY <1>5, <2>3 DEF MoveLeads
  <2>5. \A u \in found : /\ lead[u] \in Lead
                         /\ HasLead(u)
                         /\ [lead[u] EXCEPT !.assigned = Admin] \in Lead
                         /\ [lead[u] EXCEPT !.assigned = Admin].status = lead[u].status
                         /\ [lead[u] EXCEPT !.assigned = Admin].distributor
                               = lead[u].distributor
    BY <1>3, <2>3 DEF Lead, Owners
  <2>6. lead' \in [Users -> Lead \cup {NoLead}]
    BY <2>4, <2>5 DEF Inv, TypeOK
  <2>7. \A r \in Lead : r # NoLead
    BY DEF Lead, NoLead, Statuses
  <2>8. \A u \in Users : /\ HasLead(u)' <=> HasLead(u)
                         /\ lead'[u].status = lead[u].status
                         /\ lead'[u].distributor = lead[u].distributor
    BY <2>4, <2>5, <2>7 DEF HasLead
  <2>9. Rows' /\ Growing
    BY <2>2, <2>8 DEF Inv, Rows, OnlyAnswered, OriginKept, Growing, people, funnel
  <2>10. CallMoved
    <3>1. CASE End(h)
      BY <3>1, EndMoves
    <3>2. CASE Goto(h, "hand.attribute")
      <4>1. PICK v \in HandCall : v = [call[h] EXCEPT !.at = "hand.attribute"]
        BY <2>1 DEF HandCall
      <4>2. v \in Calls /\ v.at = "hand.attribute" /\ v.users = call[h].users
        BY <2>1, <4>1 DEF Calls, HandCall
      <4>3. \A u \in v.users : HasLead(u)'
        BY <2>1, <2>8, <4>2
      <4>4. Holds(v)'
        BY <4>2, <4>3 DEF Holds
      <4> QED
        BY <3>2, <4>1, <4>2, <4>4, GotoMoves DEF Inv
    <3> QED
      BY <1>5, <3>1, <3>2 DEF MoveLeads
  <2> QED
    BY <2>2, <2>6, <2>9, <2>10, RowsAreTyped, Preserved DEF people, funnel, RowsTyped
<1>6. CASE MoveAttribution(h)
  <2>1. \A u \in call[h].users : HasLead(u)
    BY <1>6 DEF MoveAttribution, Inv, CallsHold, Holds
  <2>2. /\ CallMoved
        /\ acquisition' = [u \in Users |-> IF u \in call[h].users THEN Admin
                                           ELSE acquisition[u]]
        /\ UNCHANGED <<lead, nurture, complete, customers, serving, funnel, job, crashes>>
    BY <1>6, EndMoves DEF MoveAttribution
  <2>3. acquisition' \in [Users -> Owners \cup {None}]
    BY <2>2 DEF Inv, TypeOK, Owners
  <2>4. Rows' /\ Growing
    BY <2>1, <2>2 DEF Inv, Rows, OnlyAnswered, OriginKept, HasLead, Growing, funnel
  <2> QED
    BY <2>2, <2>3, <2>4, RowsAreTyped, Preserved DEF funnel, RowsTyped
<1> QED
  BY <1>2, <1>4, <1>5, <1>6

\* The nurture job.
LEMMA JobsKeepInv ==
    ASSUME Inv, NEW j \in Jobs, RunJob(j)
    PROVE  Inv'
<1>2. job \in [Jobs -> JobStates] /\ job[j] \in JobStates
  BY DEF Inv, TypeOK
<1>3. CASE StartJob(j)
  <2>1. /\ job' = [job EXCEPT ![j].todo = DueMails]
        /\ UNCHANGED <<lead, nurture, people, funnel, call, crashes>>
    BY <1>3 DEF StartJob
  <2>2. PICK mails \in SUBSET (Users \X Days) : mails = DueMails
    BY DEF DueMails
  <2>3. \A u \in Users, day \in Days : <<u, day>> \in mails => nurture[u] # NotEnrolled
    BY <2>2 DEF DueMails, NotEnrolled
  <2>4. /\ [job[j] EXCEPT !.todo = mails] \in JobStates
        /\ [job[j] EXCEPT !.todo = mails].todo = mails
        /\ [job[j] EXCEPT !.todo = mails].losing = job[j].losing
    BY <1>2 DEF JobStates
  <2>5. job' = [job EXCEPT ![j] = [job[j] EXCEPT !.todo = mails]]
    BY <1>2, <2>1, <2>2
  <2>6. job' \in [Jobs -> JobStates] /\ JobsHold'
    BY <1>2, <2>1, <2>3, <2>4, <2>5 DEF Inv, JobsHold, JobHolds
  <2> QED
    BY <2>1, <2>6, RowsStand, RowsAreTyped, Preserved DEF people, funnel, RowsTyped, CallMoved
<1>4. ASSUME NEW u \in Users, NEW day \in Days, SendMail(j, u, day)
      PROVE  Inv'
  <2>1. /\ <<u, day>> \in job[j].todo /\ nurture[u] # NotEnrolled
        /\ UNCHANGED <<lead, people, funnel, call, crashes>>
    BY <1>4 DEF SendMail, Inv, JobsHold, JobHolds
  <2>2. nurture[u] \in Enrollment
    BY <2>1 DEF Inv, TypeOK
  <2>3. PICK r \in Enrollment : nurture' = [nurture EXCEPT ![u] = r]
    <3> DEFINE r == [nurture[u] EXCEPT !.sent = @ \cup {day}, !.due = FALSE,
                        !.status = IF day = 7 THEN "COMPLETED" ELSE @]
    <3>1. r \in Enrollment
      BY <2>2 DEF Enrollment
    <3>2. nurture' = [nurture EXCEPT ![u] = r]
      BY <1>4 DEF SendMail, Inv, TypeOK
    <3> QED
      BY <3>1, <3>2
  <2>4. \A e \in Enrollment : e # NotEnrolled
    BY DEF Enrollment, NotEnrolled
  <2>5. /\ nurture' \in [Users -> Enrollment \cup {NotEnrolled}]
        /\ \A v \in Users : nurture'[v] # NotEnrolled <=> nurture[v] # NotEnrolled
    BY <2>1, <2>3, <2>4 DEF Inv, TypeOK
  <2>6. Rows' /\ Growing
    BY <2>1, <2>5 DEF Inv, Rows, OnlyAnswered, OriginKept, HasLead, Growing, people, funnel
  <2>7. PICK s \in JobStates : /\ job' = [job EXCEPT ![j] = s]
                               /\ s.todo \subseteq job[j].todo
                               /\ s.losing \subseteq {u}
    <3> DEFINE s == [job[j] EXCEPT !.todo = @ \ {<<u, day>>},
                                   !.losing = IF day = 7 THEN {u} ELSE {}]
    <3>1. s \in JobStates /\ s.todo \subseteq job[j].todo /\ s.losing \subseteq {u}
      BY <1>2 DEF JobStates
    <3>2. job' = [job EXCEPT ![j] = s]
      BY <1>2, <1>4 DEF SendMail
    <3> QED
      BY <3>1, <3>2
  <2>8. job' \in [Jobs -> JobStates] /\ JobsHold'
    <3>1. job' \in [Jobs -> JobStates] /\ job'[j] = s
      BY <1>2, <2>7
    <3>2. JobHolds(j)'
      BY <2>1, <2>5, <2>7, <3>1 DEF Inv, JobsHold, JobHolds
    <3>3. ASSUME NEW k \in Jobs, k # j
          PROVE  JobHolds(k)'
      <4>1. job'[k] = job[k] /\ JobHolds(k) /\ job[k].losing \subseteq Users
        BY <1>2, <2>7, <3>3 DEF Inv, JobsHold, JobStates
      <4> QED
        BY <2>5, <4>1 DEF JobHolds
    <3> QED
      BY <3>1, <3>2, <3>3 DEF JobsHold
  <2> QED
    BY <2>1, <2>5, <2>6, <2>8, RowsAreTyped, Preserved DEF people, funnel, RowsTyped, CallMoved
<1>5. ASSUME NEW u \in Users, LoseLead(j, u)
      PROVE  Inv'
  <2>1. /\ u \in job[j].losing /\ SetStatus(u, "LOST")
        /\ job' = [job EXCEPT ![j].losing = {}]
        /\ UNCHANGED <<nurture, people, funnel, call, crashes>>
    BY <1>5 DEF LoseLead
  <2>2. HasLead(u) /\ decision[u] # "none" /\ "LOST" \in Statuses
    BY <2>1 DEF Inv, JobsHold, JobHolds, Rows, OnlyAnswered, Statuses
  <2>3. lead' \in [Users -> Lead \cup {NoLead}] /\ Rows' /\ Growing
    BY <2>1, <2>2, StatusSet DEF people, funnel
  <2>4. job' \in [Jobs -> JobStates] /\ JobsHold'
    <3>1. /\ [job[j] EXCEPT !.losing = {}] \in JobStates
          /\ [job[j] EXCEPT !.losing = {}].todo = job[j].todo
          /\ [job[j] EXCEPT !.losing = {}].losing = {}
      BY <1>2 DEF JobStates
    <3>2. job' = [job EXCEPT ![j] = [job[j] EXCEPT !.losing = {}]]
      BY <1>2, <2>1
    <3> QED
      BY <1>2, <2>1, <3>1, <3>2 DEF Inv, JobsHold, JobHolds
  <2> QED
    BY <2>1, <2>3, <2>4, RowsAreTyped, Preserved DEF people, funnel, RowsTyped, CallMoved
<1> QED
  BY <1>3, <1>4, <1>5 DEF RunJob

\* What no handler does: visits, the walk through the funnel, subscriptions, days.
LEMMA EnvironmentKeepsInv ==
    ASSUME Inv,
           \/ \E u \in Users : Walk(u) \/ MailDue(u)
           \/ \E u \in Users, d \in Distributors : Attribute(u, d) \/ AttachReferralCode(u, d)
           \/ \E d \in Distributors : StartServing(d) \/ UpdateUserRole(d)
    PROVE  Inv'
<1>1. CASE \E u \in Users, d \in Distributors : Attribute(u, d) \/ AttachReferralCode(u, d)
  <2>1. PICK u \in Users, d \in Distributors : Attribute(u, d) \/ AttachReferralCode(u, d)
    BY <1>1
  <2>2. /\ acquisition' = [acquisition EXCEPT ![u] = d]
        /\ UNCHANGED <<lead, nurture, complete, customers, serving, funnel, call, job,
                       crashes>>
    BY <2>1 DEF Attribute, AttachReferralCode
  <2>3. acquisition' \in [Users -> Owners \cup {None}]
    BY <2>2 DEF Inv, TypeOK, Owners
  <2>4. Rows'
    <3>1. \A v \in Users : acquisition'[v] = Admin => acquisition[v] = Admin
      BY <2>2, LeadsAssumption DEF Inv, TypeOK
    <3> QED
      BY <2>2, <3>1 DEF Inv, Rows, OnlyAnswered, OriginKept, HasLead, funnel
  <2>5. Growing
    BY <2>2 DEF Growing, HasLead, funnel
  <2> QED
    BY <2>2, <2>3, <2>4, <2>5, RowsAreTyped, Preserved DEF funnel, RowsTyped, CallMoved
<1>2. CASE \E u \in Users : Walk(u)
  <2>1. atDecision' \subseteq Users
           /\ UNCHANGED <<lead, nurture, people, decision, codes, call, job, crashes>>
    BY <1>2 DEF Walk, MoveOn, Inv, TypeOK
  <2> QED
    BY <2>1, RowsStand, RowsAreTyped, Preserved DEF people, RowsTyped, CallMoved
<1>3. CASE \E d \in Distributors : StartServing(d) \/ UpdateUserRole(d)
  <2>1. serving' \subseteq Distributors
           /\ UNCHANGED <<lead, nurture, acquisition, complete, customers, funnel, call, job,
                          crashes>>
    BY <1>3 DEF StartServing, UpdateUserRole, Inv, TypeOK
  <2> QED
    BY <2>1, RowsStand, RowsAreTyped, Preserved DEF funnel, RowsTyped, CallMoved
<1>4. CASE \E u \in Users : MailDue(u)
  <2>1. PICK u \in Users : MailDue(u)
    BY <1>4
  <2>2. /\ nurture' = [nurture EXCEPT ![u].due = TRUE]
        /\ nurture[u].status = "ACTIVE"
        /\ UNCHANGED <<lead, people, funnel, call, job, crashes>>
    BY <2>1 DEF MailDue
  <2>3. nurture[u] \in Enrollment /\ [nurture[u] EXCEPT !.due = TRUE] \in Enrollment
    <3>1. nurture[u] \in Enrollment
      BY <2>2 DEF Inv, TypeOK, NotEnrolled
    <3> QED
      BY <3>1 DEF Enrollment
  <2>4. \A r \in Enrollment : r # NotEnrolled
    BY DEF Enrollment, NotEnrolled
  <2>5. /\ nurture' \in [Users -> Enrollment \cup {NotEnrolled}]
        /\ \A v \in Users : nurture'[v] # NotEnrolled <=> nurture[v] # NotEnrolled
    BY <2>2, <2>3, <2>4 DEF Inv, TypeOK
  <2>6. Rows' /\ Growing
    BY <2>2, <2>5 DEF Inv, Rows, OnlyAnswered, OriginKept, HasLead, Growing, people, funnel
  <2> QED
    BY <2>2, <2>5, <2>6, RowsAreTyped, Preserved DEF people, funnel, RowsTyped, CallMoved
<1> QED
  BY <1>1, <1>2, <1>3, <1>4

\* A restart forgets what handlers and jobs were doing.
LEMMA CrashKeepsInv ==
    ASSUME Inv, Crash
    PROVE  Inv'
<1>1. Rows' /\ RowsTyped'
  BY LeadsAssumption, RowsStand, RowsAreTyped DEF Crash, people, funnel, RowsTyped
<1>2. call' \in [Handlers -> Calls] /\ CallsHold'
  BY DEF Crash, Calls, CallsHold, Holds, Idle
<1>3. job' \in [Jobs -> JobStates] /\ JobsHold'
  BY DEF Crash, JobStates, Asleep, JobsHold, JobHolds
<1> QED
  BY <1>1, <1>2, <1>3 DEF Inv, TypeOK, RowsTyped

LEMMA InvNext == Inv /\ [Next]_vars => Inv'
<1> SUFFICES ASSUME Inv, [Next]_vars PROVE Inv'
  OBVIOUS
<1>1. ASSUME NEW h \in Handlers, Start(h)
      PROVE  Inv'
  BY <1>1, CreationKeepsInv, TriggersKeepInv, UpdatesKeepInv, HandOverKeepsInv DEF Start
<1>2. ASSUME NEW h \in Handlers, Continue(h)
      PROVE  Inv'
  BY <1>2, CreationKeepsInv, TriggersKeepInv, UpdatesKeepInv, HandOverKeepsInv DEF Continue
<1>3. ASSUME NEW j \in Jobs, RunJob(j)
      PROVE  Inv'
  BY <1>3, JobsKeepInv
<1>4. CASE Crash
  BY <1>4, CrashKeepsInv
<1>5. CASE UNCHANGED vars
  <2>1. RowsTyped' /\ Rows' /\ Growing /\ CallMoved /\ job' = job
    BY <1>5, RowsStand, RowsAreTyped DEF vars, people, funnel, RowsTyped, CallMoved
  <2> QED
    BY <2>1, Preserved
<1>6. CASE \/ \E u \in Users : Walk(u) \/ MailDue(u)
           \/ \E u \in Users, d \in Distributors : Attribute(u, d) \/ AttachReferralCode(u, d)
           \/ \E d \in Distributors : StartServing(d) \/ UpdateUserRole(d)
  BY <1>6, EnvironmentKeepsInv
<1> QED
  BY <1>1, <1>2, <1>3, <1>4, <1>5, <1>6 DEF Next

\* Rows, handlers and jobs agree with each other, always.
THEOREM Invariant == Spec => []Inv
<1> QED
  BY InvInit, InvNext, PTL DEF Spec

\* TypeOK: every row, handler and job keeps its type.
THEOREM TypeCorrect == Spec => []TypeOK
<1>1. Inv => TypeOK
  BY DEF Inv
<1> QED
  BY <1>1, Invariant, PTL

\* OnlyAnswered: nobody is worked on before the decision, whatever the triggers,
\* the people and the job do at the same time.
THEOREM NobodyBeforeDecision == Spec => []OnlyAnswered
<1>1. Inv => OnlyAnswered
  BY DEF Inv, Rows
<1> QED
  BY <1>1, Invariant, PTL

\* OriginKept: handing over never makes the super admin the one who brought a lead.
THEOREM OriginIsKept == Spec => []OriginKept
<1>1. Inv => OriginKept
  BY DEF Inv, Rows
<1> QED
  BY <1>1, Invariant, PTL

----------------------------------------------------------------------------
(* A lead in NURTURE is in somebody's hands *)

\* A handler that is recording the first NO of a user.
Refusing(h, u) ==
    /\ call[h].at \in {"decision.write", "decision.lead", "decision.enroll"}
    /\ call[h].user = u
    /\ call[h].answer = "NO"

\* While a NO is being recorded the user is not in the sequence, or has just been
\* entered: no mail is due and no job holds the user.
FirstNo ==
    \A h \in Handlers, u \in Users :
        Refusing(h, u) =>
            /\ nurture[u] \in {NotEnrolled, NewEnrollment}
            /\ \A j \in Jobs : /\ u \notin job[j].losing
                               /\ \A day \in Days : <<u, day>> \notin job[j].todo

\* Only a NO enrolls, and no person moves a lead to NURTURE.
Purposes ==
    \A h \in Handlers :
        /\ call[h].at = "decision.enroll" => call[h].answer = "NO"
        /\ call[h].at = "update.write" => call[h].to # "NURTURE"

NurtureInv == FirstNo /\ Purposes /\ NurtureIsEnrolled

\* A step of a handler that is not enrolling anybody, and does not begin to.
Apart(h) ==
    /\ call[h].at # "decision.enroll"
    /\ call'[h].at # "decision.enroll"
    /\ \A k \in Handlers \ {h} : call'[k] = call[k]
    /\ \A u \in Users : Refusing(h, u)' => Refusing(h, u) \/ nurture[u] = NotEnrolled
    /\ call'[h].at = "update.write" => call'[h].to # "NURTURE"

\* Steps that neither touch the sequence nor move a lead to NURTURE.
LEMMA ApartKeeps ==
    ASSUME Inv, NurtureInv, UNCHANGED <<nurture, job, crashes>>,
           \A u \in Users : lead'[u].status = "NURTURE" => lead[u].status = "NURTURE",
           call' = call \/ \E h \in Handlers : Apart(h)
    PROVE  NurtureInv'
<1>1. CASE call' = call
  BY <1>1 DEF NurtureInv, FirstNo, Purposes, NurtureIsEnrolled, Refusing
<1>2. ASSUME NEW h \in Handlers, Apart(h)
      PROVE  NurtureInv'
  <2>1. FirstNo'
    <3>1. ASSUME NEW k \in Handlers, NEW u \in Users, Refusing(k, u)'
          PROVE  Refusing(k, u) \/ nurture[u] = NotEnrolled
      BY <1>2, <3>1 DEF Apart, Refusing
    <3>2. \A u \in Users, j \in Jobs :
             nurture[u] = NotEnrolled => /\ u \notin job[j].losing
                                         /\ \A day \in Days : <<u, day>> \notin job[j].todo
      BY DEF Inv, JobsHold, JobHolds
    <3> QED
      BY <3>1, <3>2 DEF NurtureInv, FirstNo
  <2>2. Purposes'
    BY <1>2 DEF Apart, NurtureInv, Purposes
  <2>3. NurtureIsEnrolled'
    <3>1. ASSUME NEW u \in Users, NEW k \in Handlers,
                 call[k].at = "decision.enroll" /\ call[k].user = u
          PROVE  call'[k].at = "decision.enroll" /\ call'[k].user = u
      BY <1>2, <3>1 DEF Apart
    <3> QED
      BY <3>1 DEF NurtureInv, NurtureIsEnrolled
  <2> QED
    BY <2>1, <2>2, <2>3 DEF NurtureInv
<1> QED
  BY <1>1, <1>2

\* The handlers that end, start or go on with something else than an enrollment.
LEMMA EndIsApart ==
    ASSUME TypeOK, NEW h \in Handlers, call[h].at # "decision.enroll", End(h)
    PROVE  Apart(h)
BY DEF TypeOK, End, Apart, Refusing, Idle

LEMMA GotoIsApart ==
    ASSUME TypeOK, NEW h \in Handlers,
           \/ call[h].at = "profile.write" /\ Goto(h, "lead.read")
           \/ call[h].at = "decision.write" /\ Goto(h, "decision.lead")
           \/ call[h].at = "update.write" /\ Goto(h, "update.promote")
           \/ call[h].at = "hand.move" /\ Goto(h, "hand.attribute")
    PROVE  Apart(h)
<1>1. /\ \A k \in Handlers \ {h} : call'[k] = call[k]
      /\ call[h].at \in {"profile.write", "decision.write", "update.write", "hand.move"}
  BY DEF TypeOK, Goto
<1>2. PICK where \in {"lead.read", "decision.lead", "update.promote", "hand.attribute"} :
          /\ Goto(h, where)
          /\ where = "decision.lead" => call[h].at = "decision.write"
  OBVIOUS
<1>3. call'[h] = [call[h] EXCEPT !.at = where]
  BY <1>2 DEF TypeOK, Goto
<1>4. call[h] \in ProfileCall \cup DecisionCall \cup UpdateCall \cup HandCall
  BY <1>1, CallFacts
<1>5. call'[h].at = where
  BY <1>3, <1>4 DEF ProfileCall, DecisionCall, UpdateCall, HandCall
<1>6. ASSUME where = "decision.lead"
      PROVE  call'[h].user = call[h].user /\ call'[h].answer = call[h].answer
  <2>1. call[h] \in DecisionCall
    BY <1>2, <1>6, CallFacts
  <2> QED
    BY <1>3, <2>1 DEF DecisionCall
<1>7. \A u \in Users : Refusing(h, u)' => Refusing(h, u)
  BY <1>2, <1>5, <1>6 DEF Refusing
<1> QED
  BY <1>1, <1>2, <1>5, <1>7 DEF Apart

LEMMA BeginIsApart ==
    ASSUME TypeOK, NEW h \in Handlers, NEW v, Begin(h, v),
           v.at # "decision.enroll",
           v.at = "update.write" => v.to # "NURTURE",
           \A u \in Users :
              v.at = "decision.write" /\ v.user = u /\ v.answer = "NO"
                  => nurture[u] = NotEnrolled,
           v.at # "decision.lead"
    PROVE  Apart(h)
<1>1. call[h] = Idle /\ call'[h] = v /\ \A k \in Handlers \ {h} : call'[k] = call[k]
  BY DEF TypeOK, Begin
<1> QED
  BY <1>1 DEF Apart, Refusing, Idle

\* Another status than NURTURE takes no lead to NURTURE.
LEMMA OtherStatus ==
    ASSUME Inv, NEW u \in Users, HasLead(u), NEW status \in Statuses, SetStatus(u, status),
           status # "NURTURE"
    PROVE  /\ \A w \in Users : lead'[w].status = "NURTURE" => lead[w].status = "NURTURE"
           /\ lead'[u].status = status
<1>1. lead \in [Users -> Lead \cup {NoLead}] /\ lead[u] \in Lead
  BY DEF Inv, TypeOK, HasLead
<1>2. [lead[u] EXCEPT !.status = status].status = status
  BY <1>1 DEF Lead
<1> QED
  BY <1>1, <1>2 DEF SetStatus

LEMMA CreationKeepsNurture ==
    ASSUME Inv, NurtureInv, NEW h \in Handlers,
           \/ \E u \in Users : CompleteProfile(h, u)
           \/ WriteProfile(h) \/ ReadAttribution(h) \/ CreateLead(h)
    PROVE  NurtureInv'
<1>1. TypeOK
  BY DEF Inv
<1>2. CASE \E u \in Users : CompleteProfile(h, u)
  <2>1. PICK u \in Users : CompleteProfile(h, u)
    BY <1>2
  <2>2. PICK v : v = [at |-> "profile.write", user |-> u, distributor |-> None]
    OBVIOUS
  <2>3. Begin(h, v) /\ UNCHANGED <<lead, nurture, job, crashes>>
    BY <2>1, <2>2 DEF CompleteProfile
  <2>4. Apart(h)
    BY <1>1, <2>2, <2>3, BeginIsApart
  <2> QED
    BY <2>3, <2>4, ApartKeeps
<1>3. CASE WriteProfile(h)
  <2>1. Apart(h)
    BY <1>1, <1>3, GotoIsApart DEF WriteProfile
  <2> QED
    BY <1>3, <2>1, ApartKeeps DEF WriteProfile
<1>4. CASE ReadAttribution(h)
  <2>1. call[h].at = "lead.read" /\ UNCHANGED <<lead, nurture, job, crashes>>
    BY <1>4 DEF ReadAttribution
  <2>2. CASE End(h)
    BY <1>1, <2>1, <2>2, EndIsApart, ApartKeeps
  <2>3. CASE call' = [call EXCEPT ![h].at = "lead.create",
                                  ![h].distributor = acquisition[call[h].user]]
    <3>1. call[h] \in ProfileCall
      BY <1>1, <2>1, CallFacts
    <3>2. /\ \A k \in Handlers \ {h} : call'[k] = call[k]
          /\ call'[h].at = "lead.create"
      BY <1>1, <2>3, <3>1 DEF TypeOK, ProfileCall
    <3>3. Apart(h)
      BY <2>1, <3>2 DEF Apart, Refusing
    <3> QED
      BY <2>1, <3>3, ApartKeeps
  <2> QED
    BY <1>4, <2>2, <2>3 DEF ReadAttribution
<1>5. CASE CreateLead(h)
  <2>1. call[h].at = "lead.create" /\ End(h) /\ UNCHANGED <<nurture, job, crashes>>
    BY <1>5 DEF CreateLead
  <2>2. Apart(h)
    BY <1>1, <2>1, EndIsApart
  <2>3. \A u \in Users : lead'[u].status = "NURTURE" => lead[u].status = "NURTURE"
    <3>1. CASE HasLead(call[h].user)
      BY <1>5, <3>1 DEF CreateLead
    <3>2. CASE ~HasLead(call[h].user)
      <4> DEFINE d == call[h].distributor
      <4> DEFINE r == [status |-> "NEW", distributor |-> d,
                       assigned |-> IF d = None THEN Admin ELSE d]
      <4>1. lead' = [lead EXCEPT ![call[h].user] = r]
        BY <1>5, <3>2 DEF CreateLead
      <4>2. r.status = "NEW"
        OBVIOUS
      <4> HIDE DEF r
      <4> QED
        BY <1>1, <4>1, <4>2 DEF TypeOK
    <3> QED
      BY <3>1, <3>2
  <2> QED
    BY <2>1, <2>2, <2>3, ApartKeeps
<1> QED
  BY <1>2, <1>3, <1>4, <1>5

LEMMA TriggersKeepNurture ==
    ASSUME Inv, NurtureInv, NEW h \in Handlers,
           \/ \E u \in Users : VerifyPhone(h, u)
           \/ \E u \in Users, answer \in {"YES", "NO"} : RecordDecision(h, u, answer)
           \/ OnPhoneVerified(h) \/ WriteDecision(h) \/ OnDecision(h) \/ Enroll(h)
    PROVE  NurtureInv'
<1>1. TypeOK
  BY DEF Inv
<1>2. CASE \E u \in Users : VerifyPhone(h, u)
  <2>1. PICK u \in Users : VerifyPhone(h, u)
    BY <1>2
  <2>2. PICK v : v = [at |-> "phone.lead", user |-> u]
    OBVIOUS
  <2>3. Begin(h, v) /\ UNCHANGED <<lead, nurture, job, crashes>>
    BY <2>1, <2>2 DEF VerifyPhone
  <2>4. Apart(h)
    BY <1>1, <2>2, <2>3, BeginIsApart
  <2> QED
    BY <2>3, <2>4, ApartKeeps
<1>3. CASE \E u \in Users, answer \in {"YES", "NO"} : RecordDecision(h, u, answer)
  <2>1. PICK u \in Users, answer \in {"YES", "NO"} : RecordDecision(h, u, answer)
    BY <1>3
  <2>2. PICK v : v = [at |-> "decision.write", user |-> u, answer |-> answer]
    OBVIOUS
  <2>3. Begin(h, v) /\ UNCHANGED <<lead, nurture, job, crashes>>
    BY <2>1, <2>2 DEF RecordDecision
  <2>4. answer = "NO" => nurture[u] = NotEnrolled
    <3>1. decision[u] # "YES" /\ ~(decision[u] = "NO" /\ answer = "NO")
      BY <2>1 DEF RecordDecision
    <3>2. answer = "NO" => decision[u] = "none"
      BY <1>1, <3>1 DEF TypeOK
    <3> QED
      BY <3>2 DEF Inv, Rows, OnlyAnswered
  <2>5. Apart(h)
    BY <1>1, <2>2, <2>3, <2>4, BeginIsApart
  <2> QED
    BY <2>3, <2>5, ApartKeeps
<1>4. CASE OnPhoneVerified(h)
  <2>1. /\ call[h].at = "phone.lead" /\ End(h) /\ UNCHANGED <<nurture, job, crashes>>
        /\ call[h].user \in Users
    BY <1>1, <1>4, CallFacts DEF OnPhoneVerified
  <2>2. Apart(h)
    BY <1>1, <2>1, EndIsApart
  <2>3. \A u \in Users : lead'[u].status = "NURTURE" => lead[u].status = "NURTURE"
    <3>1. CASE HasLead(call[h].user)
      <4>1. SetStatus(call[h].user, "WARM") /\ "WARM" \in Statuses
        BY <1>4, <3>1 DEF OnPhoneVerified, Statuses
      <4> QED
        BY <2>1, <3>1, <4>1, OtherStatus
    <3>2. CASE ~HasLead(call[h].user)
      BY <1>4, <3>2 DEF OnPhoneVerified
    <3> QED
      BY <3>1, <3>2
  <2> QED
    BY <2>1, <2>2, <2>3, ApartKeeps
<1>5. CASE WriteDecision(h)
  <2>1. Apart(h)
    BY <1>1, <1>5, GotoIsApart DEF WriteDecision
  <2> QED
    BY <1>5, <2>1, ApartKeeps DEF WriteDecision
<1>6. CASE OnDecision(h)
  <2>1. /\ call[h].at = "decision.lead" /\ UNCHANGED <<nurture, job, crashes>>
        /\ call[h] \in DecisionCall /\ call[h].user \in Users
    BY <1>1, <1>6, CallFacts DEF OnDecision
  <2>2. CASE End(h) /\ UNCHANGED lead
    BY <1>1, <2>1, <2>2, EndIsApart, ApartKeeps
  <2>3. CASE HasLead(call[h].user) /\ End(h) /\ SetStatus(call[h].user, "HOT")
    <3>1. \A u \in Users : lead'[u].status = "NURTURE" => lead[u].status = "NURTURE"
      BY <2>1, <2>3, OtherStatus DEF Statuses
    <3> QED
      BY <1>1, <2>1, <2>3, <3>1, EndIsApart, ApartKeeps
  <2>4. CASE /\ SetStatus(call[h].user, "NURTURE") /\ call[h].answer = "NO"
             /\ Goto(h, "decision.enroll")
    <3>1. PICK v : v = [call[h] EXCEPT !.at = "decision.enroll"]
      OBVIOUS
    <3>2. v.at = "decision.enroll" /\ v.user = call[h].user /\ v.answer = "NO"
      BY <2>1, <2>4, <3>1 DEF DecisionCall
    <3>3. call'[h] = v /\ \A k \in Handlers \ {h} : call'[k] = call[k]
      BY <1>1, <2>4, <3>1 DEF TypeOK, Goto
    <3>4. \A k \in Handlers, u \in Users : Refusing(k, u)' => Refusing(k, u)
      BY <2>1, <2>4, <3>2, <3>3 DEF Refusing
    <3>5. FirstNo'
      BY <2>1, <3>4 DEF NurtureInv, FirstNo
    <3>6. Purposes'
      BY <3>2, <3>3 DEF NurtureInv, Purposes
    <3>7. \A u \in Users \ {call[h].user} : lead'[u] = lead[u]
      BY <1>1, <2>4 DEF SetStatus, TypeOK
    <3>8. NurtureIsEnrolled'
      <4>1. ASSUME NEW u \in Users, NEW k \in Handlers,
                   call[k].at = "decision.enroll" /\ call[k].user = u
            PROVE  call'[k].at = "decision.enroll" /\ call'[k].user = u
        BY <2>1, <3>3, <4>1
      <4> QED
        BY <2>1, <3>2, <3>3, <3>7, <4>1 DEF NurtureInv, NurtureIsEnrolled
    <3> QED
      BY <3>5, <3>6, <3>8 DEF NurtureInv
  <2> QED
    BY <1>6, <2>2, <2>3, <2>4 DEF OnDecision
<1>7. CASE Enroll(h)
  <2>1. /\ call[h].at = "decision.enroll" /\ UNCHANGED <<lead, job, crashes>> /\ End(h)
        /\ call[h].user \in Users
    BY <1>1, <1>7, CallFacts DEF Enroll
  <2>2. PICK u \in Users : u = call[h].user
    BY <2>1
  <2>3. nurture[u] \in {NotEnrolled, NewEnrollment}
    BY <2>1, <2>2 DEF NurtureInv, FirstNo, Purposes, Refusing
  <2>4. nurture'[u] = NewEnrollment /\ \A w \in Users \ {u} : nurture'[w] = nurture[w]
    BY <1>1, <1>7, <2>2, <2>3 DEF Enroll, TypeOK
  <2>5. call'[h] = Idle /\ \A k \in Handlers \ {h} : call'[k] = call[k]
    BY <1>1, <2>1 DEF End, TypeOK
  <2>6. \A k \in Handlers, w \in Users : Refusing(k, w)' => Refusing(k, w)
    BY <2>5 DEF Refusing, Idle
  <2>7. FirstNo'
    BY <2>1, <2>4, <2>6 DEF NurtureInv, FirstNo
  <2>8. Purposes'
    BY <2>5 DEF NurtureInv, Purposes, Idle
  <2>9. NurtureIsEnrolled'
    <3>1. ASSUME crashes' = 0, NEW w \in Users, lead'[w].status = "NURTURE"
          PROVE  \/ nurture'[w].status = "ACTIVE"
                 \/ \E k \in Handlers : call'[k].at = "decision.enroll" /\ call'[k].user = w
                 \/ \E j \in Jobs : w \in job'[j].losing
      <4>1. CASE w = u
        BY <2>4, <4>1 DEF NewEnrollment
      <4>2. CASE w # u
        BY <2>1, <2>2, <2>4, <2>5, <3>1, <4>2 DEF NurtureInv, NurtureIsEnrolled
      <4> QED
        BY <4>1, <4>2
    <3> QED
      BY <3>1 DEF NurtureIsEnrolled
  <2> QED
    BY <2>7, <2>8, <2>9 DEF NurtureInv
<1> QED
  BY <1>2, <1>3, <1>4, <1>5, <1>6, <1>7

LEMMA UpdatesKeepNurture ==
    ASSUME Inv, NurtureInv, NEW h \in Handlers,
           \/ \E u \in Users, actor \in Owners, to \in Statuses :
                 UpdateLeadStatus(h, actor, u, to)
           \/ WriteStatus(h) \/ Promote(h)
    PROVE  NurtureInv'
<1>1. TypeOK
  BY DEF Inv
<1>2. CASE \E u \in Users, actor \in Owners, to \in Statuses : UpdateLeadStatus(h, actor, u, to)
  <2>1. PICK u \in Users, actor \in Owners, to \in Statuses : UpdateLeadStatus(h, actor, u, to)
    BY <1>2
  <2>2. to # "NURTURE"
    BY <2>1 DEF UpdateLeadStatus, AllowedTransitions
  <2>3. PICK v : v = [at |-> "update.write", user |-> u, to |-> to]
    OBVIOUS
  <2>4. Begin(h, v) /\ UNCHANGED <<lead, nurture, job, crashes>>
    BY <2>1, <2>3 DEF UpdateLeadStatus
  <2>5. Apart(h)
    BY <1>1, <2>2, <2>3, <2>4, BeginIsApart
  <2> QED
    BY <2>4, <2>5, ApartKeeps
<1>3. CASE WriteStatus(h)
  <2>1. /\ call[h].at = "update.write" /\ UNCHANGED <<nurture, job, crashes>>
        /\ SetStatus(call[h].user, call[h].to)
    BY <1>3 DEF WriteStatus
  <2>2. /\ call[h].user \in Users /\ call[h].to \in Statuses /\ HasLead(call[h].user)
        /\ call[h].to # "NURTURE"
    BY <1>1, <2>1, CallFacts DEF Inv, CallsHold, Holds, NurtureInv, Purposes
  <2>3. \A u \in Users : lead'[u].status = "NURTURE" => lead[u].status = "NURTURE"
    BY <2>1, <2>2, OtherStatus
  <2>4. Apart(h)
    BY <1>1, <1>3, <2>1, EndIsApart, GotoIsApart DEF WriteStatus
  <2> QED
    BY <2>1, <2>3, <2>4, ApartKeeps
<1>4. CASE Promote(h)
  <2>1. /\ call[h].at = "update.promote" /\ End(h)
        /\ UNCHANGED <<lead, nurture, job, crashes>>
    BY <1>4 DEF Promote
  <2> QED
    BY <1>1, <2>1, EndIsApart, ApartKeeps
<1> QED
  BY <1>2, <1>3, <1>4

LEMMA HandOverKeepsNurture ==
    ASSUME Inv, NurtureInv, NEW h \in Handlers,
           \/ \E d \in Distributors, by \in {"assigned", "distributor"} : StopServing(h, d, by)
           \/ ReadAffected(h) \/ MoveLeads(h) \/ MoveAttribution(h)
    PROVE  NurtureInv'
<1>1. TypeOK
  BY DEF Inv
<1>2. CASE \E d \in Distributors, by \in {"assigned", "distributor"} : StopServing(h, d, by)
  <2>1. PICK d \in Distributors, by \in {"assigned", "distributor"} : StopServing(h, d, by)
    BY <1>2
  <2>2. PICK v : v = [at |-> "hand.read", by |-> by, from |-> d, users |-> {}]
    OBVIOUS
  <2>3. Begin(h, v) /\ UNCHANGED <<lead, nurture, job, crashes>>
    BY <2>1, <2>2 DEF StopServing
  <2>4. Apart(h)
    BY <1>1, <2>2, <2>3, BeginIsApart
  <2> QED
    BY <2>3, <2>4, ApartKeeps
<1>3. CASE ReadAffected(h)
  <2>1. call[h].at = "hand.read" /\ UNCHANGED <<lead, nurture, job, crashes>>
    BY <1>3 DEF ReadAffected
  <2>2. call[h] \in HandCall
    BY <1>1, <2>1, CallFacts
  <2>3. /\ \A k \in Handlers \ {h} : call'[k] = call[k]
        /\ call'[h].at = "hand.move"
    BY <1>1, <1>3, <2>2 DEF ReadAffected, TypeOK, HandCall
  <2>4. Apart(h)
    BY <2>1, <2>3 DEF Apart, Refusing
  <2> QED
    BY <2>1, <2>4, ApartKeeps
<1>4. CASE MoveLeads(h)
  <2>1. call[h].at = "hand.move" /\ UNCHANGED <<nurture, job, crashes>>
    BY <1>4 DEF MoveLeads
  <2>2. Apart(h)
    BY <1>1, <1>4, <2>1, EndIsApart, GotoIsApart DEF MoveLeads
  <2>3. PICK found \in SUBSET Users : found = Affected(call[h].by, call[h].from)
    BY DEF Affected
  <2>4. lead' = [u \in Users |-> IF u \in found THEN [lead[u] EXCEPT !.assigned = Admin]
                                 ELSE lead[u]]
    BY <1>4, <2>3 DEF MoveLeads
  <2>5. \A u \in Users : lead[u] \in Lead \cup {NoLead}
    BY <1>1 DEF TypeOK
  <2>6. \A r \in Lead \cup {NoLead} : [r EXCEPT !.assigned = Admin].status = r.status
    BY DEF Lead, NoLead
  <2>7. \A u \in Users : lead'[u].status = lead[u].status
    BY <2>4, <2>5, <2>6
  <2> QED
    BY <2>1, <2>2, <2>7, ApartKeeps
<1>5. CASE MoveAttribution(h)
  <2>1. /\ call[h].at = "hand.attribute" /\ End(h)
        /\ UNCHANGED <<lead, nurture, job, crashes>>
    BY <1>5 DEF MoveAttribution
  <2> QED
    BY <1>1, <2>1, EndIsApart, ApartKeeps
<1> QED
  BY <1>2, <1>3, <1>4, <1>5

LEMMA EnvironmentKeepsNurture ==
    ASSUME Inv, NurtureInv,
           \/ \E u \in Users : Walk(u) \/ MailDue(u)
           \/ \E u \in Users, d \in Distributors : Attribute(u, d) \/ AttachReferralCode(u, d)
           \/ \E d \in Distributors : StartServing(d) \/ UpdateUserRole(d)
    PROVE  NurtureInv'
<1>1. TypeOK
  BY DEF Inv
<1>2. CASE \/ \E u \in Users : Walk(u)
           \/ \E u \in Users, d \in Distributors : Attribute(u, d) \/ AttachReferralCode(u, d)
           \/ \E d \in Distributors : StartServing(d) \/ UpdateUserRole(d)
  <2>1. UNCHANGED <<lead, nurture, call, job, crashes>>
    BY <1>2 DEF Walk, Attribute, AttachReferralCode, StartServing, UpdateUserRole
  <2> QED
    BY <2>1, ApartKeeps
<1>3. ASSUME NEW u \in Users, MailDue(u)
      PROVE  NurtureInv'
  <2>1. /\ nurture' = [nurture EXCEPT ![u].due = TRUE] /\ nurture[u].status = "ACTIVE"
        /\ UNCHANGED <<lead, call, job, crashes>> /\ Quiet(u)
    BY <1>3 DEF MailDue
  <2>2. nurture[u] \in Enrollment
    BY <1>1, <2>1 DEF TypeOK, NotEnrolled
  <2>3. /\ nurture'[u].status = "ACTIVE"
        /\ \A w \in Users \ {u} : nurture'[w] = nurture[w]
    BY <1>1, <2>1, <2>2 DEF TypeOK, Enrollment
  <2>4. \A h \in Handlers : ~Refusing(h, u)
    BY <1>1, <2>1, CallFacts DEF Quiet, Refusing
  <2>5. FirstNo'
    BY <2>1, <2>3, <2>4 DEF NurtureInv, FirstNo, Refusing
  <2>6. Purposes'
    BY <2>1 DEF NurtureInv, Purposes
  <2>7. NurtureIsEnrolled'
    BY <2>1, <2>3 DEF NurtureInv, NurtureIsEnrolled
  <2> QED
    BY <2>5, <2>6, <2>7 DEF NurtureInv
<1> QED
  BY <1>2, <1>3

LEMMA JobsKeepNurture ==
    ASSUME Inv, NurtureInv, NEW j \in Jobs, RunJob(j)
    PROVE  NurtureInv'
<1>1. TypeOK /\ job \in [Jobs -> JobStates] /\ job[j] \in JobStates
  BY DEF Inv, TypeOK
<1>2. CASE StartJob(j)
  <2>1. /\ job[j] = Asleep /\ job' = [job EXCEPT ![j].todo = DueMails]
        /\ UNCHANGED <<lead, nurture, call, crashes>>
    BY <1>2 DEF StartJob
  <2>2. PICK mails \in SUBSET (Users \X Days) : mails = DueMails
    BY DEF DueMails
  <2>3. /\ job'[j].todo = mails /\ job'[j].losing = job[j].losing
        /\ \A k \in Jobs \ {j} : job'[k] = job[k]
    BY <1>1, <2>1, <2>2 DEF JobStates
  <2>4. \A u \in Users, day \in Days :
           nurture[u] \in {NotEnrolled, NewEnrollment} => <<u, day>> \notin mails
    BY <2>2 DEF DueMails, NotEnrolled, NewEnrollment
  <2>5. FirstNo'
    BY <2>1, <2>3, <2>4 DEF NurtureInv, FirstNo, Refusing
  <2>6. Purposes'
    BY <2>1 DEF NurtureInv, Purposes
  <2>7. NurtureIsEnrolled'
    <3>1. \A k \in Jobs : job'[k].losing = job[k].losing
      BY <2>3
    <3> QED
      BY <2>1, <3>1 DEF NurtureInv, NurtureIsEnrolled
  <2> QED
    BY <2>5, <2>6, <2>7 DEF NurtureInv
<1>3. ASSUME NEW u \in Users, NEW day \in Days, SendMail(j, u, day)
      PROVE  NurtureInv'
  <2>1. /\ <<u, day>> \in job[j].todo /\ job[j].losing = {}
        /\ UNCHANGED <<lead, call, crashes>>
    BY <1>3 DEF SendMail
  <2>2. nurture[u] \in Enrollment
    BY <2>1 DEF Inv, TypeOK, JobsHold, JobHolds
  <2>3. /\ nurture'[u].status = IF day = 7 THEN "COMPLETED" ELSE nurture[u].status
        /\ \A w \in Users \ {u} : nurture'[w] = nurture[w]
    BY <1>1, <1>3, <2>2 DEF SendMail, TypeOK, Enrollment
  <2>4. /\ job'[j].todo = job[j].todo \ {<<u, day>>}
        /\ job'[j].losing = IF day = 7 THEN {u} ELSE {}
        /\ \A k \in Jobs \ {j} : job'[k] = job[k]
    BY <1>1, <1>3 DEF SendMail, JobStates
  <2>5. \A h \in Handlers : ~Refusing(h, u)
    BY <2>1 DEF NurtureInv, FirstNo
  <2>6. FirstNo'
    <3>1. ASSUME NEW h \in Handlers, NEW w \in Users, Refusing(h, w)'
          PROVE  /\ nurture'[w] \in {NotEnrolled, NewEnrollment}
                 /\ \A k \in Jobs : /\ w \notin job'[k].losing
                                    /\ \A d \in Days : <<w, d>> \notin job'[k].todo
      <4>1. Refusing(h, w) /\ w # u
        BY <2>1, <2>5, <3>1 DEF Refusing
      <4>2. nurture'[w] \in {NotEnrolled, NewEnrollment}
        BY <2>3, <4>1 DEF NurtureInv, FirstNo
      <4>3. ASSUME NEW k \in Jobs
            PROVE  w \notin job'[k].losing /\ \A d \in Days : <<w, d>> \notin job'[k].todo
        BY <2>4, <4>1, <4>3 DEF NurtureInv, FirstNo
      <4> QED
        BY <4>2, <4>3
    <3> QED
      BY <3>1 DEF FirstNo
  <2>7. Purposes'
    BY <2>1 DEF NurtureInv, Purposes
  <2>8. NurtureIsEnrolled'
    <3>1. ASSUME crashes' = 0, NEW w \in Users, lead'[w].status = "NURTURE"
          PROVE  \/ nurture'[w].status = "ACTIVE"
                 \/ \E h \in Handlers : call'[h].at = "decision.enroll" /\ call'[h].user = w
                 \/ \E k \in Jobs : w \in job'[k].losing
      <4>1. \/ nurture[w].status = "ACTIVE"
            \/ \E h \in Handlers : call[h].at = "decision.enroll" /\ call[h].user = w
            \/ \E k \in Jobs : w \in job[k].losing
        BY <2>1, <3>1 DEF NurtureInv, NurtureIsEnrolled
      <4>2. CASE nurture[w].status = "ACTIVE"
        BY <2>3, <2>4, <4>2
      <4>3. CASE \E h \in Handlers : call[h].at = "decision.enroll" /\ call[h].user = w
        BY <2>1, <4>3
      <4>4. CASE \E k \in Jobs : w \in job[k].losing
        BY <2>1, <2>4, <4>4
      <4> QED
        BY <4>1, <4>2, <4>3, <4>4
    <3> QED
      BY <3>1 DEF NurtureIsEnrolled
  <2> QED
    BY <2>6, <2>7, <2>8 DEF NurtureInv
<1>4. ASSUME NEW u \in Users, LoseLead(j, u)
      PROVE  NurtureInv'
  <2>1. /\ u \in job[j].losing /\ SetStatus(u, "LOST")
        /\ UNCHANGED <<nurture, call, crashes>>
    BY <1>4 DEF LoseLead
  <2>2. /\ job'[j].todo = job[j].todo /\ job'[j].losing = {}
        /\ \A k \in Jobs \ {j} : job'[k] = job[k]
    BY <1>1, <1>4 DEF LoseLead, JobStates
  <2>3. HasLead(u) /\ \A w \in job[j].losing : w = u
    BY <2>1 DEF Inv, JobsHold, JobHolds, Rows
  <2>4. /\ \A w \in Users : lead'[w].status = "NURTURE" => lead[w].status = "NURTURE"
        /\ lead'[u].status = "LOST"
    BY <2>1, <2>3, OtherStatus DEF Statuses
  <2>5. FirstNo'
    BY <2>1, <2>2 DEF NurtureInv, FirstNo, Refusing
  <2>6. Purposes'
    BY <2>1 DEF NurtureInv, Purposes
  <2>7. NurtureIsEnrolled'
    <3>1. ASSUME NEW w \in Users, lead'[w].status = "NURTURE", NEW k \in Jobs,
                 w \in job[k].losing
          PROVE  w \in job'[k].losing
      BY <2>2, <2>3, <2>4, <3>1
    <3> QED
      BY <2>1, <2>4, <3>1 DEF NurtureInv, NurtureIsEnrolled
  <2> QED
    BY <2>5, <2>6, <2>7 DEF NurtureInv
<1> QED
  BY <1>2, <1>3, <1>4 DEF RunJob

LEMMA CrashKeepsNurture ==
    ASSUME Inv, Crash
    PROVE  NurtureInv'
<1>1. crashes' # 0
  BY DEF Crash, Inv, TypeOK
<1>2. \A h \in Handlers : call'[h].at = "idle"
  BY DEF Crash, Idle
<1> QED
  BY <1>1, <1>2 DEF NurtureInv, FirstNo, Purposes, NurtureIsEnrolled, Refusing

LEMMA NurtureInit == Init => NurtureInv
<1> SUFFICES ASSUME Init PROVE NurtureInv
  OBVIOUS
<1>1. /\ \A h \in Handlers : call[h].at = "idle"
      /\ \A u \in Users : lead[u].status = "none"
  BY DEF Init, Idle, NoLead
<1> QED
  BY <1>1 DEF NurtureInv, FirstNo, Purposes, NurtureIsEnrolled, Refusing

LEMMA NurtureNext == Inv /\ NurtureInv /\ [Next]_vars => NurtureInv'
<1> SUFFICES ASSUME Inv, NurtureInv, [Next]_vars PROVE NurtureInv'
  OBVIOUS
<1>1. ASSUME NEW h \in Handlers, Start(h)
      PROVE  NurtureInv'
  BY <1>1, CreationKeepsNurture, TriggersKeepNurture, UpdatesKeepNurture,
     HandOverKeepsNurture DEF Start
<1>2. ASSUME NEW h \in Handlers, Continue(h)
      PROVE  NurtureInv'
  BY <1>2, CreationKeepsNurture, TriggersKeepNurture, UpdatesKeepNurture,
     HandOverKeepsNurture DEF Continue
<1>3. ASSUME NEW j \in Jobs, RunJob(j)
      PROVE  NurtureInv'
  BY <1>3, JobsKeepNurture
<1>4. CASE Crash
  BY <1>4, CrashKeepsNurture
<1>5. CASE UNCHANGED vars
  BY <1>5, ApartKeeps DEF vars
<1>6. CASE \/ \E u \in Users : Walk(u) \/ MailDue(u)
           \/ \E u \in Users, d \in Distributors : Attribute(u, d) \/ AttachReferralCode(u, d)
           \/ \E d \in Distributors : StartServing(d) \/ UpdateUserRole(d)
  BY <1>6, EnvironmentKeepsNurture
<1> QED
  BY <1>1, <1>2, <1>3, <1>4, <1>5, <1>6 DEF Next

\* NurtureIsEnrolled: without a restart no lead is left in NURTURE with nothing
\* that will ever take it out, whatever answers and jobs run at the same time.
THEOREM NurtureIsKept == Spec => []NurtureIsEnrolled
<1>1. NurtureInv => NurtureIsEnrolled
  BY DEF NurtureInv
<1> QED
  BY <1>1, InvInit, NurtureInit, InvNext, NurtureNext, PTL DEF Spec
=============================================================================

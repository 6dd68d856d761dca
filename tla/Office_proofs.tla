--------------------------- MODULE Office_proofs ----------------------------
(***************************************************************************)
(* Proofs about Office, for any number of handlers, people, rows and       *)
(* visitors, any days, and any bounds.  A behaviour of Office follows the  *)
(* requests to one department, so what the handlers hold is of that        *)
(* department, and the rows of the others stay as they were.               *)
(***************************************************************************)
EXTENDS Office, WellFoundedInduction, FiniteSetTheorems, FunctionTheorems, TLAPS

----------------------------------------------------------------------------
(* Counting *)

\* Where any two members are equal there is at most one.
LEMMA AtMostOne ==
    ASSUME NEW S, \A x, y \in S : x = y
    PROVE  /\ IsFiniteSet(S) /\ Cardinality(S) \in {0, 1} /\ Cardinality(S) <= 1
           /\ Cardinality(S) = 0 <=> S = {}
<1>1. CASE S = {}
  BY <1>1, FS_EmptySet
<1>2. CASE S # {}
  <2>1. PICK x \in S : TRUE
    BY <1>2
  <2>2. S = {x}
    BY <2>1
  <2>3. IsFiniteSet({x}) /\ Cardinality({x}) = 1
    BY FS_Singleton
  <2>. QED
    BY <2>1, <2>2, <2>3
<1>. QED
  BY <1>1, <1>2

----------------------------------------------------------------------------
(* The desk: rows *)

\* The tasks of somebody whose board was left to one request at a time are to do, in
\* the order they were created, and the order of each is within their number.
BoardKept(p) ==
    /\ \A t \in TasksOf(p) :
           tasks[t].status = "TODO" /\ tasks[t].order <= Cardinality(TasksOf(p))
    /\ \A a, b \in TasksOf(p) : a < b => tasks[a].order < tasks[b].order

DeskTypes ==
    /\ tasks \in [TaskIds -> Task \cup {NoTask}]
    /\ created \in Nat
    /\ notes \in [NoteIds -> Note \cup {NoNote}]
    /\ followups \subseteq People \X Days
    /\ shuffled \subseteq People

\* What the tables of the desk say, whatever the handlers hold.
DeskRows ==
    /\ DeskTypes
    /\ \A t \in TaskIds : Exists(t) => t <= created
    /\ \A p \in People \ shuffled : BoardKept(p)

----------------------------------------------------------------------------
(* The desk: requests *)

CountCall == [at : {"count"}, person : People, lead : Leads \cup {NoLead}, due : Days \cup {NoDay}]

CreateCall == [at : {"create"}, person : People, lead : Leads \cup {NoLead},
               due : Days \cup {NoDay}, order : Nat]

WriteCall == [at : {"write"}, person : People, task : TaskIds, change : Changes \cup Moves]

RemoveCall == [at : {"remove"}, person : People, task : TaskIds]

DeskCalls == {Idle} \cup CountCall \cup CreateCall \cup WriteCall \cup RemoveCall

\* What a request holds is still so: the task is the person's or deleted, the number of
\* his tasks is what was counted.
DeskHolds(c) ==
    /\ c.at \in {"write", "remove"} =>
           /\ c.person \in shuffled
           /\ c.task <= created
           /\ tasks[c.task].owner \in {c.person, NoOwner}
    /\ c.at = "create" /\ c.person \notin shuffled =>
           c.order = Cardinality(TasksOf(c.person)) + 1

WorksFor(h, p) == call[h] # Idle /\ call[h].person = p

DeskServes ==
    /\ call \in [Handlers -> DeskCalls]
    /\ \A h \in Handlers : DeskHolds(call[h])
    /\ \A p \in People \ shuffled : \A g, h \in Handlers :
           WorksFor(g, p) /\ WorksFor(h, p) => g = h

\* Rows are added and deleted, and a deleted task is not made again.
DeskGrows ==
    /\ shuffled \subseteq shuffled'
    /\ created' \in Nat /\ created <= created'
    /\ \A t \in TaskIds : t <= created => tasks'[t].owner \in {tasks[t].owner, NoOwner}

LEMMA DeskCallShape ==
    ASSUME NEW c \in DeskCalls
    PROVE  /\ c.at \in {"idle", "count", "create", "write", "remove"}
           /\ c.at = "idle" <=> c = Idle
           /\ c # Idle => c.person \in People /\ "person" \in DOMAIN c
           /\ "person" \notin DOMAIN Idle
           /\ c.at = "count" => c \in CountCall
           /\ c.at = "create" => c \in CreateCall
           /\ c.at = "write" => c \in WriteCall
           /\ c.at = "remove" => c \in RemoveCall
  BY DEF DeskCalls, CountCall, CreateCall, WriteCall, RemoveCall, Idle

LEMMA TaskShape ==
    ASSUME NEW r \in Task
    PROVE  /\ r.owner \in People /\ r.owner # NoOwner
           /\ r.lead \in Leads \cup {NoLead}
           /\ r.status \in Statuses /\ r.order \in Nat /\ r.due \in Days \cup {NoDay}
  BY DeskAssumption DEF Task

LEMMA NobodysTask == NoTask.owner = NoOwner /\ NoTask \notin Task /\ NoOwner \notin People
  BY DeskAssumption DEF NoTask, Task

LEMMA WorkingIs ==
    ASSUME DeskServes, NEW p
    PROVE  Working(p) <=> \E h \in Handlers : WorksFor(h, p)
<1>1. \A h \in Handlers : ("person" \in DOMAIN call[h]) <=> call[h] # Idle
  BY DeskCallShape DEF DeskServes
<1>. QED
  BY <1>1 DEF Working, WorksFor

\* The tasks of a person are typed and finitely many.
LEMMA TasksTyped ==
    ASSUME DeskTypes, NEW p \in People
    PROVE  /\ \A t \in TasksOf(p) : t \in TaskIds /\ tasks[t] \in Task
           /\ IsFiniteSet(TasksOf(p)) /\ Cardinality(TasksOf(p)) \in Nat
<1>1. \A t \in TasksOf(p) : t \in TaskIds /\ tasks[t] \in Task
  BY NobodysTask DEF TasksOf, DeskTypes
<1>2. IsFiniteSet(TaskIds) /\ TasksOf(p) \in SUBSET TaskIds
  BY DeskAssumption, FS_Interval DEF TaskIds, TasksOf
<1>. QED
  BY <1>1, <1>2, FS_Subset, FS_CardinalityType

\* A handler moves to a call that is sound; what the others hold stays so.
LEMMA DeskMoves ==
    ASSUME DeskRows, DeskServes, DeskGrows, DeskTypes',
           NEW h \in Handlers, NEW c \in DeskCalls, call' = [call EXCEPT ![h] = c],
           DeskHolds(c)',
           \A q \in People \ shuffled', g \in Handlers : g # h /\ WorksFor(g, q) =>
               TasksOf(q)' = TasksOf(q),
           c # Idle /\ c.person \notin shuffled' =>
               \A g \in Handlers : g # h => ~WorksFor(g, c.person)
    PROVE  DeskServes'
<1>1. call \in [Handlers -> DeskCalls]
  BY DEF DeskServes
<1>2. call'[h] = c /\ \A g \in Handlers : g # h => call'[g] = call[g]
  BY <1>1
<1>3. call' \in [Handlers -> DeskCalls]
  BY <1>1
<1>4. ASSUME NEW g \in Handlers PROVE DeskHolds(call[g])'
  <2>1. CASE g = h
    <3>1. call'[g] = c
      BY <1>2, <2>1
    <3>2. c.at = "create" /\ c.person \notin shuffled' =>
              c.order = Cardinality({t \in TaskIds : tasks'[t].owner = c.person}) + 1
      BY DEF DeskHolds, TasksOf
    <3>. QED
      BY <3>1, <3>2 DEF DeskHolds, TasksOf
  <2>2. CASE g # h
    <3>1. PICK b \in DeskCalls : b = call[g] /\ b = call'[g]
      BY <1>1, <1>2, <2>2
    <3>2. DeskHolds(b)
      BY <3>1 DEF DeskServes
    <3>3. ASSUME b.at \in {"write", "remove"}
          PROVE  /\ b.person \in shuffled'
                 /\ b.task <= created'
                 /\ tasks'[b.task].owner \in {b.person, NoOwner}
      <4>1. b.task \in TaskIds /\ b.person \in shuffled /\ b.task <= created
            /\ tasks[b.task].owner \in {b.person, NoOwner}
        BY <3>2, <3>3, DeskCallShape DEF DeskHolds, WriteCall, RemoveCall
      <4>2. b.task \in Nat /\ created \in Nat
        BY <4>1 DEF TaskIds, DeskRows, DeskTypes
      <4>. QED
        BY <4>1, <4>2 DEF DeskGrows
    <3>4. ASSUME b.at = "create", b.person \notin shuffled'
          PROVE  b.order = Cardinality(TasksOf(b.person)') + 1
      <4>1. b # Idle
        BY <3>4 DEF Idle
      <4>2. TasksOf(b.person)' = TasksOf(b.person)
        BY <2>2, <3>1, <3>4, <4>1, DeskCallShape DEF WorksFor
      <4>. QED
        BY <3>2, <3>4, <4>2 DEF DeskHolds, DeskGrows
    <3>5. DeskHolds(b)'
      BY <3>3, <3>4 DEF DeskHolds, TasksOf
    <3>. QED
      BY <3>1, <3>5 DEF DeskHolds, TasksOf
  <2>. QED
    BY <2>1, <2>2
<1>5. ASSUME NEW p \in People \ shuffled', NEW f \in Handlers, NEW g \in Handlers,
             WorksFor(f, p)', WorksFor(g, p)'
      PROVE  f = g
  <2>1. p \in People \ shuffled
    BY DEF DeskGrows
  <2>2. CASE f # h /\ g # h
    BY <1>2, <1>5, <2>1, <2>2 DEF WorksFor, DeskServes
  <2>3. CASE f = h \/ g = h
    BY <1>2, <1>5, <2>3 DEF WorksFor
  <2>. QED
    BY <2>2, <2>3
<1>. QED
  BY <1>3, <1>4, <1>5 DEF DeskServes

\* No handler moves and no task does.
LEMMA DeskStays ==
    ASSUME DeskRows, DeskServes, DeskTypes',
           UNCHANGED <<call, tasks, created, shuffled>>
    PROVE  DeskServes'
<1>1. \A h \in Handlers : DeskHolds(call[h])'
  BY DEF DeskServes, DeskHolds, TasksOf
<1>2. \A p \in People \ shuffled' : \A g, h \in Handlers :
          WorksFor(g, p)' /\ WorksFor(h, p)' => g = h
  BY DEF DeskServes, WorksFor
<1>. QED
  BY <1>1, <1>2 DEF DeskServes

LEMMA IdleDesk == Idle \in DeskCalls /\ DeskHolds(Idle)'
  BY DEF DeskCalls, DeskHolds, Idle

----------------------------------------------------------------------------
(* The desk: steps *)

\* Whose tasks are as they were keeps a board in order.
LEMMA BoardStays ==
    ASSUME NEW p, BoardKept(p), TasksOf(p)' = TasksOf(p),
           \A t \in TasksOf(p) : tasks'[t] = tasks[t]
    PROVE  BoardKept(p)'
  BY DEF BoardKept

LEMMA DeskBegins ==
    ASSUME DeskInit, ServiceInit
    PROVE  DeskRows /\ DeskServes
<1>1. DeskTypes
  BY DEF DeskInit, DeskTypes
<1>2. \A t \in TaskIds : ~Exists(t)
  BY DEF DeskInit, Exists, NoTask
<1>3. \A p \in People \ shuffled : BoardKept(p)
  BY <1>2, DeskAssumption DEF BoardKept, TasksOf, Exists
<1>4. DeskServes
  BY DEF ServiceInit, DeskServes, DeskCalls, DeskHolds, WorksFor, Idle
<1>. QED
  BY <1>1, <1>2, <1>3, <1>4 DEF DeskRows

LEMMA BeginCreateTaskIsSound ==
    ASSUME DeskRows, DeskServes, NEW h \in Handlers, NEW p \in People,
           NEW lead \in Leads \cup {NoLead}, NEW due \in Days \cup {NoDay},
           BeginCreateTask(h, p, lead, due)
    PROVE  DeskRows' /\ DeskServes'
<1>. DEFINE c == [at |-> "count", person |-> p, lead |-> lead, due |-> due]
<1>1. UNCHANGED <<tasks, created, notes, followups>>
      /\ shuffled' = (IF Working(p) THEN shuffled \cup {p} ELSE shuffled)
      /\ call' = [call EXCEPT ![h] = c]
  BY DEF BeginCreateTask, Begin
<1>2. DeskTypes' /\ DeskGrows
  BY <1>1 DEF DeskTypes, DeskGrows, DeskRows
<1>3. DeskRows'
  BY <1>1, <1>2 DEF DeskRows, Exists, BoardKept, TasksOf
<1>4. c \in DeskCalls
  BY DEF DeskCalls, CountCall
<1>5. DeskHolds(c)'
  BY <1>1 DEF DeskHolds
<1>6. p \notin shuffled' => \A g \in Handlers : g # h => ~WorksFor(g, p)
  BY <1>1, WorkingIs
<1>7. \A q : TasksOf(q)' = TasksOf(q)
  BY <1>1 DEF TasksOf
<1>8. c.person = p
  OBVIOUS
<1>. HIDE DEF c
<1>. QED
  BY <1>1, <1>2, <1>3, <1>4, <1>5, <1>6, <1>7, <1>8, DeskMoves

LEMMA CountTodoIsSound ==
    ASSUME DeskRows, DeskServes, NEW h \in Handlers, CountTodo(h)
    PROVE  DeskRows' /\ DeskServes'
<1>1. PICK b \in DeskCalls : b = call[h]
  BY DEF DeskServes
<1>2. b \in CountCall /\ b # Idle /\ b.person \in People
  BY <1>1, DeskCallShape DEF CountTodo, Idle
<1>. DEFINE todo == {t \in TasksOf(b.person) : tasks[t].status = "TODO"}
<1>3. /\ UNCHANGED deskVars
      /\ call' = [call EXCEPT ![h] = [at |-> "create", person |-> b.person, lead |-> b.lead,
                                      due |-> b.due, order |-> Cardinality(todo) + 1]]
  BY <1>1 DEF CountTodo, Then
<1>4. PICK n : n = Cardinality(todo)
  OBVIOUS
<1>5. n \in Nat
  <2>1. IsFiniteSet(TasksOf(b.person)) /\ todo \in SUBSET TasksOf(b.person)
    BY <1>2, TasksTyped DEF DeskRows
  <2>. QED
    BY <1>4, <2>1, FS_Subset, FS_CardinalityType
<1>6. b.person \notin shuffled => n = Cardinality(TasksOf(b.person))
  <2>1. b.person \notin shuffled => todo = TasksOf(b.person)
    BY <1>2 DEF DeskRows, BoardKept
  <2>. QED
    BY <1>4, <2>1
<1>7. DeskTypes' /\ DeskGrows /\ DeskRows'
  BY <1>3 DEF deskVars, DeskTypes, DeskGrows, DeskRows, Exists, BoardKept, TasksOf
<1>8. PICK c : c = [at |-> "create", person |-> b.person, lead |-> b.lead, due |-> b.due, order |-> n + 1]
  OBVIOUS
<1>9. c \in DeskCalls /\ c.at = "create" /\ c.person = b.person /\ c.lead = b.lead /\ c.order = n + 1
  BY <1>2, <1>5, <1>8 DEF DeskCalls, CreateCall, CountCall
<1>10. \A q : TasksOf(q)' = TasksOf(q)
  BY <1>3 DEF deskVars, TasksOf
<1>11. DeskHolds(c)'
  BY <1>3, <1>6, <1>9, <1>10 DEF deskVars, DeskHolds
<1>12. c.person \notin shuffled' => \A g \in Handlers : g # h => ~WorksFor(g, c.person)
  BY <1>1, <1>2, <1>3, <1>9 DEF deskVars, DeskServes, WorksFor
<1>. QED
  BY <1>3, <1>4, <1>7, <1>8, <1>9, <1>10, <1>11, <1>12, DeskMoves

LEMMA InsertTaskIsSound ==
    ASSUME DeskRows, DeskServes, NEW h \in Handlers, InsertTask(h)
    PROVE  DeskRows' /\ DeskServes'
<1>1. PICK b \in DeskCalls : b = call[h]
  BY DEF DeskServes
<1>2. b \in CreateCall /\ b # Idle /\ b.person \in People
  BY <1>1, DeskCallShape DEF InsertTask, Idle
<1>3. PICK t : t = created + 1
  OBVIOUS
<1>4. PICK row : row = [owner |-> b.person, lead |-> b.lead, status |-> "TODO", order |-> b.order,
                        due |-> b.due]
  OBVIOUS
<1>5. /\ created < MaxTasks /\ created' = t
      /\ call' = [call EXCEPT ![h] = Idle]
      /\ tasks' = [tasks EXCEPT ![t] = row]
      /\ UNCHANGED <<notes, followups, shuffled>>
  BY <1>1, <1>3, <1>4 DEF InsertTask, End, Then
<1>6. /\ created \in Nat /\ t \in Nat /\ created < t /\ t \in TaskIds
      /\ tasks \in [TaskIds -> Task \cup {NoTask}]
  BY <1>3, <1>5, DeskAssumption DEF DeskRows, DeskTypes, TaskIds
<1>7. row \in Task /\ row.owner = b.person /\ row.lead = b.lead /\ row.status = "TODO"
      /\ row.order = b.order
  BY <1>2, <1>4 DEF Task, CreateCall, Statuses
<1>8. ~Exists(t) /\ tasks[t].owner = NoOwner
  BY <1>6 DEF DeskRows, Exists
<1>9. tasks'[t] = row /\ \A s \in TaskIds : s # t => tasks'[s] = tasks[s]
  BY <1>5, <1>6
<1>10. DeskTypes'
  BY <1>5, <1>6, <1>7 DEF DeskRows, DeskTypes
<1>11. DeskGrows
  BY <1>5, <1>6, <1>9 DEF DeskGrows, TaskIds
<1>12. /\ TasksOf(b.person)' = TasksOf(b.person) \cup {t}
       /\ t \notin TasksOf(b.person)
       /\ \A q \in People : q # b.person => TasksOf(q)' = TasksOf(q)
  BY <1>2, <1>6, <1>7, <1>8, <1>9, NobodysTask DEF TasksOf
<1>13. b.person \notin shuffled => b.order = Cardinality(TasksOf(b.person)) + 1
  BY <1>1, <1>2 DEF DeskServes, DeskHolds, CreateCall
<1>14. \A p \in People \ shuffled' : BoardKept(p)'
  <2>. SUFFICES ASSUME NEW p \in People, p \notin shuffled PROVE BoardKept(p)'
    BY <1>5
  <2>1. BoardKept(p)
    BY DEF DeskRows
  <2>2. CASE p # b.person
    BY <1>9, <1>12, <2>1, <2>2, <1>8, NobodysTask, BoardStays DEF TasksOf
  <2>3. CASE p = b.person
    <3>1. IsFiniteSet(TasksOf(p)) /\ Cardinality(TasksOf(p)) \in Nat
          /\ \A s \in TasksOf(p) : s \in TaskIds /\ tasks[s] \in Task /\ tasks[s].order \in Nat
      BY TasksTyped, TaskShape DEF DeskRows
    <3>2. Cardinality(TasksOf(p)') = Cardinality(TasksOf(p)) + 1
      BY <1>12, <2>3, <3>1, FS_AddElement
    <3>3. \A s \in TasksOf(p) : s \in Nat /\ s <= created /\ s # t
      BY <1>6, <1>12, <2>3, <3>1, TaskShape DEF DeskRows, Exists, TaskIds
    <3>4. \A s \in TasksOf(p) : tasks'[s] = tasks[s]
      BY <1>9, <3>1, <3>3
    <3>5. row.order = Cardinality(TasksOf(p)) + 1
      BY <1>7, <1>13, <2>3
    <3>6. \A s \in TasksOf(p)' :
              tasks'[s].status = "TODO" /\ tasks'[s].order <= Cardinality(TasksOf(p)')
      BY <1>7, <1>9, <1>12, <2>1, <2>3, <3>1, <3>2, <3>4, <3>5 DEF BoardKept
    <3>7. \A r, s \in TasksOf(p)' : r < s => tasks'[r].order < tasks'[s].order
      <4>. SUFFICES ASSUME NEW r \in TasksOf(p)', NEW s \in TasksOf(p)', r < s
                    PROVE  tasks'[r].order < tasks'[s].order
        OBVIOUS
      <4>1. r \in TasksOf(p)
        BY <1>6, <1>12, <2>3, <3>3
      <4>2. CASE s = t
        BY <1>9, <2>1, <3>1, <3>4, <3>5, <4>1, <4>2 DEF BoardKept
      <4>3. CASE s # t
        BY <1>12, <2>1, <2>3, <3>4, <4>1, <4>3 DEF BoardKept
      <4>. QED
        BY <4>2, <4>3
    <3>. QED
      BY <3>6, <3>7 DEF BoardKept
  <2>. QED
    BY <2>2, <2>3
<1>15. \A s \in TaskIds : Exists(s)' => s <= created'
  BY <1>5, <1>6, <1>9 DEF DeskRows, Exists, TaskIds
<1>16. DeskRows'
  BY <1>5, <1>10, <1>14, <1>15 DEF DeskRows
<1>17. \A q \in People \ shuffled', g \in Handlers : g # h /\ WorksFor(g, q) =>
           TasksOf(q)' = TasksOf(q)
  BY <1>1, <1>2, <1>5, <1>12 DEF DeskServes, WorksFor
<1>. QED
  BY <1>5, <1>10, <1>11, <1>16, <1>17, IdleDesk, DeskMoves

\* A row keeps its type and its owner.
LEMMA ChangedTyped ==
    ASSUME NEW row \in Task, NEW change \in Changes \cup Moves
    PROVE  /\ Changed(row, change) \in Task
           /\ Changed(row, change).owner = row.owner
<1>1. DOMAIN row = {"owner", "lead", "status", "order", "due"}
  BY DEF Task
<1>2. /\ DOMAIN change \in {{"lead"}, {"due"}, {"status"}, {"status", "order"}}
      /\ "lead" \in DOMAIN change => change["lead"] \in Leads \cup {NoLead}
      /\ "due" \in DOMAIN change => change["due"] \in Days \cup {NoDay}
      /\ "status" \in DOMAIN change => change["status"] \in Statuses
      /\ "order" \in DOMAIN change => change["order"] \in Nat
  <2>1. CASE change \in [lead : Leads \cup {NoLead}]
    BY <2>1
  <2>2. CASE change \in [due : Days \cup {NoDay}]
    BY <2>2
  <2>3. CASE change \in [status : Statuses]
    BY <2>3
  <2>4. CASE change \in Moves
    BY <2>4, DeskAssumption DEF Moves
  <2>. QED
    BY <2>1, <2>2, <2>3, <2>4 DEF Changes
<1>3. /\ row["owner"] \in People /\ row["lead"] \in Leads \cup {NoLead}
      /\ row["status"] \in Statuses /\ row["order"] \in Nat /\ row["due"] \in Days \cup {NoDay}
  BY DEF Task
<1>4. PICK new : new = Changed(row, change)
  OBVIOUS
<1>5. new = [f \in {"owner", "lead", "status", "order", "due"} |->
                IF f \in DOMAIN change THEN change[f] ELSE row[f]]
  BY <1>1, <1>4 DEF Changed
<1>6. /\ new["owner"] = row["owner"]
      /\ new["lead"] = IF "lead" \in DOMAIN change THEN change["lead"] ELSE row["lead"]
      /\ new["lead"] \in Leads \cup {NoLead}
      /\ new["status"] \in Statuses /\ new["order"] \in Nat /\ new["due"] \in Days \cup {NoDay}
  BY <1>2, <1>3, <1>5
<1>7. new = [owner |-> new["owner"], lead |-> new["lead"], status |-> new["status"],
             order |-> new["order"], due |-> new["due"]]
  BY <1>5
<1>8. new \in Task
  BY <1>3, <1>6, <1>7 DEF Task
<1>. QED
  BY <1>4, <1>6, <1>8

\* A request about a task starts: the person's board is no longer one that is left alone.
LEMMA BeginOnTaskIsSound ==
    ASSUME DeskRows, DeskServes, NEW h \in Handlers, NEW p \in People, NEW t \in TaskIds,
           NEW c \in DeskCalls, c.at \in {"write", "remove"}, c.person = p, c.task = t,
           tasks[t].owner = p, call' = [call EXCEPT ![h] = c],
           shuffled' = shuffled \cup {p},
           UNCHANGED <<tasks, created, notes, followups>>
    PROVE  DeskRows' /\ DeskServes'
<1>1. DeskTypes' /\ DeskGrows
  BY DEF DeskTypes, DeskGrows, DeskRows
<1>2. DeskRows'
  BY <1>1 DEF DeskRows, Exists, BoardKept, TasksOf
<1>3. t <= created
  BY NobodysTask DEF DeskRows, Exists
<1>4. DeskHolds(c)'
  BY <1>3 DEF DeskHolds
<1>5. \A q : TasksOf(q)' = TasksOf(q)
  BY DEF TasksOf
<1>. QED
  BY <1>1, <1>2, <1>4, <1>5, DeskMoves

LEMMA BeginUpdateTaskIsSound ==
    ASSUME DeskRows, DeskServes, NEW h \in Handlers, NEW p \in People, NEW t \in TaskIds,
           NEW change \in Changes, BeginUpdateTask(h, p, t, change)
    PROVE  DeskRows' /\ DeskServes'
<1>1. PICK c : c = [at |-> "write", person |-> p, task |-> t, change |-> change]
  OBVIOUS
<1>2. c \in DeskCalls /\ c.at = "write" /\ c.person = p /\ c.task = t /\ c.change = change
  BY <1>1 DEF DeskCalls, WriteCall
<1>. QED
  BY <1>1, <1>2, BeginOnTaskIsSound DEF BeginUpdateTask, Begin

LEMMA BeginMoveTaskIsSound ==
    ASSUME DeskRows, DeskServes, NEW h \in Handlers, NEW p \in People, NEW t \in TaskIds,
           NEW change \in Moves, BeginMoveTask(h, p, t, change)
    PROVE  DeskRows' /\ DeskServes'
<1>1. PICK c : c = [at |-> "write", person |-> p, task |-> t, change |-> change]
  OBVIOUS
<1>2. c \in DeskCalls /\ c.at = "write" /\ c.person = p /\ c.task = t /\ c.change = change
  BY <1>1 DEF DeskCalls, WriteCall
<1>. QED
  BY <1>1, <1>2, BeginOnTaskIsSound DEF BeginMoveTask, Begin

LEMMA BeginDeleteTaskIsSound ==
    ASSUME DeskRows, DeskServes, NEW h \in Handlers, NEW p \in People, NEW t \in TaskIds,
           BeginDeleteTask(h, p, t)
    PROVE  DeskRows' /\ DeskServes'
<1>1. PICK c : c = [at |-> "remove", person |-> p, task |-> t]
  OBVIOUS
<1>2. c \in DeskCalls /\ c.at = "remove" /\ c.person = p /\ c.task = t
  BY <1>1 DEF DeskCalls, RemoveCall
<1>. QED
  BY <1>1, <1>2, BeginOnTaskIsSound DEF BeginDeleteTask, Begin

\* The row of a task whose owner's board is shuffled becomes another of his, or goes.
LEMMA EndOnTaskIsSound ==
    ASSUME DeskRows, DeskServes, NEW h \in Handlers, NEW t \in TaskIds, NEW p \in shuffled,
           NEW row \in Task \cup {NoTask}, row.owner \in {tasks[t].owner, NoOwner},
           tasks[t].owner \in {p, NoOwner},
           call' = [call EXCEPT ![h] = Idle],
           tasks' = [tasks EXCEPT ![t] = row],
           UNCHANGED <<created, notes, followups, shuffled>>
    PROVE  DeskRows' /\ DeskServes'
<1>1. tasks \in [TaskIds -> Task \cup {NoTask}] /\ created \in Nat /\ p \in People
  BY DEF DeskRows, DeskTypes
<1>2. tasks'[t] = row /\ \A s \in TaskIds : s # t => tasks'[s] = tasks[s]
  BY <1>1
<1>3. DeskTypes'
  BY <1>1 DEF DeskRows, DeskTypes
<1>4. DeskGrows
  BY <1>1, <1>2 DEF DeskGrows
<1>5. \A q \in People : q # p => TasksOf(q)' = TasksOf(q) /\ t \notin TasksOf(q)
  BY <1>2, NobodysTask DEF TasksOf
<1>6. \A q \in People \ shuffled' : BoardKept(q)'
  <2>. SUFFICES ASSUME NEW q \in People \ shuffled PROVE BoardKept(q)'
    OBVIOUS
  <2>1. TasksOf(q)' = TasksOf(q) /\ BoardKept(q) /\ \A s \in TasksOf(q) : tasks'[s] = tasks[s]
    BY <1>2, <1>5 DEF DeskRows, TasksOf
  <2>. QED
    BY <2>1, BoardStays
<1>7. \A s \in TaskIds : Exists(s)' => s <= created'
  BY <1>2 DEF DeskRows, Exists
<1>8. DeskRows'
  BY <1>3, <1>6, <1>7 DEF DeskRows
<1>9. \A q \in People \ shuffled' : TasksOf(q)' = TasksOf(q)
  BY <1>5
<1>. QED
  BY <1>3, <1>4, <1>8, <1>9, IdleDesk, DeskMoves

LEMMA WriteTaskIsSound ==
    ASSUME DeskRows, DeskServes, NEW h \in Handlers, WriteTask(h)
    PROVE  DeskRows' /\ DeskServes'
<1>1. PICK b \in DeskCalls : b = call[h]
  BY DEF DeskServes
<1>2. b \in WriteCall
  BY <1>1, DeskCallShape DEF WriteTask
<1>3. PICK p, t, change : p = b.person /\ t = b.task /\ change = b.change
  OBVIOUS
<1>4. /\ t \in TaskIds /\ change \in Changes \cup Moves /\ p \in shuffled
      /\ tasks[t].owner \in {p, NoOwner} /\ t <= created
  BY <1>1, <1>2, <1>3 DEF DeskServes, DeskHolds, WriteCall
<1>5. /\ call' = [call EXCEPT ![h] = Idle]
      /\ tasks' = IF Exists(t) THEN [tasks EXCEPT ![t] = Changed(tasks[t], change)] ELSE tasks
      /\ UNCHANGED <<created, notes, followups, shuffled>>
  BY <1>1, <1>3 DEF WriteTask, End, Then
<1>6. tasks \in [TaskIds -> Task \cup {NoTask}]
  BY DEF DeskRows, DeskTypes
<1>7. CASE Exists(t)
  <2>1. PICK row : row = Changed(tasks[t], change)
    OBVIOUS
  <2>2. tasks[t] \in Task
    BY <1>4, <1>6, <1>7, NobodysTask DEF Exists
  <2>3. row \in Task /\ row.owner = tasks[t].owner
    BY <1>4, <2>1, <2>2, ChangedTyped
  <2>. QED
    BY <1>4, <1>5, <1>7, <2>1, <2>2, <2>3, EndOnTaskIsSound
<1>8. CASE ~Exists(t)
  <2>1. tasks[t] = NoTask /\ tasks' = [tasks EXCEPT ![t] = NoTask]
    BY <1>4, <1>5, <1>6, <1>8, TaskShape DEF Exists
  <2>. QED
    BY <1>4, <1>5, <2>1, EndOnTaskIsSound
<1>. QED
  BY <1>7, <1>8

LEMMA DeleteTaskIsSound ==
    ASSUME DeskRows, DeskServes, NEW h \in Handlers, DeleteTask(h)
    PROVE  DeskRows' /\ DeskServes'
<1>1. PICK b \in DeskCalls : b = call[h]
  BY DEF DeskServes
<1>2. b \in RemoveCall
  BY <1>1, DeskCallShape DEF DeleteTask
<1>3. /\ b.task \in TaskIds /\ b.person \in shuffled
      /\ tasks[b.task].owner \in {b.person, NoOwner}
  BY <1>1, <1>2 DEF DeskServes, DeskHolds, RemoveCall
<1>4. /\ call' = [call EXCEPT ![h] = Idle]
      /\ tasks' = [tasks EXCEPT ![b.task] = NoTask]
      /\ UNCHANGED <<created, notes, followups, shuffled>>
  BY <1>1 DEF DeleteTask, End, Then
<1>. QED
  BY <1>3, <1>4, NobodysTask, EndOnTaskIsSound

\* Notes and follow-ups leave the tasks as they are.
LEMMA OffBoardIsSound ==
    ASSUME DeskRows, DeskServes,
           UNCHANGED <<call, tasks, created, shuffled>>,
           notes' \in [NoteIds -> Note \cup {NoNote}],
           followups' \subseteq People \X Days
    PROVE  DeskRows' /\ DeskServes'
<1>1. DeskTypes'
  BY DEF DeskRows, DeskTypes
<1>2. \A p \in People \ shuffled' : BoardKept(p)'
  BY DEF DeskRows, BoardKept, TasksOf
<1>3. DeskRows'
  BY <1>1, <1>2 DEF DeskRows, Exists
<1>. QED
  BY <1>1, <1>3, DeskStays

LEMMA CalendarRoutesAreSound ==
    ASSUME DeskRows, DeskServes, NEW p \in People, CalendarRoutes(p)
    PROVE  DeskRows' /\ DeskServes'
<1>1. UNCHANGED <<call, tasks, created, shuffled, followups>>
  BY DEF CalendarRoutes, CreateNote, UpdateNote, DeleteNote, AskOnce
<1>2. notes \in [NoteIds -> Note \cup {NoNote}] /\ \A r \in Note : r.owner \in People /\ r.day \in Days
  BY DEF DeskRows, DeskTypes, Note
<1>3. PICK n \in NoteIds :
          \/ \E day \in Days : CreateNote(p, n, day) \/ UpdateNote(p, n, day)
          \/ DeleteNote(p, n)
  BY DEF CalendarRoutes
<1>4. notes' \in [NoteIds -> Note \cup {NoNote}]
  <2>1. CASE \E day \in Days : CreateNote(p, n, day)
    BY <1>2, <2>1 DEF CreateNote, Note
  <2>2. CASE \E day \in Days : UpdateNote(p, n, day)
    <3>1. PICK day \in Days : UpdateNote(p, n, day)
      BY <2>2
    <3>2. notes[n] \in Note
      BY <1>2, <3>1, NobodysTask DEF UpdateNote, NoNote
    <3>3. [notes[n] EXCEPT !.day = day] \in Note
      BY <3>2 DEF Note
    <3>. QED
      BY <1>2, <3>1, <3>3 DEF UpdateNote
  <2>3. CASE DeleteNote(p, n)
    BY <1>2, <2>3 DEF DeleteNote
  <2>. QED
    BY <1>3, <2>1, <2>2, <2>3
<1>. QED
  BY <1>1, <1>4, OffBoardIsSound DEF DeskRows, DeskTypes

LEMMA PlanFollowupIsSound ==
    ASSUME DeskRows, DeskServes, NEW p \in People, NEW day \in Days, PlanFollowup(p, day)
    PROVE  DeskRows' /\ DeskServes'
  BY OffBoardIsSound DEF DeskRows, DeskTypes, PlanFollowup, AskOnce

LEMMA TaskRoutesAreSound ==
    ASSUME DeskRows, DeskServes, NEW h \in Handlers, NEW p \in People, TaskRoutes(h, p)
    PROVE  DeskRows' /\ DeskServes'
  BY BeginCreateTaskIsSound, BeginUpdateTaskIsSound, BeginMoveTaskIsSound,
     BeginDeleteTaskIsSound DEF TaskRoutes

LEMMA DeskStep ==
    ASSUME DeskRows, DeskServes, DeskNext
    PROVE  DeskRows' /\ DeskServes'
<1>1. \A p \in Admins \cup Distributors : p \in People
  BY DEF People
<1>2. CASE \E h \in Handlers : AdminTaskRoutes(h) \/ DistributorRoutes(h)
  BY <1>1, <1>2, TaskRoutesAreSound, CalendarRoutesAreSound DEF AdminTaskRoutes, DistributorRoutes
<1>3. CASE \E h \in Handlers : CountTodo(h) \/ InsertTask(h) \/ WriteTask(h) \/ DeleteTask(h)
  BY <1>3, CountTodoIsSound, InsertTaskIsSound, WriteTaskIsSound, DeleteTaskIsSound
<1>4. CASE AdminCalendarRoutes
  BY <1>1, <1>4, CalendarRoutesAreSound DEF AdminCalendarRoutes
<1>5. CASE \E p \in Distributors : \E day \in Days : PlanFollowup(p, day)
  BY <1>1, <1>5, PlanFollowupIsSound
<1>. QED
  BY <1>2, <1>3, <1>4, <1>5 DEF DeskNext

LEMMA DeskRowsStay ==
    ASSUME DeskRows, UNCHANGED deskVars
    PROVE  DeskRows'
  BY DEF DeskRows, DeskTypes, deskVars, Exists, BoardKept, TasksOf

LEMMA DeskServesStays ==
    ASSUME DeskRows, DeskServes, UNCHANGED <<call, deskVars>>
    PROVE  DeskServes'
  BY DeskRowsStay, DeskStays DEF deskVars, DeskRows

LEMMA DeskRestarts ==
    ASSUME call' = [h \in Handlers |-> Idle]
    PROVE  DeskServes'
<1>1. \A h \in Handlers : call'[h] = Idle
  OBVIOUS
<1>2. call' \in [Handlers -> DeskCalls]
  BY IdleDesk
<1>3. \A h \in Handlers : DeskHolds(call[h])'
  BY <1>1 DEF DeskHolds, Idle
<1>. QED
  BY <1>1, <1>2, <1>3 DEF DeskServes, WorksFor

----------------------------------------------------------------------------
(* The desk: what is listed *)

\* A day is in one month: its number by the length of a month.
LEMMA OneMonth ==
    ASSUME NEW day \in Days, NEW m \in Months
    PROVE  InMonth(day, m) <=> m = day \div MonthLength
<1>. DEFINE q == day \div MonthLength
<1>1. day \in Nat /\ m \in Nat /\ MonthLength \in Nat \ {0} /\ q \in Months /\ q \in Nat
  BY DeskAssumption
<1>2. day = MonthLength * q + (day % MonthLength) /\ day % MonthLength \in 0..MonthLength - 1
  BY <1>1, SMT
<1>3. MonthLength * q \in Nat /\ MonthLength * m \in Nat
      /\ MonthLength * (q + 1) = MonthLength * q + MonthLength
      /\ MonthLength * (m + 1) = MonthLength * m + MonthLength
      /\ MonthLength * m = m * MonthLength /\ MonthLength * (m + 1) = (m + 1) * MonthLength
  BY <1>1, SMT
<1>4. InMonth(day, m) <=> MonthLength * m <= day /\ day < MonthLength * m + MonthLength
  BY <1>3 DEF InMonth
<1>5. m < q => MonthLength * (m + 1) <= MonthLength * q
  <2>. HIDE DEF q
  <2>1. m < q => m + 1 <= q
    BY <1>1
  <2>. QED
    BY <1>1, <2>1, SMT
<1>6. q < m => MonthLength * (q + 1) <= MonthLength * m
  <2>. HIDE DEF q
  <2>1. q < m => q + 1 <= m
    BY <1>1
  <2>. QED
    BY <1>1, <2>1, SMT
<1>7. PICK r : r = day % MonthLength
  OBVIOUS
<1>8. r \in Nat /\ r < MonthLength /\ day = MonthLength * q + r
  BY <1>1, <1>2, <1>7
<1>. HIDE DEF q
<1>9. PICK x, y : x = MonthLength * q /\ y = MonthLength * m
  OBVIOUS
<1>10. x \in Nat /\ y \in Nat /\ MonthLength \in Nat /\ (m < q => y + MonthLength <= x)
       /\ (q < m => x + MonthLength <= y) /\ day = x + r
       /\ (InMonth(day, m) <=> y <= day /\ day < y + MonthLength)
  BY <1>1, <1>3, <1>4, <1>5, <1>6, <1>8, <1>9
<1>11. m = q \/ m < q \/ q < m
  BY <1>1
<1>12. m = q => x = y
  BY <1>9
<1>13. InMonth(day, m) <=> m = q
  BY <1>1, <1>8, <1>10, <1>11, <1>12
<1>. QED
  BY <1>13 DEF q

LEMMA CalendarEntries ==
    ASSUME NEW p, NEW m
    PROVE  /\ \A n \in NoteIds : <<"NOTE", n>> \in GetCalendar(p, m)
                                    <=> notes[n].owner = p /\ InMonth(notes[n].day, m)
           /\ \A t \in TaskIds : <<"TASK", t>> \in GetCalendar(p, m)
                                    <=> /\ tasks[t].owner = p /\ tasks[t].due # NoDay
                                        /\ InMonth(tasks[t].due, m)
<1>1. /\ \A n, f : <<"NOTE", n>> # <<"FOLLOWUP", f>> /\ <<"NOTE", n>> # <<"TASK", f>>
      /\ \A t, f : <<"TASK", t>> # <<"FOLLOWUP", f>> /\ <<"TASK", t>> # <<"NOTE", f>>
  OBVIOUS
<1>2. \A a, n, k : <<a, n>> = <<a, k>> => n = k
  OBVIOUS
<1>. QED
  BY <1>1, <1>2, Zenon DEF GetCalendar, TasksOf

LEMMA CalendarHolds ==
    ASSUME DeskRows
    PROVE  CalendarShowsOnce
<1>1. ASSUME NEW p \in People, NEW n \in NoteIds
      PROVE  Cardinality({m \in Months : <<"NOTE", n>> \in GetCalendar(p, m)})
                 = IF notes[n].owner = p THEN 1 ELSE 0
  <2>1. {m \in Months : <<"NOTE", n>> \in GetCalendar(p, m)}
            = {m \in Months : notes[n].owner = p /\ InMonth(notes[n].day, m)}
    BY CalendarEntries
  <2>2. CASE notes[n].owner = p
    <3>1. notes[n] \in Note
      BY <2>2, NobodysTask DEF DeskRows, DeskTypes, NoNote
    <3>2. PICK day \in Days : day = notes[n].day
      BY <3>1 DEF Note
    <3>3. {m \in Months : notes[n].owner = p /\ InMonth(notes[n].day, m)} = {day \div MonthLength}
      BY <2>2, <3>2, OneMonth, DeskAssumption
    <3>. QED
      BY <2>1, <2>2, <3>3, FS_Singleton
  <2>3. CASE notes[n].owner # p
    BY <2>1, <2>3, FS_EmptySet
  <2>. QED
    BY <2>2, <2>3
<1>2. ASSUME NEW p \in People, NEW t \in TaskIds
      PROVE  Cardinality({m \in Months : <<"TASK", t>> \in GetCalendar(p, m)})
                 = IF Exists(t) /\ tasks[t].owner = p /\ tasks[t].due # NoDay THEN 1 ELSE 0
  <2>1. {m \in Months : <<"TASK", t>> \in GetCalendar(p, m)}
            = {m \in Months : /\ tasks[t].owner = p /\ tasks[t].due # NoDay
                              /\ InMonth(tasks[t].due, m)}
    BY CalendarEntries
  <2>2. CASE tasks[t].owner = p /\ tasks[t].due # NoDay
    <3>1. tasks[t] \in Task /\ Exists(t)
      BY <2>2, NobodysTask DEF DeskRows, DeskTypes, Exists
    <3>2. PICK day \in Days : day = tasks[t].due
      BY <2>2, <3>1, TaskShape
    <3>3. {m \in Months : /\ tasks[t].owner = p /\ tasks[t].due # NoDay
                          /\ InMonth(tasks[t].due, m)} = {day \div MonthLength}
      BY <2>2, <3>2, OneMonth, DeskAssumption
    <3>. QED
      BY <2>1, <2>2, <3>1, <3>3, FS_Singleton
  <2>3. CASE ~(tasks[t].owner = p /\ tasks[t].due # NoDay)
    <3>1. {m \in Months : /\ tasks[t].owner = p /\ tasks[t].due # NoDay
                          /\ InMonth(tasks[t].due, m)} = {}
      BY <2>3
    <3>. QED
      BY <2>1, <2>3, <3>1, FS_EmptySet
  <2>. QED
    BY <2>2, <2>3
<1>. QED
  BY <1>1, <1>2 DEF CalendarShowsOnce

LEMMA RemindersHold ==
    ASSUME DeskRows, today \in Nat
    PROVE  RemindedOnce
<1>1. ASSUME NEW p \in People, NEW t \in TasksOf(p), tasks[t].due # NoDay
      PROVE  tasks[t].due \in Nat
  BY <1>1, TasksTyped, TaskShape, DeskAssumption DEF DeskRows
<1>2. ASSUME NEW p \in Distributors, NEW told \in GetNotifications(p)
      PROVE  /\ told.tasksDueToday \cap told.tasksDueSoon = {}
             /\ \A t \in TasksOf(p) : tasks[t].due # NoDay /\ tasks[t].status # "COMPLETE" =>
                    LET list == IF tasks[t].due = today THEN told.tasksDueToday
                                                        ELSE told.tasksDueSoon
                    IN  tasks[t].due \in today..today + 3 => t \in list \/ Cardinality(list) = Take
  <2>1. /\ told.tasksDueToday \in AnyOf(OpenTasksDue(p, today, today + 1), Take)
        /\ told.tasksDueSoon \in AnyOf(OpenTasksDue(p, today + 1, today + 4), Take)
    BY DEF GetNotifications
  <2>2. PICK now, soon : now = told.tasksDueToday /\ soon = told.tasksDueSoon
    OBVIOUS
  <2>3. /\ now \subseteq OpenTasksDue(p, today, today + 1)
        /\ soon \subseteq OpenTasksDue(p, today + 1, today + 4)
        /\ now = OpenTasksDue(p, today, today + 1) \/ Cardinality(now) = Take
        /\ soon = OpenTasksDue(p, today + 1, today + 4) \/ Cardinality(soon) = Take
    BY <2>1, <2>2 DEF AnyOf
  <2>4. \A t \in TasksOf(p) : tasks[t].due # NoDay => tasks[t].due \in Nat
    BY <1>1 DEF People
  <2>5. now \cap soon = {}
    BY <2>3, <2>4 DEF OpenTasksDue
  <2>6. ASSUME NEW t \in TasksOf(p), tasks[t].due # NoDay, tasks[t].status # "COMPLETE",
               tasks[t].due \in today..today + 3
        PROVE  /\ tasks[t].due = today => t \in now \/ Cardinality(now) = Take
               /\ tasks[t].due # today => t \in soon \/ Cardinality(soon) = Take
    <3>1. tasks[t].due = today => t \in OpenTasksDue(p, today, today + 1)
      BY <2>4, <2>6 DEF OpenTasksDue
    <3>2. tasks[t].due # today => t \in OpenTasksDue(p, today + 1, today + 4)
      BY <2>4, <2>6 DEF OpenTasksDue
    <3>. QED
      BY <2>3, <3>1, <3>2
  <2>. QED
    BY <2>2, <2>5, <2>6
<1>3. ASSUME NEW p \in Admins
      PROVE  LET told == GetTaskNotifications(p)
             IN  /\ told.tasksDueToday \cap told.overdueTasks = {}
                 /\ told.tasksDueToday \cup told.overdueTasks =
                        {t \in TasksOf(p) : /\ tasks[t].due # NoDay /\ tasks[t].due <= today
                                            /\ tasks[t].status # "COMPLETE"}
  <2>1. /\ GetTaskNotifications(p).overdueTasks = OpenTasksDue(p, 0, today)
        /\ GetTaskNotifications(p).tasksDueToday = OpenTasksDue(p, today, today + 1)
    BY DEF GetTaskNotifications
  <2>2. \A t \in TasksOf(p) : tasks[t].due # NoDay => tasks[t].due \in Nat
    BY <1>1 DEF People
  <2>. QED
    BY <2>1, <2>2 DEF OpenTasksDue
<1>. QED
  BY <1>2, <1>3 DEF RemindedOnce

LEMMA BoardHolds ==
    ASSUME DeskRows
    PROVE  BoardInOrder
<1>. SUFFICES ASSUME NEW p \in People \ shuffled, NEW s \in Statuses,
                     NEW a \in GetTasks(p)[s], NEW b \in GetTasks(p)[s], a[2] < b[2]
              PROVE  a[1] < b[1]
  BY DEF BoardInOrder
<1>1. \A e \in GetTasks(p)[s] : \E t \in TasksOf(p) : e = <<tasks[t].order, t>>
  BY DEF GetTasks
<1>2. PICK t \in TasksOf(p) : a = <<tasks[t].order, t>>
  BY <1>1
<1>3. PICK u \in TasksOf(p) : b = <<tasks[u].order, u>>
  BY <1>1
<1>. QED
  BY <1>2, <1>3 DEF DeskRows, BoardKept

----------------------------------------------------------------------------
(* The campaigns: rows and requests *)

CampaignTypes ==
    /\ campaigns \in [CampaignIds -> Campaign \cup {NoCampaign}] /\ made \in Nat
    /\ acquired \in [Visitors -> Slugs \cup {NoSlug}]
    /\ facts \in [Visitors -> SUBSET Facts]
    /\ raced \subseteq Actors

CampaignRows ==
    /\ CampaignTypes
    /\ \A k \in CampaignIds : Kept(k) => k <= made
    /\ SlugsDistinct

NewCampaignCall == [at : {"newCampaign"}, owner : Actors, slug : Slugs]

OldCampaignCall == [at : {"oldCampaign"}, owner : Actors, campaign : CampaignIds,
                    slug : Slugs, active : BOOLEAN]

CampaignCalls == {Idle} \cup NewCampaignCall \cup OldCampaignCall

\* What a request holds is still so: the campaign is the owner's or deleted, and the slug
\* is free unless the owner's requests met.
CampaignHolds(c) ==
    /\ c.at = "newCampaign" /\ c.owner \notin raced =>
           \A k \in CampaignIds : ~HasSlug(k, c.owner, c.slug)
    /\ c.at = "oldCampaign" =>
           /\ c.campaign <= made
           /\ campaigns[c.campaign].owner \in {c.owner, NoSlug}
    /\ c.at = "oldCampaign" /\ c.owner \notin raced =>
           \A k \in CampaignIds \ {c.campaign} : ~HasSlug(k, c.owner, c.slug)

WritesFor(h, owner) == call[h] # Idle /\ call[h].owner = owner

CampaignServes ==
    /\ call \in [Handlers -> CampaignCalls]
    /\ \A h \in Handlers : CampaignHolds(call[h])
    /\ \A o \in Actors \ raced : \A g, h \in Handlers : WritesFor(g, o) /\ WritesFor(h, o) => g = h

\* A deleted campaign is not made again.
CampaignsGrow ==
    /\ raced \subseteq raced'
    /\ made' \in Nat /\ made <= made'
    /\ \A k \in CampaignIds : k <= made => campaigns'[k].owner \in {campaigns[k].owner, NoSlug}

NoNewSlug(owner) ==
    \A k \in CampaignIds, slug \in Slugs : HasSlug(k, owner, slug)' => HasSlug(k, owner, slug)

LEMMA CampaignCallShape ==
    ASSUME NEW c \in CampaignCalls
    PROVE  /\ c.at \in {"idle", "newCampaign", "oldCampaign"}
           /\ c.at = "idle" <=> c = Idle
           /\ c # Idle => c.owner \in Actors /\ c.slug \in Slugs /\ "owner" \in DOMAIN c
           /\ "owner" \notin DOMAIN Idle
           /\ c.at = "newCampaign" => c \in NewCampaignCall
           /\ c.at = "oldCampaign" => c \in OldCampaignCall
  BY DEF CampaignCalls, NewCampaignCall, OldCampaignCall, Idle

LEMMA CampaignShape ==
    /\ \A r \in Campaign : r.owner \in Actors /\ r.slug \in Slugs /\ r.active \in BOOLEAN
    /\ NoCampaign.owner = NoSlug /\ NoSlug \notin Actors /\ NoCampaign \notin Campaign
  BY CampaignsAssumption DEF Campaign, NoCampaign

LEMMA WritingForIs ==
    ASSUME CampaignServes, NEW o
    PROVE  WritingFor(o) <=> \E h \in Handlers : WritesFor(h, o)
<1>1. \A h \in Handlers : ("owner" \in DOMAIN call[h]) <=> call[h] # Idle
  BY CampaignCallShape DEF CampaignServes
<1>. QED
  BY <1>1 DEF WritingFor, WritesFor

LEMMA CampaignStillHolds ==
    ASSUME CampaignTypes, CampaignsGrow, NEW c \in CampaignCalls, CampaignHolds(c),
           c # Idle /\ c.owner \notin raced' => NoNewSlug(c.owner)
    PROVE  CampaignHolds(c)'
<1>1. c.at = "newCampaign" /\ c.owner \notin raced' =>
          \A k \in CampaignIds : ~HasSlug(k, c.owner, c.slug)'
  BY CampaignCallShape DEF CampaignHolds, CampaignsGrow, NoNewSlug
<1>2. ASSUME c.at = "oldCampaign"
      PROVE  /\ c.campaign <= made'
             /\ campaigns'[c.campaign].owner \in {c.owner, NoSlug}
  <2>1. c.campaign \in CampaignIds /\ c.campaign \in Nat /\ made \in Nat
    BY <1>2, CampaignCallShape DEF OldCampaignCall, CampaignIds, CampaignTypes
  <2>. QED
    BY <1>2, <2>1 DEF CampaignHolds, CampaignsGrow
<1>3. c.at = "oldCampaign" /\ c.owner \notin raced' =>
          \A k \in CampaignIds \ {c.campaign} : ~HasSlug(k, c.owner, c.slug)'
  BY CampaignCallShape DEF CampaignHolds, CampaignsGrow, NoNewSlug
<1>. QED
  BY <1>1, <1>2, <1>3 DEF CampaignHolds, HasSlug

\* A handler moves to a call that is sound; what the others hold stays so.
LEMMA CampaignMoves ==
    ASSUME CampaignRows, CampaignServes, CampaignsGrow,
           NEW h \in Handlers, NEW c \in CampaignCalls, call' = [call EXCEPT ![h] = c],
           CampaignHolds(c)',
           \A o \in Actors \ raced', g \in Handlers : g # h /\ WritesFor(g, o) => NoNewSlug(o),
           c # Idle /\ c.owner \notin raced' =>
               \A g \in Handlers : g # h => ~WritesFor(g, c.owner)
    PROVE  CampaignServes'
<1>1. call \in [Handlers -> CampaignCalls]
  BY DEF CampaignServes
<1>2. call'[h] = c /\ \A g \in Handlers : g # h => call'[g] = call[g]
  BY <1>1
<1>3. call' \in [Handlers -> CampaignCalls]
  BY <1>1
<1>4. ASSUME NEW g \in Handlers PROVE CampaignHolds(call[g])'
  <2>1. PICK b \in CampaignCalls : b = call'[g]
    BY <1>3
  <2>2. CASE g = h
    <3>1. b = c
      BY <1>2, <2>1, <2>2
    <3>2. CampaignHolds(b)'
      BY <3>1
    <3>. QED
      BY <2>1, <3>2 DEF CampaignHolds, HasSlug
  <2>3. CASE g # h
    <3>1. b = call[g] /\ CampaignHolds(b)
      BY <1>2, <2>1, <2>3 DEF CampaignServes
    <3>2. b # Idle /\ b.owner \notin raced' => NoNewSlug(b.owner)
      BY <2>3, <3>1, CampaignCallShape DEF WritesFor
    <3>3. CampaignHolds(b)'
      BY <3>1, <3>2, CampaignStillHolds DEF CampaignRows
    <3>. QED
      BY <2>1, <3>3 DEF CampaignHolds, HasSlug
  <2>. QED
    BY <2>2, <2>3
<1>5. ASSUME NEW o \in Actors \ raced', NEW f \in Handlers, NEW g \in Handlers,
             WritesFor(f, o)', WritesFor(g, o)'
      PROVE  f = g
  <2>1. o \in Actors \ raced
    BY DEF CampaignsGrow
  <2>2. CASE f # h /\ g # h
    BY <1>2, <1>5, <2>1, <2>2 DEF WritesFor, CampaignServes
  <2>3. CASE f = h \/ g = h
    BY <1>2, <1>5, <2>3 DEF WritesFor
  <2>. QED
    BY <2>2, <2>3
<1>. QED
  BY <1>3, <1>4, <1>5 DEF CampaignServes

\* No handler moves.
LEMMA CampaignStays ==
    ASSUME CampaignRows, CampaignServes, CampaignsGrow, UNCHANGED <<call, raced>>,
           \A o \in Actors : NoNewSlug(o)
    PROVE  CampaignServes'
<1>1. ASSUME NEW g \in Handlers PROVE CampaignHolds(call[g])'
  <2>1. PICK b \in CampaignCalls : b = call[g] /\ b = call'[g] /\ CampaignHolds(b)
    BY DEF CampaignServes
  <2>2. CampaignHolds(b)'
    BY <2>1, CampaignStillHolds, CampaignCallShape DEF CampaignRows
  <2>. QED
    BY <2>1, <2>2 DEF CampaignHolds, HasSlug
<1>2. \A o \in Actors \ raced' : \A g, h \in Handlers :
          WritesFor(g, o)' /\ WritesFor(h, o)' => g = h
  BY DEF CampaignServes, WritesFor
<1>. QED
  BY <1>1, <1>2 DEF CampaignServes

LEMMA IdleCampaign == Idle \in CampaignCalls /\ CampaignHolds(Idle)'
  BY DEF CampaignCalls, CampaignHolds, Idle

----------------------------------------------------------------------------
(* The campaigns: steps *)

LEMMA CampaignsBegin ==
    ASSUME CampaignInit, ServiceInit
    PROVE  CampaignRows /\ CampaignServes
<1>1. CampaignTypes
  BY DEF CampaignInit, CampaignTypes
<1>2. \A k \in CampaignIds : ~Kept(k)
  BY DEF CampaignInit, Kept, NoCampaign
<1>3. SlugsDistinct
  BY <1>2 DEF SlugsDistinct
<1>4. CampaignServes
  BY DEF ServiceInit, CampaignServes, CampaignCalls, CampaignHolds, WritesFor, Idle
<1>. QED
  BY <1>1, <1>2, <1>3, <1>4 DEF CampaignRows

\* A request about an owner's campaigns starts.
LEMMA BeginCampaignIsSound ==
    ASSUME CampaignRows, CampaignServes, NEW h \in Handlers, NEW c \in CampaignCalls, c # Idle,
           call' = [call EXCEPT ![h] = c],
           raced' = Race(c.owner),
           UNCHANGED <<campaigns, made, acquired, facts>>,
           c.owner \notin raced => CampaignHolds(c),
           c.at = "oldCampaign" =>
               /\ c.campaign <= made
               /\ campaigns[c.campaign].owner \in {c.owner, NoSlug}
    PROVE  CampaignRows' /\ CampaignServes'
<1>1. c.owner \in Actors
  BY CampaignCallShape
<1>2. raced \subseteq raced' /\ raced' \subseteq Actors
      /\ (c.owner \notin raced' => c.owner \notin raced /\ ~WritingFor(c.owner))
  BY <1>1 DEF Race, CampaignRows, CampaignTypes
<1>3. CampaignTypes' /\ CampaignsGrow
  BY <1>2 DEF CampaignRows, CampaignTypes, CampaignsGrow
<1>4. CampaignRows'
  BY <1>2, <1>3 DEF CampaignRows, Kept, SlugsDistinct
<1>5. CampaignHolds(c)'
  BY <1>2 DEF CampaignHolds, HasSlug
<1>6. \A o : NoNewSlug(o)
  BY DEF NoNewSlug, HasSlug
<1>7. c.owner \notin raced' => \A g \in Handlers : g # h => ~WritesFor(g, c.owner)
  BY <1>2, WritingForIs
<1>. QED
  BY <1>3, <1>4, <1>5, <1>6, <1>7, CampaignMoves

LEMMA BeginCreateCampaignIsSound ==
    ASSUME CampaignRows, CampaignServes, NEW h \in Handlers, NEW actor \in Actors,
           NEW slug \in Slugs, BeginCreateCampaign(h, actor, slug)
    PROVE  CampaignRows' /\ CampaignServes'
<1>1. PICK c : c = [at |-> "newCampaign", owner |-> actor, slug |-> slug]
  OBVIOUS
<1>2. c \in CampaignCalls /\ c # Idle /\ c.at = "newCampaign" /\ c.owner = actor /\ c.slug = slug
  BY <1>1 DEF CampaignCalls, NewCampaignCall, Idle
<1>3. CampaignHolds(c)
  BY <1>2 DEF BeginCreateCampaign, CampaignHolds
<1>. QED
  BY <1>1, <1>2, <1>3, BeginCampaignIsSound DEF BeginCreateCampaign, Begin

LEMMA BeginUpdateCampaignIsSound ==
    ASSUME CampaignRows, CampaignServes, NEW h \in Handlers, NEW k \in CampaignIds,
           NEW actor \in Actors, NEW slug \in Slugs, NEW active \in BOOLEAN,
           BeginUpdateCampaign(h, k, actor, slug, active)
    PROVE  CampaignRows' /\ CampaignServes'
<1>1. PICK o : o = campaigns[k].owner
  OBVIOUS
<1>2. PICK c : c = [at |-> "oldCampaign", owner |-> o, campaign |-> k, slug |-> slug,
                    active |-> active]
  OBVIOUS
<1>3. Kept(k)
  BY DEF BeginUpdateCampaign, FindOwnedCampaign
<1>4. o \in Actors /\ o # NoSlug
  BY <1>1, <1>3, CampaignShape DEF CampaignRows, CampaignTypes, Kept
<1>5. /\ c \in CampaignCalls /\ c # Idle /\ c.at = "oldCampaign" /\ c.owner = o
      /\ c.slug = slug /\ c.campaign = k
  BY <1>2, <1>4 DEF CampaignCalls, OldCampaignCall, Idle
<1>6. o \notin raced => \A j \in CampaignIds \ {k} : ~HasSlug(j, o, slug)
  <2>1. CASE slug = campaigns[k].slug
    BY <1>1, <1>3, <1>4, <2>1 DEF CampaignRows, SlugsDistinct, HasSlug, Kept
  <2>2. CASE slug # campaigns[k].slug
    BY <1>1, <2>2 DEF BeginUpdateCampaign
  <2>. QED
    BY <2>1, <2>2
<1>7. c.campaign <= made /\ campaigns[c.campaign].owner \in {c.owner, NoSlug}
  BY <1>1, <1>3, <1>5 DEF CampaignRows
<1>8. c.owner \notin raced => CampaignHolds(c)
  BY <1>5, <1>6, <1>7 DEF CampaignHolds
<1>9. call' = [call EXCEPT ![h] = c] /\ raced' = Race(c.owner)
      /\ UNCHANGED <<campaigns, made, acquired, facts>>
  BY <1>1, <1>2, <1>5 DEF BeginUpdateCampaign, Begin
<1>. QED
  BY <1>5, <1>7, <1>8, <1>9, BeginCampaignIsSound

LEMMA CreateCampaignIsSound ==
    ASSUME CampaignRows, CampaignServes, NEW h \in Handlers, CreateCampaign(h)
    PROVE  CampaignRows' /\ CampaignServes'
<1>1. PICK b \in CampaignCalls : b = call[h] /\ CampaignHolds(b)
  BY DEF CampaignServes
<1>2. b \in NewCampaignCall /\ b # Idle
  BY <1>1, CampaignCallShape DEF CreateCampaign, Idle
<1>3. PICK m : m = made + 1
  OBVIOUS
<1>4. PICK row : row = [owner |-> b.owner, slug |-> b.slug, active |-> TRUE]
  OBVIOUS
<1>5. /\ call' = [call EXCEPT ![h] = Idle] /\ made < MaxCampaigns /\ made' = m
      /\ campaigns' = [campaigns EXCEPT ![m] = row]
      /\ UNCHANGED <<acquired, facts, raced>>
  BY <1>1, <1>3, <1>4 DEF CreateCampaign, End, Then
<1>6. /\ made \in Nat /\ m \in CampaignIds /\ m \in Nat /\ made < m
      /\ campaigns \in [CampaignIds -> Campaign \cup {NoCampaign}]
  BY <1>3, <1>5, CampaignsAssumption DEF CampaignRows, CampaignTypes, CampaignIds
<1>7. row \in Campaign /\ row.owner = b.owner /\ row.slug = b.slug /\ b.owner \in Actors
  BY <1>2, <1>4 DEF Campaign, NewCampaignCall
<1>8. campaigns'[m] = row /\ \A k \in CampaignIds : k # m => campaigns'[k] = campaigns[k]
  BY <1>5, <1>6
<1>9. CampaignTypes'
  BY <1>5, <1>6, <1>7 DEF CampaignRows, CampaignTypes
<1>10. CampaignsGrow
  BY <1>5, <1>6, <1>8 DEF CampaignsGrow, CampaignIds
<1>11. \A o : o # b.owner => NoNewSlug(o)
  BY <1>6, <1>7, <1>8 DEF NoNewSlug, HasSlug
<1>12. b.owner \notin raced => \A k \in CampaignIds : ~HasSlug(k, b.owner, b.slug)
  BY <1>1, <1>2 DEF CampaignHolds, NewCampaignCall
<1>13. SlugsDistinct'
  <2>. SUFFICES ASSUME NEW j \in CampaignIds, NEW k \in CampaignIds, j # k,
                       campaigns'[j].owner # NoSlug, campaigns'[k].owner # NoSlug,
                       campaigns'[j].owner = campaigns'[k].owner,
                       campaigns'[j].slug = campaigns'[k].slug,
                       campaigns'[j].owner \notin raced
                PROVE  FALSE
    BY <1>5 DEF SlugsDistinct, Kept
  <2>1. CASE j = m \/ k = m
    BY <1>7, <1>8, <1>12, <2>1 DEF HasSlug
  <2>2. CASE j # m /\ k # m
    BY <1>8, <2>2 DEF CampaignRows, SlugsDistinct, Kept
  <2>. QED
    BY <2>1, <2>2
<1>14. \A k \in CampaignIds : Kept(k)' => k <= made'
  BY <1>5, <1>6, <1>8 DEF CampaignRows, Kept, CampaignIds
<1>15. CampaignRows'
  BY <1>5, <1>9, <1>13, <1>14 DEF CampaignRows
<1>16. \A o \in Actors \ raced', g \in Handlers : g # h /\ WritesFor(g, o) => NoNewSlug(o)
  BY <1>1, <1>2, <1>5, <1>11 DEF CampaignServes, WritesFor
<1>. QED
  BY <1>5, <1>10, <1>15, <1>16, IdleCampaign, CampaignMoves

LEMMA UpdateCampaignIsSound ==
    ASSUME CampaignRows, CampaignServes, NEW h \in Handlers, UpdateCampaign(h)
    PROVE  CampaignRows' /\ CampaignServes'
<1>1. PICK b \in CampaignCalls : b = call[h] /\ CampaignHolds(b)
  BY DEF CampaignServes
<1>2. b \in OldCampaignCall /\ b # Idle /\ b.at = "oldCampaign"
  BY <1>1, CampaignCallShape DEF UpdateCampaign, Idle
<1>3. PICK k, o : k = b.campaign /\ o = b.owner
  OBVIOUS
<1>4. /\ k \in CampaignIds /\ o \in Actors /\ b.slug \in Slugs /\ b.active \in BOOLEAN
      /\ campaigns[k].owner \in {o, NoSlug}
  BY <1>1, <1>2, <1>3 DEF OldCampaignCall, CampaignHolds
<1>5. /\ call' = [call EXCEPT ![h] = Idle]
      /\ UNCHANGED <<made, acquired, facts, raced>>
      /\ \/ /\ Kept(k)
            /\ campaigns' = [campaigns EXCEPT ![k].slug = b.slug, ![k].active = b.active]
         \/ UNCHANGED campaigns
  BY <1>1, <1>3 DEF UpdateCampaign, End, Then
<1>6. campaigns \in [CampaignIds -> Campaign \cup {NoCampaign}] /\ made \in Nat
  BY DEF CampaignRows, CampaignTypes
<1>7. CASE UNCHANGED campaigns
  <2>1. CampaignTypes' /\ CampaignsGrow
    BY <1>5, <1>6, <1>7 DEF CampaignRows, CampaignTypes, CampaignsGrow
  <2>2. CampaignRows'
    BY <1>5, <1>7, <2>1 DEF CampaignRows, Kept, SlugsDistinct
  <2>3. \A q : NoNewSlug(q)
    BY <1>7 DEF NoNewSlug, HasSlug
  <2>. QED
    BY <1>5, <2>1, <2>2, <2>3, IdleCampaign, CampaignMoves
<1>8. CASE /\ Kept(k)
           /\ campaigns' = [campaigns EXCEPT ![k].slug = b.slug, ![k].active = b.active]
  <2>1. campaigns[k].owner = o
    BY <1>4, <1>8 DEF Kept
  <2>2. campaigns[k] \in Campaign
    BY <1>4, <1>6, <2>1, CampaignShape
  <2>3. PICK row : row = [campaigns[k] EXCEPT !.slug = b.slug, !.active = b.active]
    OBVIOUS
  <2>4. row \in Campaign /\ row.owner = o /\ row.slug = b.slug
    BY <1>4, <2>1, <2>2, <2>3 DEF Campaign
  <2>5. campaigns'[k] = row /\ \A j \in CampaignIds : j # k => campaigns'[j] = campaigns[j]
    BY <1>4, <1>6, <1>8, <2>2, <2>3
  <2>6. campaigns' \in [CampaignIds -> Campaign \cup {NoCampaign}]
    <3>1. campaigns' = [j \in CampaignIds |-> campaigns'[j]]
      BY <1>6, <1>8
    <3>2. \A j \in CampaignIds : campaigns'[j] \in Campaign \cup {NoCampaign}
      BY <1>6, <2>4, <2>5
    <3>. QED
      BY <3>1, <3>2
  <2>7. CampaignTypes'
    BY <1>4, <1>5, <1>8, <2>1, <2>6 DEF CampaignRows, CampaignTypes
  <2>8. CampaignsGrow
    BY <1>5, <1>6, <2>1, <2>4, <2>5 DEF CampaignsGrow
  <2>9. \A q : q # o => NoNewSlug(q)
    BY <2>4, <2>5 DEF NoNewSlug, HasSlug
  <2>10. o \notin raced => \A j \in CampaignIds \ {k} : ~HasSlug(j, o, b.slug)
    BY <1>1, <1>2, <1>3 DEF CampaignHolds
  <2>11. SlugsDistinct'
    <3>. SUFFICES ASSUME NEW i \in CampaignIds, NEW j \in CampaignIds, i # j,
                         campaigns'[i].owner # NoSlug, campaigns'[j].owner # NoSlug,
                         campaigns'[i].owner = campaigns'[j].owner,
                         campaigns'[i].slug = campaigns'[j].slug,
                         campaigns'[i].owner \notin raced
                  PROVE  FALSE
      BY <1>5 DEF SlugsDistinct, Kept
    <3>1. CASE i = k \/ j = k
      BY <2>4, <2>5, <2>10, <3>1 DEF HasSlug
    <3>2. CASE i # k /\ j # k
      BY <2>5, <3>2 DEF CampaignRows, SlugsDistinct, Kept
    <3>. QED
      BY <3>1, <3>2
  <2>12. \A j \in CampaignIds : Kept(j)' => j <= made'
    BY <1>5, <1>8, <2>5 DEF CampaignRows, Kept
  <2>13. CampaignRows'
    BY <2>7, <2>11, <2>12 DEF CampaignRows
  <2>14. \A q \in Actors \ raced', g \in Handlers : g # h /\ WritesFor(g, q) => NoNewSlug(q)
    BY <1>1, <1>2, <1>3, <1>4, <1>5, <2>9 DEF CampaignServes, WritesFor
  <2>. QED
    BY <1>5, <2>8, <2>13, <2>14, IdleCampaign, CampaignMoves
<1>. QED
  BY <1>5, <1>7, <1>8

LEMMA DeleteCampaignIsSound ==
    ASSUME CampaignRows, CampaignServes, NEW k \in CampaignIds, NEW actor \in Actors,
           DeleteCampaign(k, actor)
    PROVE  CampaignRows' /\ CampaignServes'
<1>1. PICK o : o = campaigns[k].owner
  OBVIOUS
<1>2. /\ campaigns' = [campaigns EXCEPT ![k] = NoCampaign]
      /\ UNCHANGED <<call, made, acquired, facts, raced>>
      /\ o # NoSlug
  BY <1>1 DEF DeleteCampaign, AskOnce, FindOwnedCampaign, Kept
<1>3. campaigns \in [CampaignIds -> Campaign \cup {NoCampaign}] /\ made \in Nat
  BY DEF CampaignRows, CampaignTypes
<1>4. o \in Actors
  BY <1>1, <1>2, <1>3, CampaignShape
<1>5. campaigns'[k] = NoCampaign /\ \A j \in CampaignIds : j # k => campaigns'[j] = campaigns[j]
  BY <1>2, <1>3
<1>6. CampaignTypes'
  BY <1>2, <1>3, <1>4 DEF CampaignRows, CampaignTypes
<1>7. CampaignsGrow
  BY <1>2, <1>3, <1>5, CampaignShape DEF CampaignsGrow
<1>8. \A q \in Actors : NoNewSlug(q)
  BY <1>5, CampaignShape DEF NoNewSlug, HasSlug
<1>9. \A j \in CampaignIds : Kept(j)' => j # k /\ Kept(j) /\ campaigns'[j] = campaigns[j]
  BY <1>5, CampaignShape DEF Kept
<1>10. SlugsDistinct'
  BY <1>2, <1>9 DEF CampaignRows, SlugsDistinct
<1>11. CampaignRows'
  BY <1>2, <1>6, <1>9, <1>10 DEF CampaignRows
<1>. QED
  BY <1>2, <1>7, <1>8, <1>11, CampaignStays

LEMMA VisitorsAreSound ==
    ASSUME CampaignRows, CampaignServes, NEW v \in Visitors,
           (\E slug \in Slugs \cup {NoSlug} : Visit(v, slug)) \/ Advance(v)
    PROVE  CampaignRows' /\ CampaignServes'
<1>1. UNCHANGED <<call, campaigns, made, raced>>
  BY DEF Visit, Advance, AskOnce, service
<1>2. facts \in [Visitors -> SUBSET Facts] /\ acquired \in [Visitors -> Slugs \cup {NoSlug}]
  BY DEF CampaignRows, CampaignTypes
<1>3. facts' \in [Visitors -> SUBSET Facts] /\ acquired' \in [Visitors -> Slugs \cup {NoSlug}]
  <2>1. CASE \E slug \in Slugs \cup {NoSlug} : Visit(v, slug)
    BY <1>2, <2>1 DEF Visit, Facts
  <2>2. CASE Advance(v)
    <3>1. acquired' = acquired
      BY <2>2 DEF Advance
    <3>2. PICK f \in Facts : facts' = [facts EXCEPT ![v] = @ \cup {f}]
      BY <2>2 DEF Advance
    <3>3. facts[v] \cup {f} \in SUBSET Facts
      BY <1>2
    <3>. QED
      BY <1>2, <3>1, <3>2, <3>3
  <2>. QED
    BY <2>1, <2>2
<1>4. CampaignTypes' /\ CampaignsGrow
  BY <1>1, <1>3 DEF CampaignRows, CampaignTypes, CampaignsGrow
<1>5. CampaignRows'
  BY <1>1, <1>4 DEF CampaignRows, Kept, SlugsDistinct
<1>6. \A q : NoNewSlug(q)
  BY <1>1 DEF NoNewSlug, HasSlug
<1>. QED
  BY <1>1, <1>4, <1>5, <1>6, CampaignStays

LEMMA CampaignStep ==
    ASSUME CampaignRows, CampaignServes, CampaignNext
    PROVE  CampaignRows' /\ CampaignServes'
<1>1. \A a \in Owners \cup Managers : a \in Actors
  BY DEF Actors
<1>2. ASSUME NEW h \in Handlers, NEW a \in Actors, CampaignRoutes(h, a)
      PROVE  CampaignRows' /\ CampaignServes'
  BY <1>2, BeginCreateCampaignIsSound, BeginUpdateCampaignIsSound, DeleteCampaignIsSound
     DEF CampaignRoutes
<1>3. CASE \E h \in Handlers : DistributorCampaignRoutes(h) \/ AdminCampaignRoutes(h)
  BY <1>1, <1>2, <1>3 DEF DistributorCampaignRoutes, AdminCampaignRoutes
<1>4. CASE \E h \in Handlers : CreateCampaign(h) \/ UpdateCampaign(h)
  BY <1>4, CreateCampaignIsSound, UpdateCampaignIsSound
<1>5. CASE \E v \in Visitors : (\E slug \in Slugs \cup {NoSlug} : Visit(v, slug)) \/ Advance(v)
  BY <1>5, VisitorsAreSound
<1>. QED
  BY <1>3, <1>4, <1>5 DEF CampaignNext

LEMMA CampaignRowsStay ==
    ASSUME CampaignRows, UNCHANGED campaignVars
    PROVE  CampaignRows'
  BY DEF CampaignRows, CampaignTypes, campaignVars, Kept, SlugsDistinct

LEMMA CampaignServesStays ==
    ASSUME CampaignRows, CampaignServes, UNCHANGED <<call, campaignVars>>
    PROVE  CampaignServes'
<1>1. CampaignsGrow /\ \A q : NoNewSlug(q)
  BY DEF campaignVars, CampaignsGrow, NoNewSlug, HasSlug, CampaignRows, CampaignTypes
<1>. QED
  BY <1>1, CampaignStays DEF campaignVars

LEMMA CampaignsRestart ==
    ASSUME call' = [h \in Handlers |-> Idle]
    PROVE  CampaignServes'
<1>1. \A h \in Handlers : call'[h] = Idle
  OBVIOUS
<1>2. call' \in [Handlers -> CampaignCalls]
  BY IdleCampaign
<1>3. \A h \in Handlers : CampaignHolds(call[h])'
  BY <1>1 DEF CampaignHolds, Idle
<1>. QED
  BY <1>1, <1>2, <1>3 DEF CampaignServes, WritesFor

\* The visitors of two slugs are different people.
LEMMA CountedHolds ==
    ASSUME CampaignRows
    PROVE  CountedForOne
<1>1. ASSUME NEW actor, NEW k \in CampaignIds
      PROVE  LET page == GetCampaign(actor, k)
             IN  /\ page.found <=> FindOwnedCampaign(k, actor)
                 /\ page.found => page.analytics = GetCampaignAnalytics(campaigns[k].slug)
  <2>1. PICK page : page = GetCampaign(actor, k)
    OBVIOUS
  <2>2. CASE FindOwnedCampaign(k, actor)
    <3>1. page = [found |-> TRUE, slug |-> campaigns[k].slug,
                  analytics |-> GetCampaignAnalytics(campaigns[k].slug)]
      BY <2>1, <2>2 DEF GetCampaign
    <3>. QED
      BY <2>1, <2>2, <3>1
  <2>3. CASE ~FindOwnedCampaign(k, actor)
    <3>1. page = [found |-> FALSE]
      BY <2>1, <2>3 DEF GetCampaign
    <3>2. page.found = FALSE
      BY <3>1
    <3>. QED
      BY <2>1, <2>3, <3>2
  <2>. QED
    BY <2>2, <2>3
<1>2. ASSUME NEW j \in CampaignIds, NEW k \in CampaignIds, j # k, Kept(j), Kept(k),
             campaigns[j].owner = campaigns[k].owner, campaigns[j].owner \notin raced
      PROVE  LET a == GetCampaignAnalytics(campaigns[j].slug)
                 b == GetCampaignAnalytics(campaigns[k].slug)
             IN  \A f, g \in DOMAIN a : a[f] \cap b[g] = {} /\ a[f] \subseteq a.clicks
  <2>1. campaigns[j].slug # campaigns[k].slug
    BY <1>2 DEF CampaignRows, SlugsDistinct
  <2>2. \A slug : /\ DOMAIN GetCampaignAnalytics(slug)
                         = {"clicks", "signups", "funnelCompletions", "conversions"}
                  /\ GetCampaignAnalytics(slug).clicks = {v \in Visitors : acquired[v] = slug}
                  /\ \A f \in DOMAIN GetCampaignAnalytics(slug) :
                         GetCampaignAnalytics(slug)[f] \subseteq {v \in Visitors : acquired[v] = slug}
    BY DEF GetCampaignAnalytics
  <2>. QED
    BY <2>1, <2>2
<1>3. \A actor, k : FindOwnedCampaign(k, actor) => Kept(k)
  BY DEF FindOwnedCampaign
<1>. QED
  BY <1>1, <1>2, <1>3 DEF CountedForOne

----------------------------------------------------------------------------
(* The offers: rows and requests *)

OfferTypes ==
    /\ plans \in [PlanIds -> Plan \cup {None}]
    /\ planRaces \in BOOLEAN
    /\ coupons \in [Coupons -> Coupon \cup {None, Gone}]
    /\ uses \in [Coupons -> SUBSET Users]
    /\ bounded \subseteq Coupons
    /\ highest \in [Coupons -> Nat]

\* The count of a coupon that has always had a limit is that of its uses, and is, like its
\* limit, not above the highest it has had.
CountedWithin(c) ==
    /\ coupons[c].used = Cardinality(uses[c])
    /\ coupons[c].used <= highest[c]
    /\ coupons[c].limit \in Limits /\ coupons[c].limit <= highest[c]

OfferRows ==
    /\ OfferTypes
    /\ ~planRaces => \A p, q \in GetActivePlans : p = q
    /\ \A c \in Coupons : IsFiniteSet(uses[c]) /\ (coupons[c] = None => uses[c] = {})
    /\ \A c \in bounded : Offered(c) => CountedWithin(c)
    /\ \A e \in erased : e[1] \in Coupons /\ coupons[e[1]] # None /\ (e[1] \in bounded => ~e[3])

FindPlanCall == [at : {"findPlan"}, plan : PlanIds, amount : Amounts]

StorePlanCall == [at : {"storePlan"}, plan : PlanIds, amount : Amounts, old : PlanIds \cup {Never}]

EditCall == [at : {"coupon"}, coupon : Coupons, change : CouponChanges, row : Coupon]

EraseCall == [at : {"retire", "erase"}, coupon : Coupons, known : SUBSET Users]

RedeemCall == [at : {"redeem"}, coupon : Coupons, user : Users, row : Coupon]

OfferCalls ==
    {Idle} \cup FindPlanCall \cup StorePlanCall \cup EditCall \cup EraseCall \cup RedeemCall

\* What a request holds is still so: no other plan is active than the one that was found,
\* the limit that was read is one the coupon has had, and who asked to erase a coupon with
\* a limit knew of no use.
OfferHolds(c) ==
    /\ c.at = "storePlan" /\ ~planRaces => GetActivePlans \subseteq {c.old}
    /\ c.at \in {"redeem", "erase"} => coupons[c.coupon] # None
    /\ c.at = "redeem" /\ c.coupon \in bounded =>
           c.row.limit \in Limits /\ c.row.limit <= highest[c.coupon]
    /\ c.at = "erase" /\ c.coupon \in bounded => c.known = {}

AboutPlans(h) == call[h].at \in {"findPlan", "storePlan"}

OfferServes ==
    /\ call \in [Handlers -> OfferCalls]
    /\ \A h \in Handlers : OfferHolds(call[h])
    /\ ~planRaces => \A g, h \in Handlers : AboutPlans(g) /\ AboutPlans(h) => g = h

\* A coupon that was created has been for good, gets a limit for good only when it is
\* created, and its highest limit does not fall.
OffersGrow ==
    /\ planRaces => planRaces'
    /\ \A c \in Coupons : coupons[c] # None =>
           /\ coupons'[c] # None
           /\ c \in bounded' => c \in bounded
           /\ highest'[c] \in Nat /\ highest[c] <= highest'[c]

LEMMA OfferCallShape ==
    ASSUME NEW c \in OfferCalls
    PROVE  /\ c.at \in {"idle", "findPlan", "storePlan", "coupon", "retire", "erase", "redeem"}
           /\ ("plan" \in DOMAIN c) <=> c.at \in {"findPlan", "storePlan"}
           /\ c.at = "findPlan" => c \in FindPlanCall
           /\ c.at = "storePlan" => c \in StorePlanCall
           /\ c.at = "coupon" => c \in EditCall
           /\ c.at \in {"retire", "erase"} => c \in EraseCall
           /\ c.at = "redeem" => c \in RedeemCall
  BY DEF OfferCalls, FindPlanCall, StorePlanCall, EditCall, EraseCall, RedeemCall, Idle

LEMMA PlanShape ==
    /\ \A r \in Plan : r.amount \in Amounts /\ r.active \in BOOLEAN
    /\ None \notin Plan
    /\ \A r \in Plan \cup {None} : [r EXCEPT !.active = FALSE] \in Plan \cup {None}
    /\ \A r \in Plan : [r EXCEPT !.active = FALSE] \in Plan /\ [r EXCEPT !.active = FALSE].active = FALSE
<1>1. \A r \in Plan : r.amount \in Amounts /\ r.active \in BOOLEAN
  BY DEF Plan
<1>2. None \notin Plan
  BY DEF None, Plan
<1>3. [None EXCEPT !.active = FALSE] = None
  BY DEF None
<1>4. \A r \in Plan : [r EXCEPT !.active = FALSE] \in Plan /\ [r EXCEPT !.active = FALSE].active = FALSE
  BY DEF Plan
<1>. QED
  BY <1>1, <1>2, <1>3, <1>4

LEMMA CouponShape ==
    /\ \A r \in Coupon : /\ r.limit \in Limits \cup {Unlimited} /\ r.perUser \in PerUserLimits
                         /\ r.used \in Nat /\ r.expires \in Nat \cup {Never} /\ r.active \in BOOLEAN
                         /\ r.value \in Values /\ r.type \in {"FLAT", "PERCENT", "FREE"}
    /\ None \notin Coupon /\ Gone \notin Coupon /\ None # Gone
    /\ Limits \subseteq Nat /\ Unlimited \notin Limits
<1>1. \A r \in Coupon : /\ r.limit \in Limits \cup {Unlimited} /\ r.perUser \in PerUserLimits
                        /\ r.used \in Nat /\ r.expires \in Nat \cup {Never} /\ r.active \in BOOLEAN
                        /\ r.value \in Values /\ r.type \in {"FLAT", "PERCENT", "FREE"}
  BY DEF Coupon
<1>2. None \notin Coupon /\ Gone \notin Coupon
  BY DEF Coupon, None, Gone
<1>3. None # Gone
  BY OffersAssumption DEF None, Gone
<1>. QED
  BY <1>1, <1>2, <1>3, OffersAssumption

LEMMA OfferStillHolds ==
    ASSUME OfferTypes, OffersGrow, NEW c \in OfferCalls, OfferHolds(c),
           c.at = "storePlan" /\ ~planRaces' => GetActivePlans' \subseteq GetActivePlans
    PROVE  OfferHolds(c)'
<1>1. c.at = "storePlan" /\ ~planRaces' => GetActivePlans' \subseteq {c.old}
  BY DEF OfferHolds, OffersGrow
<1>2. c.at \in {"redeem", "erase"} => c.coupon \in Coupons
  BY OfferCallShape DEF EraseCall, RedeemCall
<1>3. c.at \in {"redeem", "erase"} => coupons'[c.coupon] # None
  BY <1>2 DEF OfferHolds, OffersGrow
<1>4. c.at = "redeem" /\ c.coupon \in bounded' =>
          c.row.limit \in Limits /\ c.row.limit <= highest'[c.coupon]
  <2>1. c.at = "redeem" => highest[c.coupon] \in Nat
    BY <1>2 DEF OfferTypes
  <2>. QED
    BY <1>2, <2>1, CouponShape DEF OfferHolds, OffersGrow
<1>5. c.at = "erase" /\ c.coupon \in bounded' => c.known = {}
  BY <1>2 DEF OfferHolds, OffersGrow
<1>. QED
  BY <1>1, <1>3, <1>4, <1>5 DEF OfferHolds

\* A handler moves to a call that is sound; what the others hold stays so.
LEMMA OfferMoves ==
    ASSUME OfferRows, OfferServes, OffersGrow,
           NEW h \in Handlers, NEW c \in OfferCalls, call' = [call EXCEPT ![h] = c],
           OfferHolds(c)',
           \A g \in Handlers : g # h /\ AboutPlans(g) /\ ~planRaces' =>
               GetActivePlans' \subseteq GetActivePlans,
           c.at \in {"findPlan", "storePlan"} /\ ~planRaces' =>
               \A g \in Handlers : g # h => ~AboutPlans(g)
    PROVE  OfferServes'
<1>1. call \in [Handlers -> OfferCalls]
  BY DEF OfferServes
<1>2. call'[h] = c /\ \A g \in Handlers : g # h => call'[g] = call[g]
  BY <1>1
<1>3. call' \in [Handlers -> OfferCalls]
  BY <1>1
<1>4. ASSUME NEW g \in Handlers PROVE OfferHolds(call[g])'
  <2>1. PICK b \in OfferCalls : b = call'[g]
    BY <1>3
  <2>2. CASE g = h
    <3>1. b = c
      BY <1>2, <2>1, <2>2
    <3>2. OfferHolds(b)'
      BY <3>1
    <3>. QED
      BY <2>1, <3>2 DEF OfferHolds
  <2>3. CASE g # h
    <3>1. b = call[g] /\ OfferHolds(b)
      BY <1>2, <2>1, <2>3 DEF OfferServes
    <3>2. b.at = "storePlan" /\ ~planRaces' => GetActivePlans' \subseteq GetActivePlans
      BY <2>3, <3>1 DEF AboutPlans
    <3>3. OfferHolds(b)'
      BY <3>1, <3>2, OfferStillHolds DEF OfferRows
    <3>. QED
      BY <2>1, <3>3 DEF OfferHolds
  <2>. QED
    BY <2>2, <2>3
<1>5. ASSUME ~planRaces', NEW f \in Handlers, NEW g \in Handlers, AboutPlans(f)', AboutPlans(g)'
      PROVE  f = g
  <2>1. ~planRaces
    BY <1>5 DEF OffersGrow
  <2>2. CASE f # h /\ g # h
    BY <1>2, <1>5, <2>1, <2>2 DEF AboutPlans, OfferServes
  <2>3. CASE f = h \/ g = h
    BY <1>2, <1>5, <2>3 DEF AboutPlans
  <2>. QED
    BY <2>2, <2>3
<1>. QED
  BY <1>3, <1>4, <1>5 DEF OfferServes

\* No handler moves.
LEMMA OfferStays ==
    ASSUME OfferRows, OfferServes, OffersGrow, UNCHANGED <<call, planRaces>>,
           GetActivePlans' \subseteq GetActivePlans
    PROVE  OfferServes'
<1>1. ASSUME NEW g \in Handlers PROVE OfferHolds(call[g])'
  <2>1. PICK b \in OfferCalls : b = call[g] /\ b = call'[g] /\ OfferHolds(b)
    BY DEF OfferServes
  <2>2. OfferHolds(b)'
    BY <2>1, OfferStillHolds DEF OfferRows
  <2>. QED
    BY <2>1, <2>2 DEF OfferHolds
<1>2. ~planRaces' => \A g, h \in Handlers : AboutPlans(g)' /\ AboutPlans(h)' => g = h
  BY DEF OfferServes, AboutPlans
<1>. QED
  BY <1>1, <1>2 DEF OfferServes

LEMMA IdleOffer == Idle \in OfferCalls /\ OfferHolds(Idle)' /\ Idle.at = "idle"
  BY DEF OfferCalls, OfferHolds, Idle

----------------------------------------------------------------------------
(* The offers: plans *)

LEMMA OffersBegin ==
    ASSUME OfferInit, ServiceInit
    PROVE  OfferRows /\ OfferServes
<1>1. OfferTypes
  BY DEF OfferInit, OfferTypes
<1>2. GetActivePlans = {}
  BY DEF OfferInit, GetActivePlans, Planned
<1>3. \A c \in Coupons : IsFiniteSet(uses[c]) /\ uses[c] = {}
  BY FS_EmptySet DEF OfferInit
<1>4. bounded = {} /\ erased = {}
  BY DEF OfferInit
<1>5. OfferRows
  BY <1>1, <1>2, <1>3, <1>4 DEF OfferRows
<1>6. \A h \in Handlers : call[h] = Idle
  BY DEF ServiceInit
<1>7. call \in [Handlers -> OfferCalls]
  BY DEF ServiceInit, OfferCalls
<1>8. OfferServes
  BY <1>6, <1>7 DEF OfferServes, OfferHolds, AboutPlans, Idle
<1>. QED
  BY <1>5, <1>8

\* A request about plans starts.
LEMMA BeginPlanIsSound ==
    ASSUME OfferRows, OfferServes, NEW h \in Handlers, NEW c \in FindPlanCall,
           call' = [call EXCEPT ![h] = c], planRaces' = PlanRace, UNCHANGED <<plans, couponVars>>
    PROVE  OfferRows' /\ OfferServes'
<1>1. c \in OfferCalls /\ c.at = "findPlan"
  BY DEF OfferCalls, FindPlanCall
<1>2. planRaces' <=> planRaces \/ \E g \in Handlers : AboutPlans(g)
  BY OfferCallShape DEF PlanRace, OfferServes, AboutPlans
<1>3. planRaces' \in BOOLEAN
  BY Zenon DEF PlanRace, OfferRows, OfferTypes
<1>4. OfferTypes' /\ OffersGrow /\ GetActivePlans' = GetActivePlans
  BY <1>2, <1>3 DEF OfferRows, OfferTypes, OffersGrow, couponVars, GetActivePlans, Planned
<1>5. OfferRows'
  BY <1>2, <1>4 DEF OfferRows, couponVars, Offered, CountedWithin
<1>6. OfferHolds(c)'
  BY <1>1 DEF OfferHolds
<1>. QED
  BY <1>1, <1>2, <1>4, <1>5, <1>6, OfferMoves

LEMMA BeginCreatePlanIsSound ==
    ASSUME OfferRows, OfferServes, NEW h \in Handlers, NEW p \in PlanIds, NEW amount \in Amounts,
           BeginCreatePlan(h, p, amount)
    PROVE  OfferRows' /\ OfferServes'
<1>1. PICK c \in FindPlanCall : c = [at |-> "findPlan", plan |-> p, amount |-> amount]
  BY DEF FindPlanCall
<1>. QED
  BY <1>1, BeginPlanIsSound DEF BeginCreatePlan, Begin

LEMMA BeginActivatePlanIsSound ==
    ASSUME OfferRows, OfferServes, NEW h \in Handlers, NEW p \in PlanIds, BeginActivatePlan(h, p)
    PROVE  OfferRows' /\ OfferServes'
<1>1. plans[p] \in Plan
  BY DEF BeginActivatePlan, Planned, OfferRows, OfferTypes
<1>2. plans[p].amount \in Amounts
  BY <1>1, PlanShape
<1>3. PICK c \in FindPlanCall : c = [at |-> "findPlan", plan |-> p, amount |-> plans[p].amount]
  BY <1>2 DEF FindPlanCall
<1>. QED
  BY <1>3, BeginPlanIsSound DEF BeginActivatePlan, Begin

\* A step about plans leaves the coupons as they are.
LEMMA PlanRowsKept ==
    ASSUME OfferRows, UNCHANGED <<planRaces, couponVars>>,
           plans' \in [PlanIds -> Plan \cup {None}],
           ~planRaces => \A p, q \in GetActivePlans' : p = q
    PROVE  OfferRows' /\ OffersGrow
<1>1. OfferTypes'
  BY DEF OfferRows, OfferTypes, couponVars
<1>2. OffersGrow
  BY DEF OfferRows, OfferTypes, OffersGrow, couponVars
<1>3. OfferRows'
  BY <1>1 DEF OfferRows, couponVars, Offered, CountedWithin
<1>. QED
  BY <1>2, <1>3

LEMMA FindActivePlanIsSound ==
    ASSUME OfferRows, OfferServes, NEW h \in Handlers, FindActivePlan(h)
    PROVE  OfferRows' /\ OfferServes'
<1>1. PICK b \in OfferCalls : b = call[h]
  BY DEF OfferServes
<1>2. b \in FindPlanCall /\ AboutPlans(h)
  BY <1>1, OfferCallShape DEF FindActivePlan, AboutPlans
<1>3. PICK old \in IF GetActivePlans = {} THEN {Never} ELSE GetActivePlans :
          call' = [call EXCEPT ![h] = [at |-> "storePlan", plan |-> b.plan, amount |-> b.amount, old |-> old]]
  BY <1>1 DEF FindActivePlan, Then
<1>4. PICK c : c = [at |-> "storePlan", plan |-> b.plan, amount |-> b.amount, old |-> old]
  OBVIOUS
<1>5. old \in PlanIds \cup {Never}
  BY <1>3 DEF GetActivePlans
<1>6. c \in OfferCalls /\ c.at = "storePlan" /\ c.old = old
  BY <1>2, <1>4, <1>5 DEF OfferCalls, StorePlanCall, FindPlanCall
<1>7. UNCHANGED offerVars
  BY DEF FindActivePlan
<1>8. GetActivePlans' = GetActivePlans
  BY <1>7 DEF offerVars, planVars, GetActivePlans, Planned
<1>9. OfferRows' /\ OffersGrow
  BY <1>7, <1>8, PlanRowsKept DEF offerVars, planVars, OfferRows, OfferTypes
<1>10. ~planRaces => GetActivePlans \subseteq {old}
  BY <1>3 DEF OfferRows
<1>11. OfferHolds(c)'
  BY <1>6, <1>7, <1>8, <1>10 DEF OfferHolds, offerVars, planVars
<1>12. ~planRaces' => \A g \in Handlers : g # h => ~AboutPlans(g)
  BY <1>2, <1>7 DEF OfferServes, offerVars, planVars
<1>. QED
  BY <1>3, <1>4, <1>6, <1>8, <1>9, <1>11, <1>12, OfferMoves

LEMMA StorePlanIsSound ==
    ASSUME OfferRows, OfferServes, NEW h \in Handlers, StorePlan(h)
    PROVE  OfferRows' /\ OfferServes'
<1>1. PICK b \in OfferCalls : b = call[h] /\ OfferHolds(b)
  BY DEF OfferServes
<1>2. b \in StorePlanCall /\ AboutPlans(h) /\ b.at = "storePlan"
  BY <1>1, OfferCallShape DEF StorePlan, AboutPlans
<1>3. PICK new : new = [amount |-> b.amount, active |-> TRUE]
  OBVIOUS
<1>4. new \in Plan
  BY <1>2, <1>3 DEF Plan, StorePlanCall
<1>5. /\ call' = [call EXCEPT ![h] = Idle]
      /\ plans' = [p \in PlanIds |->
               IF p = b.plan THEN new
               ELSE IF p = b.old THEN [plans[p] EXCEPT !.active = FALSE]
               ELSE plans[p]]
      /\ UNCHANGED <<planRaces, couponVars>>
  BY <1>1, <1>3 DEF StorePlan, End, Then
<1>6. plans \in [PlanIds -> Plan \cup {None}]
  BY DEF OfferRows, OfferTypes
<1>7. \A p \in PlanIds : [plans[p] EXCEPT !.active = FALSE] \in Plan \cup {None}
  BY <1>6, PlanShape
<1>8. plans' \in [PlanIds -> Plan \cup {None}]
  BY <1>4, <1>5, <1>6, <1>7
<1>9. ~planRaces => GetActivePlans' \subseteq {b.plan}
  <2>. SUFFICES ASSUME ~planRaces, NEW p \in GetActivePlans', p # b.plan PROVE FALSE
    OBVIOUS
  <2>1. p \in PlanIds /\ plans'[p] # None /\ plans'[p].active
    BY DEF GetActivePlans, Planned
  <2>2. CASE p = b.old
    <3>1. plans'[p] = [plans[p] EXCEPT !.active = FALSE]
      BY <1>5, <2>1, <2>2
    <3>2. CASE plans[p] = None
      BY <2>1, <3>1, <3>2 DEF None
    <3>3. CASE plans[p] \in Plan
      BY <2>1, <3>1, <3>3, PlanShape
    <3>. QED
      BY <1>6, <2>1, <3>2, <3>3
  <2>3. CASE p # b.old
    <3>1. plans'[p] = plans[p]
      BY <1>5, <2>1, <2>3
    <3>2. p \in GetActivePlans
      BY <2>1, <3>1 DEF GetActivePlans, Planned
    <3>. QED
      BY <1>1, <1>2, <2>3, <3>2 DEF OfferHolds
  <2>. QED
    BY <2>2, <2>3
<1>10. OfferRows' /\ OffersGrow
  BY <1>5, <1>8, <1>9, PlanRowsKept
<1>11. \A g \in Handlers : g # h /\ ~planRaces' => ~AboutPlans(g)
  BY <1>2, <1>5 DEF OfferServes
<1>. QED
  BY <1>5, <1>10, <1>11, IdleOffer, OfferMoves

LEMMA DeactivatePlanIsSound ==
    ASSUME OfferRows, OfferServes, NEW p \in PlanIds, DeactivatePlan(p)
    PROVE  OfferRows' /\ OfferServes'
<1>1. /\ plans' = [plans EXCEPT ![p].active = FALSE]
      /\ UNCHANGED <<call, planRaces, couponVars>>
      /\ plans[p] # None
  BY DEF DeactivatePlan, AskOnce, Planned
<1>2. plans \in [PlanIds -> Plan \cup {None}]
  BY DEF OfferRows, OfferTypes
<1>3. PICK row : row = [plans[p] EXCEPT !.active = FALSE]
  OBVIOUS
<1>4. row \in Plan /\ row.active = FALSE
  BY <1>1, <1>2, <1>3, PlanShape
<1>5. plans' = [plans EXCEPT ![p] = row]
  BY <1>1, <1>3
<1>6. plans' \in [PlanIds -> Plan \cup {None}] /\ plans'[p] = row
      /\ \A q \in PlanIds : q # p => plans'[q] = plans[q]
  BY <1>2, <1>4, <1>5
<1>7. GetActivePlans' \subseteq GetActivePlans
  BY <1>4, <1>6 DEF GetActivePlans, Planned
<1>8. OfferRows' /\ OffersGrow
  BY <1>1, <1>6, <1>7, PlanRowsKept DEF OfferRows
<1>. QED
  BY <1>1, <1>7, <1>8, OfferStays

----------------------------------------------------------------------------
(* The offers: coupons *)

\* One coupon changes, and is counted again.
LEMMA OneCoupon ==
    ASSUME OfferRows, OfferTypes', NEW c \in Coupons,
           UNCHANGED planVars,
           \A d \in Coupons \ {c} :
               /\ coupons'[d] = coupons[d] /\ uses'[d] = uses[d] /\ highest'[d] = highest[d]
               /\ d \in bounded' <=> d \in bounded,
           IsFiniteSet(uses'[c]), coupons'[c] = None => uses'[c] = {},
           c \in bounded' /\ Offered(c)' => CountedWithin(c)',
           coupons[c] # None =>
               coupons'[c] # None /\ (c \in bounded' => c \in bounded) /\ highest[c] <= highest'[c],
           \A e \in erased' : \/ e \in erased
                              \/ e[1] = c /\ coupons'[c] # None /\ (c \in bounded' => ~e[3])
    PROVE  OfferRows' /\ OffersGrow /\ GetActivePlans' = GetActivePlans
<1>1. GetActivePlans' = GetActivePlans
  BY DEF planVars, GetActivePlans, Planned
<1>2. OffersGrow
  <2>1. \A d \in Coupons : highest'[d] \in Nat /\ highest[d] \in Nat
    BY DEF OfferRows, OfferTypes
  <2>2. \A d \in Coupons : coupons[d] # None =>
            /\ coupons'[d] # None
            /\ d \in bounded' => d \in bounded
            /\ highest'[d] \in Nat /\ highest[d] <= highest'[d]
    BY <2>1
  <2>. QED
    BY <2>2 DEF OffersGrow, planVars
<1>3. ~planRaces' => \A p, q \in GetActivePlans' : p = q
  BY <1>1 DEF OfferRows, planVars
<1>4. \A d \in Coupons : IsFiniteSet(uses'[d]) /\ (coupons'[d] = None => uses'[d] = {})
  BY DEF OfferRows
<1>5. ASSUME NEW d \in bounded', Offered(d)' PROVE CountedWithin(d)'
  <2>1. CASE d = c
    BY <1>5, <2>1
  <2>2. CASE d # c
    <3>1. d \in Coupons /\ d \in bounded /\ Offered(d)
      BY <1>5, <2>2 DEF OfferTypes, Offered
    <3>2. CountedWithin(d)
      BY <3>1 DEF OfferRows
    <3>. QED
      BY <2>2, <3>1, <3>2 DEF CountedWithin
  <2>. QED
    BY <2>1, <2>2
<1>6. \A e \in erased' : e[1] \in Coupons /\ coupons'[e[1]] # None /\ (e[1] \in bounded' => ~e[3])
  <2>. SUFFICES ASSUME NEW e \in erased'
       PROVE e[1] \in Coupons /\ coupons'[e[1]] # None /\ (e[1] \in bounded' => ~e[3])
    OBVIOUS
  <2>1. CASE e \in erased
    BY <2>1 DEF OfferRows
  <2>2. CASE e[1] = c /\ coupons'[c] # None /\ (c \in bounded' => ~e[3])
    BY <2>2
  <2>. QED
    BY <2>1, <2>2
<1>7. OfferRows'
  BY <1>3, <1>4, <1>5, <1>6 DEF OfferRows
<1>. QED
  BY <1>1, <1>2, <1>7

LEMMA CreateCouponIsSound ==
    ASSUME OfferRows, OfferServes, NEW c \in Coupons, NEW type \in {"FLAT", "PERCENT", "FREE"},
           NEW value \in Values, NEW limit \in Limits \cup {Unlimited}, NEW perUser \in PerUserLimits,
           NEW expires \in Expiries \cup {Never},
           CreateCoupon(c, type, value, limit, perUser, expires)
    PROVE  OfferRows' /\ OfferServes'
<1>1. PICK row : row = [type |-> type, value |-> value, limit |-> limit, perUser |-> perUser,
                        used |-> 0, expires |-> expires, active |-> TRUE]
  OBVIOUS
<1>2. /\ coupons[c] = None
      /\ coupons' = [coupons EXCEPT ![c] = row]
      /\ bounded' = (IF limit = Unlimited THEN bounded \ {c} ELSE bounded \cup {c})
      /\ highest' = [highest EXCEPT ![c] = IF limit = Unlimited THEN 0 ELSE limit]
      /\ UNCHANGED <<call, planVars, uses, erased>>
  BY <1>1 DEF CreateCoupon, AskOnce
<1>3. expires \in Nat \cup {Never}
  BY ServiceAssumption DEF Expiries
<1>4. row \in Coupon /\ row.used = 0 /\ row.limit = limit
  BY <1>1, <1>3 DEF Coupon
<1>5. /\ coupons \in [Coupons -> Coupon \cup {None, Gone}] /\ highest \in [Coupons -> Nat]
      /\ uses[c] = {}
  BY <1>2 DEF OfferRows, OfferTypes
<1>6. coupons'[c] = row /\ highest'[c] = (IF limit = Unlimited THEN 0 ELSE limit)
      /\ \A d \in Coupons \ {c} : coupons'[d] = coupons[d] /\ highest'[d] = highest[d]
                                  /\ (d \in bounded' <=> d \in bounded)
  BY <1>2, <1>5
<1>7. OfferTypes'
  <2>1. (IF limit = Unlimited THEN 0 ELSE limit) \in Nat
    BY CouponShape
  <2>. QED
    BY <1>2, <1>4, <1>5, <2>1 DEF OfferRows, OfferTypes, planVars
<1>8. c \in bounded' => CountedWithin(c)'
  <2>1. c \in bounded' => limit \in Limits /\ limit \in Nat /\ highest'[c] = limit
    BY <1>2, <1>6, CouponShape
  <2>2. uses'[c] = {} /\ Cardinality({}) = 0
    BY <1>2, <1>5, FS_EmptySet
  <2>. QED
    BY <1>4, <1>6, <2>1, <2>2 DEF CountedWithin
<1>9. OfferRows' /\ OffersGrow /\ GetActivePlans' = GetActivePlans
  <2>1. coupons'[c] # None /\ IsFiniteSet(uses'[c])
    BY <1>2, <1>4, <1>5, <1>6, CouponShape, FS_EmptySet
  <2>. QED
    BY <1>2, <1>6, <1>7, <1>8, <2>1, OneCoupon
<1>. QED
  BY <1>2, <1>9, OfferStays DEF planVars

\* A request about a coupon starts, and no table changes.
LEMMA BeginCouponIsSound ==
    ASSUME OfferRows, OfferServes, NEW h \in Handlers, NEW c \in OfferCalls,
           c.at \notin {"findPlan", "storePlan"}, OfferHolds(c),
           call' = [call EXCEPT ![h] = c], UNCHANGED offerVars
    PROVE  OfferRows' /\ OfferServes'
<1>1. OfferRows' /\ OffersGrow /\ GetActivePlans' = GetActivePlans
  BY PlanRowsKept DEF offerVars, planVars, OfferRows, OfferTypes, GetActivePlans, Planned
<1>2. OfferHolds(c)'
  BY <1>1 DEF OfferHolds, offerVars, planVars, couponVars
<1>. QED
  BY <1>1, <1>2, OfferMoves

LEMMA OfferedIsCoupon ==
    ASSUME OfferTypes, NEW c \in Coupons, Offered(c)
    PROVE  coupons[c] \in Coupon
  BY DEF OfferTypes, Offered

LEMMA BeginUpdateCouponIsSound ==
    ASSUME OfferRows, OfferServes, NEW h \in Handlers, NEW c \in Coupons, NEW change \in CouponChanges,
           BeginUpdateCoupon(h, c, change)
    PROVE  OfferRows' /\ OfferServes'
<1>1. coupons[c] \in Coupon
  BY OfferedIsCoupon DEF BeginUpdateCoupon, OfferRows
<1>2. PICK b : b = [at |-> "coupon", coupon |-> c, change |-> change, row |-> coupons[c]]
  OBVIOUS
<1>3. b \in OfferCalls /\ b.at = "coupon"
  BY <1>1, <1>2 DEF OfferCalls, EditCall
<1>4. OfferHolds(b)
  BY <1>3 DEF OfferHolds
<1>. QED
  BY <1>2, <1>3, <1>4, BeginCouponIsSound DEF BeginUpdateCoupon, Begin

LEMMA BeginDeleteCouponIsSound ==
    ASSUME OfferRows, OfferServes, NEW h \in Handlers, NEW c \in Coupons, BeginDeleteCoupon(h, c)
    PROVE  OfferRows' /\ OfferServes'
<1>1. coupons[c] \in Coupon /\ coupons[c] # None /\ Offered(c)
  BY OfferedIsCoupon DEF BeginDeleteCoupon, OfferRows, Offered
<1>2. PICK b : b = [at |-> IF coupons[c].used > 0 THEN "retire" ELSE "erase", coupon |-> c,
                    known |-> uses[c]]
  OBVIOUS
<1>3. uses[c] \in SUBSET Users /\ IsFiniteSet(uses[c])
  BY DEF OfferRows, OfferTypes
<1>4. b \in OfferCalls /\ b.at \in {"retire", "erase"} /\ b.coupon = c /\ b.known = uses[c]
      /\ (b.at = "erase" => ~(coupons[c].used > 0))
  BY <1>2, <1>3 DEF OfferCalls, EraseCall
<1>5. b.at = "erase" /\ c \in bounded => uses[c] = {}
  <2>1. coupons[c].used \in Nat
    BY <1>1, CouponShape
  <2>2. c \in bounded => coupons[c].used = Cardinality(uses[c])
    BY <1>1 DEF OfferRows, CountedWithin
  <2>. QED
    BY <1>3, <1>4, <2>1, <2>2, FS_EmptySet
<1>6. OfferHolds(b)
  BY <1>1, <1>4, <1>5 DEF OfferHolds
<1>. QED
  BY <1>2, <1>4, <1>6, BeginCouponIsSound DEF BeginDeleteCoupon, Begin

LEMMA BeginRedeemIsSound ==
    ASSUME OfferRows, OfferServes, NEW h \in Handlers, NEW c \in Coupons, NEW u \in Users,
           BeginRedeem(h, c, u)
    PROVE  OfferRows' /\ OfferServes'
<1>1. coupons[c] \in Coupon /\ coupons[c] # None /\ Offered(c)
  BY OfferedIsCoupon DEF BeginRedeem, Usable, OfferRows, Offered
<1>2. PICK b : b = [at |-> "redeem", coupon |-> c, user |-> u, row |-> coupons[c]]
  OBVIOUS
<1>3. b \in OfferCalls /\ b.at = "redeem" /\ b.coupon = c /\ b.row = coupons[c]
  BY <1>1, <1>2 DEF OfferCalls, RedeemCall
<1>4. OfferHolds(b)
  BY <1>1, <1>3 DEF OfferHolds, OfferRows, CountedWithin
<1>. QED
  BY <1>2, <1>3, <1>4, BeginCouponIsSound DEF BeginRedeem, Begin

\* The edited row: a coupon, with the count it had.
LEMMA EditedTyped ==
    ASSUME NEW row \in Coupon, NEW change \in CouponChanges, NEW new,
           new = [f \in DOMAIN row |-> IF f \in DOMAIN change THEN change[f] ELSE row[f]]
    PROVE  /\ new \in Coupon
           /\ new.used = row.used
           /\ new.limit = IF "limit" \in DOMAIN change THEN change.limit ELSE row.limit
           /\ "limit" \in DOMAIN change => change.limit \in Limits \cup {Unlimited}
<1>1. DOMAIN row = {"type", "value", "limit", "perUser", "used", "expires", "active"}
  BY DEF Coupon
<1>2. /\ DOMAIN change \in {{"active"}, {"expires"}, {"limit"}}
      /\ "active" \in DOMAIN change => change["active"] \in BOOLEAN
      /\ "expires" \in DOMAIN change => change["expires"] \in Nat \cup {Never}
      /\ "limit" \in DOMAIN change => change["limit"] \in Limits \cup {Unlimited}
  <2>1. CASE change \in [active : BOOLEAN]
    BY <2>1
  <2>2. CASE change \in [expires : Expiries \cup {Never}]
    BY <2>2, ServiceAssumption DEF Expiries
  <2>3. CASE change \in [limit : Limits \cup {Unlimited}]
    BY <2>3
  <2>. QED
    BY <2>1, <2>2, <2>3 DEF CouponChanges
<1>3. /\ row["type"] \in {"FLAT", "PERCENT", "FREE"} /\ row["value"] \in Values
      /\ row["limit"] \in Limits \cup {Unlimited} /\ row["perUser"] \in PerUserLimits
      /\ row["used"] \in Nat /\ row["expires"] \in Nat \cup {Never} /\ row["active"] \in BOOLEAN
  BY DEF Coupon
<1>4. new = [f \in {"type", "value", "limit", "perUser", "used", "expires", "active"} |->
                IF f \in DOMAIN change THEN change[f] ELSE row[f]]
  BY <1>1
<1>5. /\ new["type"] = row["type"] /\ new["value"] = row["value"] /\ new["perUser"] = row["perUser"]
      /\ new["used"] = row["used"]
      /\ new["limit"] = IF "limit" \in DOMAIN change THEN change["limit"] ELSE row["limit"]
      /\ new["expires"] \in Nat \cup {Never}
      /\ new["active"] \in BOOLEAN
  BY <1>2, <1>3, <1>4
<1>6. new["limit"] \in Limits \cup {Unlimited}
  BY <1>2, <1>3, <1>5
<1>7. new = [type |-> new["type"], value |-> new["value"], limit |-> new["limit"],
             perUser |-> new["perUser"], used |-> new["used"], expires |-> new["expires"],
             active |-> new["active"]]
  BY <1>4
<1>8. new \in Coupon
  BY <1>3, <1>5, <1>6, <1>7 DEF Coupon
<1>. QED
  BY <1>2, <1>5, <1>8

LEMMA UpdateCouponIsSound ==
    ASSUME OfferRows, OfferServes, NEW h \in Handlers, UpdateCoupon(h)
    PROVE  OfferRows' /\ OfferServes'
<1>1. PICK b \in OfferCalls : b = call[h]
  BY DEF OfferServes
<1>2. b \in EditCall
  BY <1>1, OfferCallShape DEF UpdateCoupon
<1>3. PICK c, change, new : /\ c = b.coupon /\ change = b.change
                            /\ new = [f \in DOMAIN coupons[c] |->
                                         IF f \in DOMAIN change THEN change[f] ELSE coupons[c][f]]
  OBVIOUS
<1>4. c \in Coupons /\ change \in CouponChanges
  BY <1>2, <1>3 DEF EditCall
<1>5. PICK top : top = IF "limit" \in DOMAIN change /\ change.limit \in Nat /\ change.limit > highest[c]
                       THEN change.limit ELSE highest[c]
  OBVIOUS
<1>6. /\ call' = [call EXCEPT ![h] = Idle]
      /\ UNCHANGED <<planVars, uses, erased>>
      /\ \/ /\ Offered(c)
            /\ coupons' = [coupons EXCEPT ![c] = new]
            /\ highest' = [highest EXCEPT ![c] = top]
            /\ bounded' = IF "limit" \in DOMAIN change /\ change.limit = Unlimited
                          THEN bounded \ {c} ELSE bounded
         \/ UNCHANGED <<coupons, highest, bounded>>
  BY <1>1, <1>3, <1>4, <1>5 DEF UpdateCoupon, End, Then, OfferRows, OfferTypes
<1>7. CASE UNCHANGED <<coupons, highest, bounded>>
  <2>1. OfferRows' /\ OffersGrow /\ GetActivePlans' = GetActivePlans
    BY <1>6, <1>7, PlanRowsKept DEF planVars, couponVars, OfferRows, OfferTypes, GetActivePlans, Planned
  <2>. QED
    BY <1>6, <2>1, IdleOffer, OfferMoves
<1>8. CASE /\ Offered(c)
           /\ coupons' = [coupons EXCEPT ![c] = new]
           /\ highest' = [highest EXCEPT ![c] = top]
           /\ bounded' = IF "limit" \in DOMAIN change /\ change.limit = Unlimited
                         THEN bounded \ {c} ELSE bounded
  <2>1. coupons[c] \in Coupon /\ coupons[c] # None
    BY <1>4, <1>8, OfferedIsCoupon DEF OfferRows, Offered
  <2>2. /\ new \in Coupon /\ new.used = coupons[c].used
        /\ new.limit = IF "limit" \in DOMAIN change THEN change.limit ELSE coupons[c].limit
        /\ "limit" \in DOMAIN change => change.limit \in Limits \cup {Unlimited}
    BY <1>3, <1>4, <2>1, EditedTyped
  <2>3. /\ coupons \in [Coupons -> Coupon \cup {None, Gone}] /\ highest \in [Coupons -> Nat]
        /\ highest[c] \in Nat
    BY <1>4 DEF OfferRows, OfferTypes
  <2>4. top \in Nat /\ highest[c] <= top
        /\ ("limit" \in DOMAIN change /\ change.limit \in Nat => change.limit <= top)
    BY <1>5, <2>3
  <2>5. /\ coupons'[c] = new /\ highest'[c] = top
        /\ \A d \in Coupons \ {c} : /\ coupons'[d] = coupons[d] /\ highest'[d] = highest[d]
                                    /\ uses'[d] = uses[d]
                                    /\ (d \in bounded' <=> d \in bounded)
        /\ bounded' \subseteq bounded
    BY <1>4, <1>6, <1>8, <2>3
  <2>6. OfferTypes'
    BY <1>6, <1>8, <2>2, <2>3, <2>4, <2>5 DEF OfferRows, OfferTypes, planVars
  <2>7. c \in bounded' => CountedWithin(c)'
    <3>. SUFFICES ASSUME c \in bounded' PROVE CountedWithin(c)'
      OBVIOUS
    <3>1. CountedWithin(c) /\ ~("limit" \in DOMAIN change /\ change.limit = Unlimited)
      BY <1>8, <2>5 DEF OfferRows
    <3>2. new.used = Cardinality(uses'[c]) /\ new.used \in Nat /\ new.used <= top
      BY <1>6, <2>1, <2>2, <2>3, <2>4, <3>1, CouponShape DEF CountedWithin
    <3>3. new.limit \in Limits /\ new.limit <= top
      <4>1. CASE "limit" \in DOMAIN change
        <5>1. new.limit = change.limit /\ change.limit \in Limits /\ change.limit \in Nat
          BY <2>2, <3>1, <4>1, CouponShape
        <5>. QED
          BY <2>4, <4>1, <5>1
      <4>2. CASE "limit" \notin DOMAIN change
        <5>1. new.limit = coupons[c].limit /\ coupons[c].limit \in Limits
              /\ coupons[c].limit <= highest[c]
          BY <2>2, <3>1, <4>2 DEF CountedWithin
        <5>2. new.limit \in Nat
          BY <5>1, CouponShape
        <5>3. new.limit <= highest[c]
          BY <5>1
        <5>4. new.limit <= top
          BY <2>3, <2>4, <5>2, <5>3
        <5>. QED
          BY <5>1, <5>4
      <4>. QED
        BY <4>1, <4>2
    <3>. QED
      BY <2>5, <3>2, <3>3 DEF CountedWithin
  <2>8. OfferRows' /\ OffersGrow /\ GetActivePlans' = GetActivePlans
    <3>1. coupons'[c] # None /\ IsFiniteSet(uses'[c])
      BY <1>4, <1>6, <2>2, <2>5, CouponShape DEF OfferRows
    <3>. QED
      BY <1>4, <1>6, <2>4, <2>5, <2>6, <2>7, <3>1, OneCoupon
  <2>. QED
    BY <1>6, <2>8, IdleOffer, OfferMoves
<1>. QED
  BY <1>6, <1>7, <1>8

LEMMA DeleteCouponIsSound ==
    ASSUME OfferRows, OfferServes, NEW h \in Handlers, DeleteCoupon(h)
    PROVE  OfferRows' /\ OfferServes'
<1>1. PICK b \in OfferCalls : b = call[h] /\ OfferHolds(b)
  BY DEF OfferServes
<1>2. b \in EraseCall
  BY <1>1, OfferCallShape DEF DeleteCoupon
<1>3. PICK c : c = b.coupon
  OBVIOUS
<1>4. c \in Coupons
  BY <1>2, <1>3 DEF EraseCall
<1>5. /\ call' = [call EXCEPT ![h] = Idle]
      /\ UNCHANGED <<planVars, bounded, highest>>
      /\ \/ /\ coupons' = IF Offered(c) THEN [coupons EXCEPT ![c].active = FALSE] ELSE coupons
            /\ UNCHANGED <<uses, erased>>
         \/ /\ b.at = "erase"
            /\ coupons' = [coupons EXCEPT ![c] = Gone]
            /\ uses' = [uses EXCEPT ![c] = {}]
            /\ erased' = erased \cup {<<c, u, u \in b.known>> : u \in uses[c]}
  BY <1>1, <1>3 DEF DeleteCoupon, End, Then
<1>6. /\ coupons \in [Coupons -> Coupon \cup {None, Gone}] /\ uses \in [Coupons -> SUBSET Users]
      /\ highest[c] \in Nat
  BY <1>4 DEF OfferRows, OfferTypes
<1>7. CASE /\ coupons' = IF Offered(c) THEN [coupons EXCEPT ![c].active = FALSE] ELSE coupons
           /\ UNCHANGED <<uses, erased>>
  <2>1. CASE ~Offered(c)
    <3>1. OfferRows' /\ OffersGrow /\ GetActivePlans' = GetActivePlans
      BY <1>5, <1>7, <2>1, PlanRowsKept
         DEF planVars, couponVars, OfferRows, OfferTypes, GetActivePlans, Planned
    <3>. QED
      BY <1>5, <3>1, IdleOffer, OfferMoves
  <2>2. CASE Offered(c)
    <3>1. PICK new : new = [coupons[c] EXCEPT !.active = FALSE]
      OBVIOUS
    <3>2. coupons[c] \in Coupon /\ coupons[c] # None
      BY <1>4, <2>2, OfferedIsCoupon DEF OfferRows, Offered
    <3>3. new \in Coupon /\ new.used = coupons[c].used /\ new.limit = coupons[c].limit
      BY <3>1, <3>2 DEF Coupon
    <3>4. coupons' = [coupons EXCEPT ![c] = new]
      BY <1>7, <2>2, <3>1
    <3>5. coupons'[c] = new /\ \A d \in Coupons \ {c} : coupons'[d] = coupons[d]
      BY <1>4, <1>6, <3>4
    <3>6. OfferTypes'
      BY <1>5, <1>6, <1>7, <3>3, <3>4 DEF OfferRows, OfferTypes, planVars
    <3>7. c \in bounded' => CountedWithin(c)'
      BY <1>5, <1>7, <2>2, <3>3, <3>5 DEF OfferRows, CountedWithin
    <3>8. coupons'[c] # None /\ IsFiniteSet(uses'[c])
      BY <1>4, <1>7, <3>3, <3>5, CouponShape DEF OfferRows
    <3>9. OfferRows' /\ OffersGrow /\ GetActivePlans' = GetActivePlans
      BY <1>4, <1>5, <1>6, <1>7, <3>5, <3>6, <3>7, <3>8, OneCoupon
    <3>. QED
      BY <1>5, <3>9, IdleOffer, OfferMoves
  <2>. QED
    BY <2>1, <2>2
<1>8. CASE /\ b.at = "erase"
           /\ coupons' = [coupons EXCEPT ![c] = Gone]
           /\ uses' = [uses EXCEPT ![c] = {}]
           /\ erased' = erased \cup {<<c, u, u \in b.known>> : u \in uses[c]}
  <2>1. coupons'[c] = Gone /\ uses'[c] = {} /\ coupons'[c] # None /\ IsFiniteSet(uses'[c])
    BY <1>4, <1>6, <1>8, CouponShape, FS_EmptySet
  <2>2. \A d \in Coupons \ {c} : coupons'[d] = coupons[d] /\ uses'[d] = uses[d]
    BY <1>6, <1>8
  <2>3. OfferTypes'
    BY <1>5, <1>6, <1>8 DEF OfferRows, OfferTypes, planVars
  <2>4. ~Offered(c)'
    BY <2>1 DEF Offered
  <2>5. c \in bounded => b.known = {}
    BY <1>1, <1>3, <1>8 DEF OfferHolds
  <2>6. \A e \in erased' : \/ e \in erased
                           \/ e[1] = c /\ coupons'[c] # None /\ (c \in bounded' => ~e[3])
    <3>. SUFFICES ASSUME NEW e \in erased', e \notin erased
         PROVE e[1] = c /\ coupons'[c] # None /\ (c \in bounded' => ~e[3])
      OBVIOUS
    <3>1. PICK u \in uses[c] : e = <<c, u, u \in b.known>>
      BY <1>8
    <3>2. e[1] = c /\ (e[3] <=> u \in b.known)
      BY <3>1
    <3>. QED
      BY <1>5, <2>1, <2>5, <3>2
  <2>7. OfferRows' /\ OffersGrow /\ GetActivePlans' = GetActivePlans
    BY <1>4, <1>5, <1>6, <2>1, <2>2, <2>3, <2>4, <2>6, OneCoupon
  <2>. QED
    BY <1>5, <2>7, IdleOffer, OfferMoves
<1>. QED
  BY <1>5, <1>7, <1>8

LEMMA RedeemCouponIsSound ==
    ASSUME OfferRows, OfferServes, NEW h \in Handlers, RedeemCoupon(h)
    PROVE  OfferRows' /\ OfferServes'
<1>1. PICK b \in OfferCalls : b = call[h] /\ OfferHolds(b)
  BY DEF OfferServes
<1>2. b \in RedeemCall /\ b.at = "redeem"
  BY <1>1, OfferCallShape DEF RedeemCoupon
<1>3. PICK c, u, row : c = b.coupon /\ u = b.user /\ row = b.row
  OBVIOUS
<1>4. c \in Coupons /\ u \in Users /\ row \in Coupon /\ coupons[c] # None
      /\ (c \in bounded => row.limit \in Limits /\ row.limit <= highest[c])
  BY <1>1, <1>2, <1>3 DEF RedeemCall, OfferHolds
<1>5. /\ call' = [call EXCEPT ![h] = Idle]
      /\ UNCHANGED <<planVars, bounded, highest, erased>>
      /\ \/ /\ MayRedeem(row, c, u)
            /\ uses' = [uses EXCEPT ![c] = @ \cup {u}]
            /\ coupons' = IF row.limit = Unlimited THEN coupons
                          ELSE [coupons EXCEPT ![c].used = @ + 1]
         \/ UNCHANGED <<uses, coupons>>
  BY <1>1, <1>3 DEF RedeemCoupon, End, Then
<1>6. /\ coupons \in [Coupons -> Coupon \cup {None, Gone}] /\ uses \in [Coupons -> SUBSET Users]
      /\ highest[c] \in Nat /\ IsFiniteSet(uses[c])
  BY <1>4 DEF OfferRows, OfferTypes
<1>7. CASE UNCHANGED <<uses, coupons>>
  <2>1. OfferRows' /\ OffersGrow /\ GetActivePlans' = GetActivePlans
    BY <1>5, <1>7, PlanRowsKept
       DEF planVars, couponVars, OfferRows, OfferTypes, GetActivePlans, Planned
  <2>. QED
    BY <1>5, <2>1, IdleOffer, OfferMoves
<1>8. CASE /\ MayRedeem(row, c, u)
           /\ uses' = [uses EXCEPT ![c] = @ \cup {u}]
           /\ coupons' = IF row.limit = Unlimited THEN coupons
                         ELSE [coupons EXCEPT ![c].used = @ + 1]
  <2>1. Offered(c) /\ u \notin uses[c] /\ (row.limit # Unlimited => coupons[c].used < row.limit)
    BY <1>8 DEF MayRedeem
  <2>2. coupons[c] \in Coupon /\ coupons[c].used \in Nat
    BY <1>4, <2>1, OfferedIsCoupon, CouponShape DEF OfferRows
  <2>3. PICK new : new = IF row.limit = Unlimited THEN coupons[c]
                         ELSE [coupons[c] EXCEPT !.used = @ + 1]
    OBVIOUS
  <2>4. new \in Coupon /\ new.limit = coupons[c].limit
        /\ new.used = IF row.limit = Unlimited THEN coupons[c].used ELSE coupons[c].used + 1
    <3>1. [coupons[c] EXCEPT !.used = coupons[c].used + 1] \in Coupon
      BY <2>2 DEF Coupon
    <3>2. [coupons[c] EXCEPT !.used = coupons[c].used + 1].limit = coupons[c].limit
          /\ [coupons[c] EXCEPT !.used = coupons[c].used + 1].used = coupons[c].used + 1
      BY <2>2 DEF Coupon
    <3>. QED
      BY <2>2, <2>3, <3>1, <3>2
  <2>5. coupons' = [coupons EXCEPT ![c] = new]
    BY <1>4, <1>6, <1>8, <2>3
  <2>6. /\ coupons'[c] = new /\ uses'[c] = uses[c] \cup {u}
        /\ \A d \in Coupons \ {c} : coupons'[d] = coupons[d] /\ uses'[d] = uses[d]
    BY <1>4, <1>6, <1>8, <2>5
  <2>7. OfferTypes'
    BY <1>4, <1>5, <1>6, <1>8, <2>4, <2>5 DEF OfferRows, OfferTypes, planVars
  <2>8. IsFiniteSet(uses'[c]) /\ Cardinality(uses'[c]) = Cardinality(uses[c]) + 1
    BY <1>6, <2>1, <2>6, FS_AddElement
  <2>9. c \in bounded' => CountedWithin(c)'
    <3>. SUFFICES ASSUME c \in bounded PROVE CountedWithin(c)'
      BY <1>5
    <3>1. CountedWithin(c)
      BY <2>1 DEF OfferRows
    <3>2. row.limit # Unlimited /\ row.limit \in Nat /\ row.limit <= highest[c]
      BY <1>4, CouponShape
    <3>3. new.used = coupons[c].used + 1 /\ new.used <= highest[c]
      BY <1>6, <2>1, <2>2, <2>4, <3>2
    <3>. QED
      BY <1>5, <2>4, <2>6, <2>8, <3>1, <3>3 DEF CountedWithin
  <2>10. OfferRows' /\ OffersGrow /\ GetActivePlans' = GetActivePlans
    <3>1. coupons'[c] # None
      BY <2>4, <2>6, CouponShape
    <3>2. \A d \in Coupons \ {c} :
              /\ coupons'[d] = coupons[d] /\ uses'[d] = uses[d] /\ highest'[d] = highest[d]
              /\ d \in bounded' <=> d \in bounded
      BY <1>5, <2>6
    <3>3. (c \in bounded' => c \in bounded) /\ highest[c] <= highest'[c]
      BY <1>5, <1>6
    <3>4. \A e \in erased' : e \in erased
      BY <1>5
    <3>. QED
      BY <1>4, <1>5, <2>7, <2>8, <2>9, <3>1, <3>2, <3>3, <3>4, OneCoupon
  <2>. QED
    BY <1>5, <2>10, IdleOffer, OfferMoves
<1>. QED
  BY <1>5, <1>7, <1>8

LEMMA OfferStep ==
    ASSUME OfferRows, OfferServes, OfferNext
    PROVE  OfferRows' /\ OfferServes'
<1>1. CASE \E h \in Handlers : PlanRoutes(h)
  BY <1>1, BeginCreatePlanIsSound, BeginActivatePlanIsSound, DeactivatePlanIsSound DEF PlanRoutes
<1>2. CASE \E h \in Handlers : CouponRoutes(h)
  BY <1>2, CreateCouponIsSound, BeginUpdateCouponIsSound, BeginDeleteCouponIsSound DEF CouponRoutes
<1>3. CASE \E h \in Handlers : FindActivePlan(h) \/ StorePlan(h) \/ UpdateCoupon(h) \/ DeleteCoupon(h)
  BY <1>3, FindActivePlanIsSound, StorePlanIsSound, UpdateCouponIsSound, DeleteCouponIsSound
<1>4. CASE \E h \in Handlers : \/ \E c \in Coupons, u \in Users : BeginRedeem(h, c, u)
                               \/ RedeemCoupon(h)
  BY <1>4, BeginRedeemIsSound, RedeemCouponIsSound
<1>. QED
  BY <1>1, <1>2, <1>3, <1>4 DEF OfferNext

LEMMA OffersStay ==
    ASSUME OfferRows, UNCHANGED offerVars
    PROVE  OfferRows' /\ (OfferServes /\ call' = call => OfferServes')
<1>1. OfferRows' /\ OffersGrow /\ GetActivePlans' = GetActivePlans
  BY PlanRowsKept DEF offerVars, planVars, OfferRows, OfferTypes, GetActivePlans, Planned
<1>. QED
  BY <1>1, OfferStays DEF offerVars, planVars

LEMMA OffersRestart ==
    ASSUME call' = [h \in Handlers |-> Idle]
    PROVE  OfferServes'
<1>1. \A h \in Handlers : call'[h] = Idle
  OBVIOUS
<1>2. call' \in [Handlers -> OfferCalls]
  BY IdleOffer
<1>3. \A h \in Handlers : OfferHolds(call[h])' /\ ~AboutPlans(h)'
  BY <1>1 DEF OfferHolds, AboutPlans, Idle
<1>. QED
  BY <1>2, <1>3 DEF OfferServes

\* One plan; coupons counted; what was known is kept.
LEMMA OffersHold ==
    ASSUME OfferRows
    PROVE  OneActivePlan /\ UsesCounted /\ KnownUsesKept
<1>1. OneActivePlan
  BY AtMostOne DEF OfferRows, OneActivePlan
<1>2. UsesCounted
  BY DEF OfferRows, UsesCounted, CountedWithin
<1>3. KnownUsesKept
  BY DEF OfferRows, KnownUsesKept
<1>. QED
  BY <1>1, <1>2, <1>3

LEMMA PreviewHolds ==
    ASSUME OfferRows
    PROVE  PreviewKeepsItsWord
<1>. SUFFICES ASSUME NEW c \in Coupons, NEW u \in Users, Offered(c), coupons[c].perUser = 1
              PROVE  ValidateCoupon(c, u) <=> Usable(c) /\ MayRedeem(coupons[c], c, u)
  BY DEF PreviewKeepsItsWord
<1>1. (IF u \in uses[c] THEN 1 ELSE 0) < coupons[c].perUser <=> u \notin uses[c]
  OBVIOUS
<1>. QED
  BY <1>1 DEF ValidateCoupon, Usable, MayRedeem

----------------------------------------------------------------------------
(* The reports: sums and periods *)

\* The sizes of the parts of a finite set add up to its size.
LEMMA TotalByKey ==
    ASSUME NEW S, IsFiniteSet(S), NEW X, NEW key \in [S -> X],
           NEW counts, DOMAIN counts = X,
           \A x \in X : counts[x] = Cardinality({s \in S : key[s] = x})
    PROVE  Total(counts) = Cardinality(S)
<1>. DEFINE Part(x) == {s \in S : key[s] = x}
            b == [x \in X |-> CHOOSE f : f \in Bijection(1..Cardinality(Part(x)), Part(x))]
            U == UNION {{x} \X (1..counts[x]) : x \in X}
            F == [p \in U |-> b[p[1]][p[2]]]
<1>1. ASSUME NEW x \in X
      PROVE  /\ counts[x] = Cardinality(Part(x))
             /\ b[x] \in Bijection(1..counts[x], Part(x))
             /\ b[x] \in [1..counts[x] -> Part(x)]
             /\ \A i, j \in 1..counts[x] : b[x][i] = b[x][j] => i = j
             /\ \A s \in Part(x) : \E i \in 1..counts[x] : b[x][i] = s
  <2>1. IsFiniteSet(Part(x))
    BY FS_Subset
  <2>2. counts[x] = Cardinality(Part(x))
    OBVIOUS
  <2>3. \E f : f \in Bijection(1..Cardinality(Part(x)), Part(x))
    BY <2>1, FS_CardinalityType, Fun_ExistsBij
  <2>4. b[x] \in Bijection(1..Cardinality(Part(x)), Part(x))
    BY <2>3
  <2>. HIDE DEF b, Part
  <2>5. b[x] \in Bijection(1..counts[x], Part(x))
    BY <2>2, <2>4
  <2>6. PICK f, n, T : f = b[x] /\ n = 1..counts[x] /\ T = Part(x)
    OBVIOUS
  <2>7. f \in Bijection(n, T)
    BY <2>5, <2>6
  <2>8. f \in [n -> T] /\ (\A i, j \in n : f[i] = f[j] => i = j) /\ \A s \in T : \E i \in n : f[i] = s
    BY <2>7, Fun_BijectionProperties
  <2>. QED
    BY <2>2, <2>5, <2>6, <2>8
<1>2. \A p \in U : \E x \in X : \E i \in 1..counts[x] : p = <<x, i>> /\ p[1] = x /\ p[2] = i
  OBVIOUS
<1>3. \A x \in X : \A i \in 1..counts[x] : <<x, i>> \in U
  OBVIOUS
<1>4. \A x \in X : \A s \in Part(x) : s \in S /\ key[s] = x
  OBVIOUS
<1>5. \A s \in S : key[s] \in X /\ s \in Part(key[s])
  OBVIOUS
<1>6. Total(counts) = Cardinality(U)
  BY DEF Total
<1>. HIDE DEF b, U, Part
<1>7. F \in [U -> S]
  <2>1. ASSUME NEW p \in U PROVE b[p[1]][p[2]] \in S
    <3>1. PICK x \in X : \E i \in 1..counts[x] : p = <<x, i>> /\ p[1] = x /\ p[2] = i
      BY <1>2
    <3>2. PICK i \in 1..counts[x] : p[1] = x /\ p[2] = i
      BY <3>1
    <3>3. b[x] \in [1..counts[x] -> Part(x)]
      BY <1>1
    <3>4. b[x][i] \in Part(x)
      BY <3>3
    <3>. QED
      BY <1>4, <3>2, <3>4
  <2>. QED
    BY <2>1
<1>8. \A p, q \in U : F[p] = F[q] => p = q
  <2>. SUFFICES ASSUME NEW p \in U, NEW q \in U, b[p[1]][p[2]] = b[q[1]][q[2]]
                PROVE  p = q
    OBVIOUS
  <2>1. PICK x \in X : \E i \in 1..counts[x] : p = <<x, i>> /\ p[1] = x /\ p[2] = i
    BY <1>2
  <2>2. PICK i \in 1..counts[x] : p = <<x, i>> /\ p[1] = x /\ p[2] = i
    BY <2>1
  <2>3. PICK y \in X : \E j \in 1..counts[y] : q = <<y, j>> /\ q[1] = y /\ q[2] = j
    BY <1>2
  <2>4. PICK j \in 1..counts[y] : q = <<y, j>> /\ q[1] = y /\ q[2] = j
    BY <2>3
  <2>5. b[x][i] \in Part(x) /\ b[y][j] \in Part(y) /\ b[x][i] = b[y][j]
    <3>1. b[x] \in [1..counts[x] -> Part(x)] /\ b[y] \in [1..counts[y] -> Part(y)]
      BY <1>1
    <3>2. b[x][i] \in Part(x) /\ b[y][j] \in Part(y)
      BY <3>1
    <3>. QED
      BY <2>2, <2>4, <3>2
  <2>6. x = y
    BY <1>4, <2>5
  <2>. QED
    BY <1>1, <2>2, <2>4, <2>5, <2>6
<1>9. \A s \in S : \E p \in U : F[p] = s
  <2>. SUFFICES ASSUME NEW s \in S PROVE \E p \in U : F[p] = s
    OBVIOUS
  <2>1. PICK i \in 1..counts[key[s]] : b[key[s]][i] = s
    BY <1>1, <1>5
  <2>2. <<key[s], i>> \in U
    BY <1>3, <1>5
  <2>3. F[<<key[s], i>>] = s
    BY <2>1, <2>2
  <2>. QED
    BY <2>2, <2>3
<1>. HIDE DEF F
<1>10. ExistsBijection(U, S)
  BY <1>7, <1>8, <1>9, Fun_IsBij, Fun_ExistsBij
<1>11. ExistsBijection(S, U)
  BY <1>10, Fun_ExistsBijSymmetric
<1>. QED
  BY <1>6, <1>11, FS_Bijection

\* The sizes of some of the parts of a finite set add up to that of those parts together.
LEMMA TotalOfSome ==
    ASSUME NEW S, IsFiniteSet(S), NEW X, NEW Y, NEW key \in [S -> Y],
           NEW counts, DOMAIN counts = X,
           \A x \in X : counts[x] = Cardinality({s \in S : key[s] = x})
    PROVE  Total(counts) = Cardinality({s \in S : key[s] \in X})
<1>1. PICK T : T = {s \in S : key[s] \in X}
  OBVIOUS
<1>2. PICK some : some = [s \in T |-> key[s]]
  OBVIOUS
<1>3. IsFiniteSet(T)
  BY <1>1, FS_Subset
<1>4. some \in [T -> X]
  BY <1>1, <1>2
<1>5. ASSUME NEW x \in X PROVE counts[x] = Cardinality({s \in T : some[s] = x})
  <2>1. {s \in T : some[s] = x} = {s \in S : key[s] = x}
    BY <1>1, <1>2
  <2>. QED
    BY <2>1
<1>6. Total(counts) = Cardinality(T)
  BY <1>3, <1>4, <1>5, TotalByKey
<1>. QED
  BY <1>1, <1>6

\* Of a finite set, the members one asks for and the others.
LEMMA SplitCard ==
    ASSUME NEW S, IsFiniteSet(S), NEW A, A \subseteq S
    PROVE  /\ IsFiniteSet(A) /\ IsFiniteSet(S \ A)
           /\ Cardinality(S) \in Nat /\ Cardinality(A) \in Nat /\ Cardinality(S \ A) \in Nat
           /\ Cardinality(S) = Cardinality(A) + Cardinality(S \ A)
<1>1. IsFiniteSet(A) /\ IsFiniteSet(S \ A)
  BY FS_Subset
<1>2. S = A \cup (S \ A) /\ A \cap (S \ A) = {}
  OBVIOUS
<1>3. PICK B : B = S \ A
  OBVIOUS
<1>4. /\ Cardinality(S) \in Nat /\ Cardinality(A) \in Nat /\ Cardinality(B) \in Nat
  BY <1>1, <1>3, FS_CardinalityType
<1>5. Cardinality(A \cup B) = Cardinality(A) + Cardinality(B) - Cardinality(A \cap B)
  BY <1>1, <1>3, FS_Union
<1>6. Cardinality(A \cap B) = 0
  BY <1>2, <1>3, FS_EmptySet
<1>. QED
  BY <1>1, <1>2, <1>3, <1>4, <1>5, <1>6

\* Division with remainder, and that its quotient is the only one.
LEMMA DivMod ==
    ASSUME NEW a \in Nat, NEW b \in Nat \ {0}
    PROVE  /\ a \div b \in Nat /\ a % b \in Nat /\ a % b < b
           /\ a = b * (a \div b) + (a % b)
<1>0. a \in Int
  OBVIOUS
<1>1. a \div b \in Int /\ a % b \in 0..b - 1
  BY <1>0, SMT
<1>2. a = b * (a \div b) + (a % b)
  BY SMT
<1>3. a \div b \in Nat
  <2>1. PICK q, r : q = a \div b /\ r = a % b
    OBVIOUS
  <2>2. q \in Int /\ r \in 0..b - 1 /\ a = b * q + r
    BY <1>1, <1>2, <2>1
  <2>3. ~(q < 0)
    <3>. SUFFICES ASSUME q <= 0 - 1 PROVE FALSE
      BY <2>2
    <3>1. b * q <= 0 - b
      BY <2>2, SMT
    <3>2. PICK x : x = b * q
      OBVIOUS
    <3>. QED
      BY <2>2, <3>1, <3>2
  <2>4. q \in Nat
    BY <2>2, <2>3
  <2>. QED
    BY <2>1, <2>4, Zenon
<1>4. a % b \in Nat /\ a % b < b
  BY <1>1
<1>. QED
  BY <1>2, <1>3, <1>4

LEMMA Times ==
    ASSUME NEW q \in Nat, NEW m \in Nat, NEW b \in Nat \ {0}
    PROVE  /\ b * q \in Nat /\ b * (q + 1) = b * q + b
           /\ q <= m => b * q <= b * m
           /\ q < m => b * q + b <= b * m
<1>1. b * q \in Nat /\ b * (q + 1) = b * q + b
  OBVIOUS
<1>2. q <= m => b * q <= b * m
  OBVIOUS
<1>3. q < m => b * (q + 1) <= b * m
  <2>1. q < m => q + 1 <= m
    OBVIOUS
  <2>. QED
    BY <2>1, SMT
<1>. QED
  BY <1>1, <1>2, <1>3

LEMMA Quotient ==
    ASSUME NEW q \in Nat, NEW r \in Nat, NEW b \in Nat \ {0}, r < b
    PROVE  (b * q + r) \div b = q /\ (b * q + r) % b = r
<1>1. PICK a : a = b * q + r
  OBVIOUS
<1>2. a \in Nat
  BY <1>1, Times
<1>3. PICK m, s : m = a \div b /\ s = a % b
  OBVIOUS
<1>4. m \in Nat /\ s \in Nat /\ s < b /\ a = b * m + s
  BY <1>2, <1>3, DivMod
<1>5. PICK x, y : x = b * q /\ y = b * m
  OBVIOUS
<1>6. /\ x \in Nat /\ y \in Nat /\ a = x + r /\ a = y + s
      /\ (q < m => x + b <= y) /\ (m < q => y + b <= x)
  BY <1>1, <1>4, <1>5, Times
<1>7. m = q
  BY <1>4, <1>6
<1>8. s = r
  BY <1>1, <1>4, <1>6, <1>5, <1>7
<1>. QED
  BY <1>1, <1>3, <1>7, <1>8
\* A set of numbers that is not empty and has a bound has a greatest member.
LEMMA GreatestExists ==
    ASSUME NEW n \in Nat, NEW L \in SUBSET Nat, L # {}, \A j \in L : j <= n
    PROVE  \E i \in L : \A j \in L : j <= i
<1>. DEFINE R == OpToRel(<, Nat)
            B == {b \in Nat : \A j \in L : j <= b}
<1>1. B \subseteq Nat /\ n \in B
  OBVIOUS
<1>2. IsWellFoundedOn(R, Nat)
  BY NatLessThanWellFounded, Zenon
<1>. HIDE DEF R, B
<1>3. PICK b \in B : \A y \in B : ~(<<y, b>> \in R)
  BY <1>1, <1>2, WFMin, Zenon
<1>4. \A y \in B : ~(y < b)
  <2>. TAKE y \in B
  <2>1. y \in Nat /\ b \in Nat
    BY <1>1
  <2>. QED
    BY <1>3, <2>1 DEF R, OpToRel
<1>5. b \in L
  <2>. SUFFICES ASSUME b \notin L PROVE FALSE
    OBVIOUS
  <2>1. b \in Nat /\ \A j \in L : j <= b /\ j \in Nat
    BY DEF B
  <2>2. PICK j \in L : TRUE
    OBVIOUS
  <2>3. b - 1 \in B
    BY <2>1, <2>2 DEF B
  <2>. QED
    BY <1>4, <2>1, <2>3
<1>. QED
  BY <1>5 DEF B

----------------------------------------------------------------------------
(* The reports: months, and the dates a chart visits *)

LEMMA FirstGrows ==
    ASSUME NEW m \in AllMonths, NEW n \in AllMonths, m <= n
    PROVE  /\ m \in Nat /\ n \in Nat /\ First[m] \in Nat /\ First[n] \in Nat
           /\ First[m] <= First[n]
           /\ m < n => m + 1 \in AllMonths /\ First[m] < First[m + 1] /\ First[m + 1] <= First[n]
<1>1. m \in Nat /\ n \in Nat /\ LastMonth \in Nat /\ n <= LastMonth
  BY ReportsAssumption DEF AllMonths
<1>2. First[m] \in Nat /\ First[n] \in Nat /\ (m < n => First[m] < First[n])
  BY ReportsAssumption
<1>3. ASSUME m < n
      PROVE  m + 1 \in AllMonths /\ First[m] < First[m + 1] /\ First[m + 1] <= First[n]
  <2>1. m + 1 \in AllMonths
    BY <1>1, <1>3 DEF AllMonths
  <2>2. PICK k \in AllMonths : k = m + 1
    BY <2>1
  <2>3. First[m] < First[k] /\ First[k] \in Nat
    BY <1>1, <2>2, ReportsAssumption
  <2>4. k < n \/ k = n
    BY <1>1, <1>3, <2>2
  <2>5. First[k] <= First[n]
    BY <1>2, <2>3, <2>4, ReportsAssumption
  <2>. QED
    BY <2>1, <2>2, <2>3, <2>5
<1>. QED
  BY <1>1, <1>2, <1>3

\* A day has one month.
LEMMA MonthOnly ==
    ASSUME NEW day \in Nat, NEW m \in AllMonths, First[m] <= day, m = LastMonth \/ day < First[m + 1]
    PROVE  MonthOf(day) = m
<1>1. ASSUME NEW k \in AllMonths, NEW n \in AllMonths, k < n, k = LastMonth \/ day < First[k + 1],
             First[n] <= day
      PROVE  FALSE
  <2>1. k # LastMonth
    BY <1>1, ReportsAssumption DEF AllMonths
  <2>2. k \in Nat /\ n \in Nat
    BY ReportsAssumption DEF AllMonths
  <2>3. k + 1 \in AllMonths /\ First[k + 1] <= First[n] /\ First[n] \in Nat
    BY <1>1, <2>2, FirstGrows
  <2>4. First[k + 1] \in Nat
    BY <2>3, ReportsAssumption
  <2>. QED
    BY <1>1, <2>1, <2>3, <2>4
<1>2. \A k \in AllMonths : First[k] <= day /\ (k = LastMonth \/ day < First[k + 1]) => k = m
  <2>. SUFFICES ASSUME NEW k \in AllMonths, First[k] <= day, k = LastMonth \/ day < First[k + 1]
                PROVE  k = m
    OBVIOUS
  <2>1. k \in Nat /\ m \in Nat
    BY ReportsAssumption DEF AllMonths
  <2>2. k < m \/ m < k \/ k = m
    BY <2>1
  <2>. QED
    BY <1>1, <2>2
<1>. QED
  BY <1>2 DEF MonthOf

LEMMA MonthIs ==
    ASSUME NEW day \in Nat
    PROVE  /\ MonthOf(day) \in AllMonths /\ MonthOf(day) \in Nat /\ First[MonthOf(day)] \in Nat
           /\ First[MonthOf(day)] <= day
           /\ MonthOf(day) = LastMonth \/ day < First[MonthOf(day) + 1]
<1>1. PICK S : S = {m \in AllMonths : First[m] <= day}
  OBVIOUS
<1>2. S \in SUBSET Nat /\ 0 \in S /\ LastMonth \in Nat /\ \A m \in S : m <= LastMonth
  BY <1>1, ReportsAssumption DEF AllMonths
<1>3. PICK m \in S : \A n \in S : n <= m
  BY <1>2, GreatestExists
<1>4. m \in AllMonths /\ First[m] <= day /\ First[m] \in Nat /\ m \in Nat
  BY <1>1, <1>2, ReportsAssumption
<1>5. m = LastMonth \/ day < First[m + 1]
  <2>. SUFFICES ASSUME m # LastMonth, ~(day < First[m + 1]) PROVE FALSE
    OBVIOUS
  <2>1. m + 1 \in AllMonths
    BY <1>2, <1>4 DEF AllMonths
  <2>2. First[m + 1] \in Nat
    BY <2>1, ReportsAssumption
  <2>3. m + 1 \in S
    BY <1>1, <2>1, <2>2
  <2>. QED
    BY <1>3, <1>4, <2>3
<1>6. MonthOf(day) = m
  BY <1>4, <1>5, MonthOnly
<1>. QED
  BY <1>4, <1>5, <1>6

\* A month that has begun by a day is no later than the day's.
LEMMA MonthBegun ==
    ASSUME NEW day \in Nat, NEW m \in AllMonths, First[m] <= day
    PROVE  m <= MonthOf(day) /\ First[m] <= First[MonthOf(day)]
<1>1. PICK k : k = MonthOf(day)
  OBVIOUS
<1>2. k \in AllMonths /\ k \in Nat /\ (k = LastMonth \/ day < First[k + 1])
  BY <1>1, MonthIs, Zenon
<1>3. m \in Nat /\ m <= LastMonth /\ LastMonth \in Nat
  BY ReportsAssumption DEF AllMonths
<1>4. m <= k
  <2>. SUFFICES ASSUME k < m PROVE FALSE
    BY <1>2, <1>3
  <2>1. k + 1 \in AllMonths /\ First[k + 1] <= First[m] /\ First[m] \in Nat
    BY <1>2, <1>3, FirstGrows
  <2>2. First[k + 1] \in Nat
    BY <2>1, ReportsAssumption
  <2>. QED
    BY <1>2, <1>3, <2>1, <2>2
<1>. QED
  BY <1>1, <1>2, <1>4, FirstGrows

LEMMA RangeIs ==
    ASSUME NEW range \in Ranges \cup CachedRanges
    PROVE  /\ range[1] \in Nat /\ range[2] \in Nat
           /\ AutoGranularity(range) \in {"daily", "weekly", "monthly"}
           /\ \A day \in range[1]..range[2] :
                  /\ day \in Nat /\ MonthOf(day) \in AllMonths /\ MonthOf(day) # LastMonth
                  /\ MonthOf(day) \in Nat /\ MonthOf(day) + 1 \in AllMonths
                  /\ First[MonthOf(day)] \in Nat /\ First[MonthOf(day) + 1] \in Nat
                  /\ First[MonthOf(day)] <= day /\ day < First[MonthOf(day) + 1]
<1>1. LastMonth \in Nat /\ LastMonth \in AllMonths /\ First[LastMonth] \in Nat
  BY ReportsAssumption DEF AllMonths
<1>2. range[1] \in Nat /\ range[2] \in 0..First[LastMonth] - 1
  BY ReportsAssumption
<1>3. range[2] \in Nat /\ range[2] < First[LastMonth]
  BY <1>1, <1>2
<1>4. ASSUME NEW day \in range[1]..range[2]
      PROVE  /\ day \in Nat /\ MonthOf(day) \in AllMonths /\ MonthOf(day) # LastMonth
             /\ MonthOf(day) \in Nat /\ MonthOf(day) + 1 \in AllMonths
             /\ First[MonthOf(day)] \in Nat /\ First[MonthOf(day) + 1] \in Nat
             /\ First[MonthOf(day)] <= day /\ day < First[MonthOf(day) + 1]
  <2>1. day \in Nat /\ day <= range[2]
    BY <1>2, <1>3
  <2>2. PICK m : m = MonthOf(day)
    OBVIOUS
  <2>3. m \in AllMonths /\ m \in Nat /\ First[m] \in Nat /\ First[m] <= day
        /\ (m = LastMonth \/ day < First[m + 1])
    BY <2>1, <2>2, MonthIs
  <2>4. m # LastMonth
    BY <1>1, <1>3, <2>1, <2>3
  <2>5. m + 1 \in AllMonths
    BY <1>1, <2>3, <2>4 DEF AllMonths
  <2>6. First[m + 1] \in Nat
    BY <2>5, ReportsAssumption
  <2>. QED
    BY <2>1, <2>2, <2>3, <2>4, <2>5, <2>6
<1>. QED
  BY <1>2, <1>3, <1>4 DEF AutoGranularity

\* The loop goes on.
LEMMA FollowingIs ==
    ASSUME NEW range \in Ranges \cup CachedRanges, NEW c \in range[1]..range[2]
    PROVE  Following(c, AutoGranularity(range)) \in Nat /\ c < Following(c, AutoGranularity(range))
<1>1. PICK g : g = AutoGranularity(range)
  OBVIOUS
<1>2. c \in Nat /\ g \in {"daily", "weekly", "monthly"}
  BY <1>1, RangeIs
<1>3. CASE g = "daily"
  BY <1>1, <1>2, <1>3 DEF Following
<1>4. CASE g = "weekly"
  BY <1>1, <1>2, <1>4, ReportsAssumption DEF Following
<1>5. CASE g = "monthly"
  <2>1. PICK x, y : x = First[MonthOf(c)] /\ y = First[MonthOf(c) + 1]
    OBVIOUS
  <2>2. x \in Nat /\ y \in Nat /\ x <= c /\ c < y
    BY <2>1, RangeIs
  <2>3. Following(c, g) = y + c - x
    BY <1>5, <2>1 DEF Following
  <2>. QED
    BY <1>1, <1>2, <2>2, <2>3
<1>. QED
  BY <1>2, <1>3, <1>4, <1>5

LEMMA CursorsAre ==
    ASSUME NEW range \in Ranges \cup CachedRanges
    PROVE  /\ Cursors[range] \subseteq range[1]..range[2]
           /\ range[1] <= range[2] => range[1] \in Cursors[range]
           /\ \A c \in Cursors[range] :
                  Following(c, AutoGranularity(range)) <= range[2] =>
                      Following(c, AutoGranularity(range)) \in Cursors[range]
<1>1. Cursors[range] = {c \in range[1]..range[2] :
          \A dates \in SUBSET (range[1]..range[2]) : Visits(dates, range) => c \in dates}
  BY DEF Cursors
<1>2. range[1] <= range[2] => range[1] \in Cursors[range]
  BY <1>1, RangeIs DEF Visits
<1>3. ASSUME NEW c \in Cursors[range], Following(c, AutoGranularity(range)) <= range[2]
      PROVE  Following(c, AutoGranularity(range)) \in Cursors[range]
  <2>1. PICK next : next = Following(c, AutoGranularity(range))
    OBVIOUS
  <2>2. c \in range[1]..range[2]
    BY <1>1
  <2>3. next \in range[1]..range[2]
    BY <1>3, <2>1, <2>2, FollowingIs, RangeIs
  <2>4. ASSUME NEW dates \in SUBSET (range[1]..range[2]), Visits(dates, range) PROVE next \in dates
    <3>1. c \in dates
      BY <1>1, <2>4
    <3>. QED
      BY <1>3, <2>1, <2>4, <3>1 DEF Visits
  <2>. QED
    BY <1>1, <2>1, <2>3, <2>4
<1>. QED
  BY <1>1, <1>2, <1>3

\* The loop does not jump over the days from a to b if none of the dates before them
\* that it may visit, gone, leads beyond them.
LEMMA Visited ==
    ASSUME NEW range \in Ranges \cup CachedRanges, NEW a \in Nat, NEW b \in Nat,
           NEW gone \in SUBSET (range[1]..range[2]), range[1] \in gone, range[1] < b,
           \A x \in gone : x < a => /\ Following(x, AutoGranularity(range)) \in gone
                                    /\ Following(x, AutoGranularity(range)) < b
    PROVE  \E c \in Cursors[range] : c \in Nat /\ a <= c /\ c < b
<1>1. range[1] \in Nat /\ range[2] \in Nat /\ range[1] <= range[2]
  BY RangeIs
<1>2. range[1] \in Cursors[range] /\ \A c \in Cursors[range] : c \in Nat
  BY <1>1, CursorsAre
<1>3. CASE a <= range[1]
  BY <1>1, <1>2, <1>3
<1>4. CASE ~(a <= range[1])
  <2>1. PICK S : S = {x \in Cursors[range] \cap gone : x < a}
    OBVIOUS
  <2>2. S \in SUBSET Nat /\ range[1] \in S /\ \A x \in S : x <= a
    BY <1>1, <1>2, <1>4, <2>1
  <2>3. PICK x \in S : \A y \in S : y <= x
    BY <2>2, GreatestExists
  <2>4. PICK y : y = Following(x, AutoGranularity(range))
    OBVIOUS
  <2>5. x \in gone /\ x < a /\ x \in Cursors[range] /\ x \in Nat
    BY <1>2, <2>1
  <2>6. y \in gone /\ y < b
    BY <2>4, <2>5
  <2>7. y \in Nat /\ y <= range[2]
    BY <1>1, <2>6
  <2>8. y \in Cursors[range] /\ x < y
    BY <2>4, <2>5, <2>7, CursorsAre, FollowingIs
  <2>9. ~(y < a)
    BY <2>1, <2>3, <2>5, <2>6, <2>7, <2>8
  <2>. QED
    BY <2>6, <2>7, <2>8, <2>9
<1>. QED
  BY <1>3, <1>4

\* By day, every day is visited.
LEMMA DayVisited ==
    ASSUME NEW range \in Ranges \cup CachedRanges, AutoGranularity(range) = "daily",
           NEW day \in range[1]..range[2]
    PROVE  FormatPeriod(day, "daily") \in GeneratePeriods(range)
<1>1. range[1] \in Nat /\ range[2] \in Nat /\ day \in Nat
  BY RangeIs
<1>2. PICK gone : gone = range[1]..range[2]
  OBVIOUS
<1>3. \A x : Following(x, AutoGranularity(range)) = x + 1
  BY DEF Following
<1>4. \A x \in gone : x < day => /\ Following(x, AutoGranularity(range)) \in gone
                                 /\ Following(x, AutoGranularity(range)) < day + 1
  BY <1>1, <1>2, <1>3
<1>5. gone \in SUBSET (range[1]..range[2]) /\ range[1] \in gone /\ range[1] < day + 1 /\ day + 1 \in Nat
  BY <1>1, <1>2
<1>6. PICK c \in Cursors[range] : c \in Nat /\ day <= c /\ c < day + 1
  BY <1>1, <1>4, <1>5, Visited
<1>7. c = day
  BY <1>1, <1>6
<1>. QED
  BY <1>7 DEF GeneratePeriods

\* By week, every week but the last.
LEMMA WeekVisited ==
    ASSUME NEW range \in Ranges \cup CachedRanges, AutoGranularity(range) = "weekly",
           NEW day \in range[1]..range[2], day \div WeekLength # range[2] \div WeekLength
    PROVE  FormatPeriod(day, "weekly") \in GeneratePeriods(range)
<1>1. range[1] \in Nat /\ range[2] \in Nat /\ day \in Nat /\ range[1] <= day /\ day <= range[2]
  BY RangeIs
<1>2. PICK W : W = WeekLength
  OBVIOUS
<1>3. W \in Nat \ {0}
  BY <1>2, ReportsAssumption
<1>4. PICK q, n, s, t : q = day \div W /\ n = range[2] \div W /\ s = day % W /\ t = range[2] % W
  OBVIOUS
<1>5. /\ q \in Nat /\ n \in Nat /\ s \in Nat /\ t \in Nat /\ s < W /\ t < W
      /\ day = W * q + s /\ range[2] = W * n + t
  BY <1>1, <1>3, <1>4, DivMod
<1>6. PICK a, e : a = W * q /\ e = W * n
  OBVIOUS
<1>7. /\ a \in Nat /\ e \in Nat /\ day = a + s /\ range[2] = e + t
      /\ (q < n => a + W <= e) /\ (n < q => e + W <= a)
  BY <1>3, <1>5, <1>6, Times
<1>8. q < n
  <2>1. q # n
    BY <1>2, <1>4
  <2>. QED
    BY <1>1, <1>3, <1>5, <1>7, <2>1
<1>9. a + W \in Nat /\ a + W <= range[2] /\ day < a + W
  BY <1>3, <1>5, <1>7, <1>8
<1>10. PICK gone : gone = {x \in range[1]..range[2] : x < a + W}
  OBVIOUS
<1>11. \A x : Following(x, AutoGranularity(range)) = x + W
  BY <1>2 DEF Following
<1>12. \A x \in gone : x < a => /\ Following(x, AutoGranularity(range)) \in gone
                                /\ Following(x, AutoGranularity(range)) < a + W
  <2>. SUFFICES ASSUME NEW x \in gone, x < a
                PROVE  x + W \in gone /\ x + W < a + W
    BY <1>11
  <2>1. x \in Nat /\ range[1] <= x
    BY <1>1, <1>10
  <2>2. x + W < a + W /\ x + W \in Nat
    BY <1>3, <1>7, <2>1
  <2>3. x + W \in range[1]..range[2]
    BY <1>1, <1>3, <1>9, <2>1, <2>2
  <2>. QED
    BY <1>10, <2>2, <2>3
<1>13. gone \in SUBSET (range[1]..range[2]) /\ range[1] \in gone /\ range[1] < a + W
  BY <1>1, <1>9, <1>10
<1>14. PICK c \in Cursors[range] : c \in Nat /\ a <= c /\ c < a + W
  BY <1>7, <1>9, <1>12, <1>13, Visited
<1>15. c \div W = q
  <2>1. PICK r : r = c - a
    OBVIOUS
  <2>2. r \in Nat /\ r < W /\ c = a + r
    BY <1>3, <1>7, <1>14, <2>1
  <2>. QED
    BY <1>3, <1>5, <1>6, <2>2, Quotient
<1>16. FormatPeriod(c, "weekly") = c \div W /\ FormatPeriod(day, "weekly") = day \div W
  BY <1>2 DEF FormatPeriod
<1>. QED
  BY <1>4, <1>15, <1>16 DEF GeneratePeriods

\* By month, every month but the last and those that end before the day of the month on
\* which the range begins.
LEMMA MonthVisited ==
    ASSUME NEW range \in Ranges \cup CachedRanges, AutoGranularity(range) = "monthly",
           NEW day \in range[1]..range[2], MonthOf(day) # MonthOf(range[2]),
           ~(First[MonthOf(day) + 1] - First[MonthOf(day)] <= range[1] - First[MonthOf(range[1])])
    PROVE  FormatPeriod(day, "monthly") \in GeneratePeriods(range)
<1>1. /\ range[1] \in Nat /\ range[2] \in Nat /\ day \in Nat /\ range[1] <= day /\ day <= range[2]
      /\ range[1] \in range[1]..range[2] /\ range[2] \in range[1]..range[2]
  BY RangeIs
<1>2. PICK m, n : m = MonthOf(day) /\ n = MonthOf(range[2])
  OBVIOUS
<1>3. PICK a, b, e : a = First[m] /\ b = First[m + 1] /\ e = First[n]
  OBVIOUS
<1>4. /\ m \in AllMonths /\ n \in AllMonths /\ m \in Nat /\ n \in Nat /\ m + 1 \in AllMonths
      /\ a \in Nat /\ b \in Nat /\ e \in Nat /\ a <= day /\ day < b /\ e <= range[2]
  BY <1>1, <1>2, <1>3, RangeIs
<1>5. m < n
  <2>1. m <= n
    BY <1>1, <1>2, <1>3, <1>4, MonthBegun
  <2>. QED
    BY <1>2, <1>4, <2>1
<1>6. b <= e
  BY <1>3, <1>4, <1>5, FirstGrows
<1>7. PICK o : o = range[1] - First[MonthOf(range[1])]
  OBVIOUS
<1>8. o \in Nat /\ a + o < b
  <2>1. First[MonthOf(range[1])] \in Nat /\ First[MonthOf(range[1])] <= range[1]
    BY <1>1, RangeIs
  <2>2. o \in Nat
    BY <1>1, <1>7, <2>1
  <2>3. ~(b - a <= o)
    BY <1>2, <1>3, <1>7
  <2>. QED
    BY <1>4, <2>2, <2>3
<1>9. PICK gone : gone = {x \in range[1]..range[2] : x < b /\ x - First[MonthOf(x)] <= o}
  OBVIOUS
<1>10. ASSUME NEW x \in gone, x < a
       PROVE  /\ Following(x, AutoGranularity(range)) \in gone
              /\ Following(x, AutoGranularity(range)) < b
  <2>1. PICK k : k = MonthOf(x)
    OBVIOUS
  <2>2. PICK u, v : u = First[k] /\ v = First[k + 1]
    OBVIOUS
  <2>3. /\ x \in range[1]..range[2] /\ x \in Nat /\ k \in AllMonths /\ k \in Nat /\ k + 1 \in AllMonths
        /\ u \in Nat /\ v \in Nat /\ u <= x /\ x < v /\ x - u <= o
    BY <1>9, <2>1, <2>2, RangeIs
  <2>4. k < m
    <3>. SUFFICES ASSUME m <= k PROVE FALSE
      BY <1>4, <2>3
    <3>1. a <= u
      BY <1>3, <1>4, <2>2, <2>3, FirstGrows
    <3>. QED
      BY <1>4, <1>10, <2>3, <3>1
  <2>5. v <= a
    BY <1>3, <1>4, <2>2, <2>3, <2>4, FirstGrows
  <2>6. PICK y : y = Following(x, AutoGranularity(range))
    OBVIOUS
  <2>7. y = v + x - u
    BY <2>1, <2>2, <2>6 DEF Following
  <2>8. y \in Nat /\ y < b /\ v <= y /\ y - v <= o /\ x < y
    BY <1>4, <1>8, <2>3, <2>5, <2>7
  <2>9. y \in range[1]..range[2]
    BY <1>1, <1>4, <1>6, <2>3, <2>8
  <2>10. v <= First[MonthOf(y)] /\ First[MonthOf(y)] \in Nat
    BY <2>2, <2>3, <2>8, MonthBegun, MonthIs
  <2>11. y - First[MonthOf(y)] <= o
    BY <1>8, <2>3, <2>8, <2>10
  <2>. QED
    BY <1>9, <2>6, <2>8, <2>9, <2>11
<1>11. gone \in SUBSET (range[1]..range[2]) /\ range[1] \in gone /\ range[1] < b
  <2>1. range[1] < b
    BY <1>1, <1>4
  <2>2. range[1] - First[MonthOf(range[1])] <= o
    BY <1>7, <1>8
  <2>. QED
    BY <1>1, <1>9, <2>1, <2>2
<1>12. PICK c \in Cursors[range] : c \in Nat /\ a <= c /\ c < b
  BY <1>4, <1>10, <1>11, Visited
<1>13. MonthOf(c) = m
  BY <1>3, <1>4, <1>12, MonthOnly
<1>14. FormatPeriod(c, "monthly") = m /\ FormatPeriod(day, "monthly") = m
  BY <1>2, <1>13 DEF FormatPeriod
<1>. QED
  BY <1>12, <1>14 DEF GeneratePeriods

----------------------------------------------------------------------------
(* The reports: rows and requests *)

ReportTypes ==
    /\ leadOf \in [Clients -> Lead \cup {NoLeadRow}]
    /\ acquisition \in [Clients -> Acquisition \cup {NoAcquisition}]
    /\ verified \subseteq Clients /\ past \subseteq Clients /\ paid \subseteq Clients
    /\ answer \in [Clients -> {"YES", "NO", Null}]
    /\ orders \subseteq Payment /\ payments \subseteq Payment /\ IsFiniteSet(payments)
    /\ activities \subseteq Activity /\ distributors \subseteq Referrers
    /\ DOMAIN reports = Kinds \X CachedRanges
    /\ rows \in Nat

\* A client goes through the funnel in its order, and orders the fee on the way.
InFunnelOrder ==
    /\ paid \subseteq past
    /\ \A u \in Clients : answer[u] # Null => u \in paid
    /\ \A p \in orders : p.type = "COMMITMENT_FEE" => p.user \in past

\* Who refers a client and whose lead he is: a lead is the referrer's or the
\* administrator's, and of whom a distributor referred the visit is known.
Referred ==
    \A u \in Clients :
        /\ ~HasLead(u) /\ Acquired(u) => acquisition[u].distributor # SuperAdmin
        /\ HasLead(u) =>
               /\ leadOf[u].assigned \in {SuperAdmin, leadOf[u].distributor}
               /\ leadOf[u].distributor \in Referrers => Acquired(u)

\* Who may have planned the follow-ups of a lead, before and after a hand-over.
Keeper(u) == IF leadOf[u].distributor = Nobody THEN SuperAdmin ELSE leadOf[u].distributor

ToldToTheirs == \A a \in activities : HasLead(a.client) /\ a.actor = Keeper(a.client)

ReportRows == ReportTypes /\ InFunnelOrder /\ Referred /\ ToldToTheirs /\ ReportAddsUp

AskCall == [at : {"report"}, kind : Kinds, range : CachedRanges]

HalfCall == [at : {"half"}, kind : Kinds, range : CachedRanges, earlier : {"first", "second"},
             count : Nat, rows : Nat]

TouchCall == [at : {"firstTouch"}, client : Clients, distributor : Referrers]

InsertCall == [at : {"insertLead"}, client : Clients, distributor : Referrers \cup {Nobody}]

FollowupCall ==
    [at : {"status", "activity"}, actor : Referrers \cup {SuperAdmin}, client : Clients, day : RowDays]

ExpireCall == [at : {"expire"}, payment : Payment]

MoveCall == [at : {"move"}, from : Referrers, users : SUBSET Clients]

AcquireCall == [at : {"acquire"}, users : SUBSET Clients]

ReportCalls ==
    {Idle} \cup AskCall \cup HalfCall \cup TouchCall \cup InsertCall \cup FollowupCall
        \cup ExpireCall \cup MoveCall \cup AcquireCall

AllLeads == {u \in Clients : HasLead(u)}

\* What both reads of a report on leads, or on payments, count.
Now(kind, range) ==
    IF kind = "leads" THEN Cardinality(Within(AllLeads, range)) ELSE Cardinality(Revenue(range))

\* A first read is that of a later moment as well, if nothing was written; leads stay.
HalfHolds(c) ==
    /\ c.rows <= rows
    /\ c.kind = "dashboard" => c.earlier = "first" /\ (c.rows = rows => c.count = LifetimeTotals)
    /\ c.kind = "leads" => /\ c.count <= Now("leads", c.range)
                           /\ c.rows = rows => c.count = Now("leads", c.range)
    /\ c.kind = "revenue" /\ AutoGranularity(c.range) = "daily" =>
           (c.rows = rows => c.count = Now("revenue", c.range))

\* What a request holds is still so: who was read has a lead, or an acquisition.
ReportHolds(c) ==
    /\ c.at \in {"move", "acquire"} => \A u \in c.users : HasLead(u)
    /\ c.at = "firstTouch" => Acquired(c.client)
    /\ c.at = "insertLead" /\ c.distributor # Nobody => Acquired(c.client)
    /\ c.at \in {"status", "activity"} => HasLead(c.client) /\ c.actor = Keeper(c.client)
    /\ c.at = "half" => HalfHolds(c)

ReportServes ==
    /\ call \in [Handlers -> ReportCalls]
    /\ \A h \in Handlers : ReportHolds(call[h])

\* Leads stay, with their days and distributors, as acquisitions do; a new lead is of
\* today, and what is written is counted.
ReportsGrow ==
    /\ \A u \in Clients : HasLead(u) => /\ HasLead(u)' /\ leadOf'[u].day = leadOf[u].day
                                        /\ leadOf'[u].distributor = leadOf[u].distributor
    /\ \A u \in Clients : HasLead(u)' => HasLead(u) \/ leadOf'[u].day = today
    /\ \A u \in Clients : Acquired(u) => Acquired(u)'
    /\ rows' \in Nat /\ rows <= rows'
    /\ rows' = rows => payments' = payments /\ leadOf' = leadOf

\* What any step does.
ReportsKept == ReportRows' /\ ReportsGrow /\ ReportServes'

LEMMA ReportCallShape ==
    ASSUME NEW c \in ReportCalls
    PROVE  /\ c.at \in {"idle", "report", "half", "firstTouch", "insertLead", "status", "activity",
                        "expire", "move", "acquire"}
           /\ c.at = "report" => c \in AskCall
           /\ c.at = "half" => c \in HalfCall
           /\ c.at = "firstTouch" => c \in TouchCall
           /\ c.at = "insertLead" => c \in InsertCall
           /\ c.at \in {"status", "activity"} => c \in FollowupCall
           /\ c.at = "expire" => c \in ExpireCall
           /\ c.at = "move" => c \in MoveCall
           /\ c.at = "acquire" => c \in AcquireCall
<1>1. \/ c = Idle \/ c \in AskCall \/ c \in HalfCall \/ c \in TouchCall \/ c \in InsertCall
      \/ c \in FollowupCall \/ c \in ExpireCall \/ c \in MoveCall \/ c \in AcquireCall
  BY DEF ReportCalls
<1>2. c = Idle => c.at = "idle"
  BY DEF Idle
<1>3. /\ c \in HalfCall => c.at = "half"
      /\ c \in TouchCall => c.at = "firstTouch"
      /\ c \in InsertCall => c.at = "insertLead"
      /\ c \in FollowupCall => c.at \in {"status", "activity"}
  BY DEF HalfCall, TouchCall, InsertCall, FollowupCall
<1>4. /\ c \in AskCall => c.at = "report"
      /\ c \in ExpireCall => c.at = "expire"
      /\ c \in MoveCall => c.at = "move"
      /\ c \in AcquireCall => c.at = "acquire"
  BY DEF AskCall, ExpireCall, MoveCall, AcquireCall
<1>. QED
  BY <1>1, <1>2, <1>3, <1>4

LEMMA LeadShape ==
    /\ \A r \in Lead : /\ r.distributor \in Referrers \cup {Nobody}
                       /\ r.assigned \in Referrers \cup {SuperAdmin}
                       /\ r.status \in LeadStatuses /\ r.day \in RowDays /\ r.day \in Nat
    /\ NoLeadRow \notin Lead
    /\ \A r \in Acquisition : /\ r.distributor \in Referrers \cup {Nobody, SuperAdmin}
                              /\ r.source \in Sources \cup {Null}
    /\ NoAcquisition \notin Acquisition
    /\ \A r \in Payment : /\ r.user \in Clients /\ r.type \in PaymentTypes
                          /\ r.day \in RowDays /\ r.day \in Nat
    /\ \A r \in Activity : /\ r.actor \in Referrers \cup {SuperAdmin} /\ r.client \in Clients
                           /\ r.day \in RowDays /\ r.day \in Nat
<1>1. RowDays \subseteq Nat
  BY ReportsAssumption
<1>2. \A r \in Lead : /\ r.distributor \in Referrers \cup {Nobody}
                      /\ r.assigned \in Referrers \cup {SuperAdmin}
                      /\ r.status \in LeadStatuses /\ r.day \in RowDays
  BY DEF Lead
<1>3. NoLeadRow \notin Lead
  BY DEF Lead, NoLeadRow
<1>4. \A r \in Acquisition : /\ r.distributor \in Referrers \cup {Nobody, SuperAdmin}
                             /\ r.source \in Sources \cup {Null}
  BY DEF Acquisition
<1>5. NoAcquisition \notin Acquisition
  BY DEF Acquisition, NoAcquisition
<1>6. \A r \in Payment : r.user \in Clients /\ r.type \in PaymentTypes /\ r.day \in RowDays
  BY DEF Payment
<1>7. \A r \in Activity : r.actor \in Referrers \cup {SuperAdmin} /\ r.client \in Clients /\ r.day \in RowDays
  BY DEF Activity
<1>. QED
  BY <1>1, <1>2, <1>3, <1>4, <1>5, <1>6, <1>7

LEMMA LeadTyped ==
    ASSUME ReportTypes, NEW u \in Clients
    PROVE  /\ HasLead(u) <=> leadOf[u] \in Lead
           /\ Acquired(u) <=> acquisition[u] \in Acquisition
  BY LeadShape DEF ReportTypes, HasLead, Acquired

\* What is counted is finite.
LEMMA CountsFinite ==
    ASSUME ReportTypes, NEW range
    PROVE  /\ IsFiniteSet(AllLeads) /\ IsFiniteSet(Within(AllLeads, range))
           /\ Cardinality(Within(AllLeads, range)) <= LifetimeTotals
           /\ LifetimeTotals \in Nat /\ LifetimeTotals = Cardinality(AllLeads)
           /\ IsFiniteSet(Revenue(range))
           /\ \A kind : Now(kind, range) \in Nat
<1>1. IsFiniteSet(AllLeads)
  BY ReportsAssumption, FS_Subset DEF AllLeads
<1>2. Within(AllLeads, range) \subseteq AllLeads
  BY DEF Within
<1>3. IsFiniteSet(Within(AllLeads, range))
      /\ Cardinality(Within(AllLeads, range)) <= Cardinality(AllLeads)
  BY <1>1, <1>2, FS_Subset
<1>4. LifetimeTotals = Cardinality(AllLeads)
  BY DEF LifetimeTotals, AllLeads
<1>5. Revenue(range) \subseteq payments
  BY DEF Revenue
<1>6. IsFiniteSet(Revenue(range))
  BY <1>5, FS_Subset DEF ReportTypes
<1>. QED
  BY <1>1, <1>3, <1>4, <1>6, FS_CardinalityType DEF Now

\* The leads that are counted grow with the tables.
LEMMA NowGrows ==
    ASSUME ReportTypes, ReportTypes', ReportsGrow, NEW range
    PROVE  /\ Now("leads", range) <= Now("leads", range)'
           /\ Now("leads", range) \in Nat /\ Now("leads", range)' \in Nat
           /\ rows' = rows => /\ LifetimeTotals' = LifetimeTotals
                              /\ \A kind : Now(kind, range)' = Now(kind, range)
<1>1. Within(AllLeads, range) \subseteq Within(AllLeads, range)'
  BY DEF ReportsGrow, Within, AllLeads
<1>2. IsFiniteSet(Within(AllLeads, range)')
  <2>1. Within(AllLeads, range)' \subseteq Clients /\ IsFiniteSet(Clients)
    BY ReportsAssumption DEF AllLeads, Within
  <2>. QED
    BY <2>1, FS_Subset
<1>3. Cardinality(Within(AllLeads, range)) <= Cardinality(Within(AllLeads, range)')
  BY <1>1, <1>2, FS_Subset
<1>4. Now("leads", range) \in Nat /\ Now("leads", range)' \in Nat
  BY <1>2, CountsFinite, FS_CardinalityType DEF Now
<1>5. ASSUME rows' = rows
      PROVE  /\ LifetimeTotals' = LifetimeTotals
             /\ \A kind : Now(kind, range)' = Now(kind, range)
  <2>1. payments' = payments /\ leadOf' = leadOf
    BY <1>5 DEF ReportsGrow
  <2>. QED
    BY <2>1 DEF LifetimeTotals, Now, Within, AllLeads, Revenue, HasLead
<1>. QED
  BY <1>3, <1>4, <1>5 DEF Now

LEMMA HalfStillHolds ==
    ASSUME ReportTypes, ReportTypes', ReportsGrow, NEW c \in HalfCall, HalfHolds(c)
    PROVE  HalfHolds(c)'
<1>1. c.rows \in Nat /\ c.count \in Nat /\ c.rows <= rows /\ rows \in Nat /\ rows' \in Nat /\ rows <= rows'
  BY DEF HalfCall, HalfHolds, ReportTypes, ReportsGrow
<1>2. c.rows <= rows' /\ (c.rows = rows' => c.rows = rows /\ rows' = rows)
  BY <1>1
<1>3. c.kind = "dashboard" => c.earlier = "first" /\ (c.rows = rows' => c.count = LifetimeTotals')
  BY <1>2, NowGrows DEF HalfHolds
<1>4. PICK a, b : a = Now("leads", c.range) /\ b = Now("leads", c.range)'
  OBVIOUS
<1>5. a \in Nat /\ b \in Nat /\ a <= b /\ (rows' = rows => a = b)
  BY <1>4, NowGrows
<1>6. c.kind = "leads" => c.count <= a /\ (c.rows = rows => c.count = a)
  BY <1>4 DEF HalfHolds
<1>7. c.kind = "leads" => c.count <= b /\ (c.rows = rows' => c.count = b)
  BY <1>1, <1>2, <1>5, <1>6
<1>8. c.kind = "revenue" /\ AutoGranularity(c.range) = "daily" =>
          (c.rows = rows' => c.count = Now("revenue", c.range)')
  BY <1>2, NowGrows DEF HalfHolds
<1>. QED
  BY <1>2, <1>3, <1>4, <1>7, <1>8 DEF HalfHolds

LEMMA ReportStillHolds ==
    ASSUME ReportTypes, ReportTypes', ReportsGrow, NEW c \in ReportCalls, ReportHolds(c)
    PROVE  ReportHolds(c)'
<1>1. c.at \in {"move", "acquire"} => \A u \in c.users : HasLead(u)'
  BY ReportCallShape DEF ReportHolds, ReportsGrow, MoveCall, AcquireCall
<1>2. /\ c.at = "firstTouch" => Acquired(c.client)'
      /\ c.at = "insertLead" /\ c.distributor # Nobody => Acquired(c.client)'
  BY ReportCallShape DEF ReportHolds, ReportsGrow, TouchCall, InsertCall
<1>3. c.at \in {"status", "activity"} => HasLead(c.client)' /\ c.actor = Keeper(c.client)'
  BY ReportCallShape DEF ReportHolds, ReportsGrow, FollowupCall, Keeper
<1>4. c.at = "half" => HalfHolds(c)'
  BY ReportCallShape, HalfStillHolds DEF ReportHolds
<1>. QED
  BY <1>1, <1>2, <1>3, <1>4 DEF ReportHolds

----------------------------------------------------------------------------
(* The reports: how a step keeps them *)

\* A request moves on to a call that holds, and the others hold still.
LEMMA ReportMoves ==
    ASSUME ReportTypes, ReportTypes', ReportsGrow, ReportServes, NEW h \in Handlers,
           NEW c \in ReportCalls, call' = [call EXCEPT ![h] = c], ReportHolds(c)'
    PROVE  ReportServes'
<1>1. call' \in [Handlers -> ReportCalls]
  BY DEF ReportServes
<1>2. ASSUME NEW g \in Handlers PROVE ReportHolds(call[g])'
  <2>1. CASE g = h
    <3>1. call'[g] = c
      BY <2>1 DEF ReportServes
    <3>. QED
      BY <3>1
  <2>2. CASE g # h
    <3>1. PICK b \in ReportCalls : b = call[g] /\ b = call'[g]
      BY <2>2 DEF ReportServes
    <3>2. ReportHolds(b)
      BY <3>1 DEF ReportServes
    <3>3. ReportHolds(b)'
      BY <3>2, ReportStillHolds
    <3>. QED
      BY <3>1, <3>3
  <2>. QED
    BY <2>1, <2>2
<1>. QED
  BY <1>1, <1>2 DEF ReportServes

LEMMA ReportStays ==
    ASSUME ReportTypes, ReportTypes', ReportsGrow, ReportServes, call' = call
    PROVE  ReportServes'
<1>1. call' \in [Handlers -> ReportCalls]
  BY DEF ReportServes
<1>2. ASSUME NEW g \in Handlers PROVE ReportHolds(call[g])'
  <2>1. PICK b \in ReportCalls : b = call[g] /\ b = call'[g]
    BY DEF ReportServes
  <2>2. ReportHolds(b)
    BY <2>1 DEF ReportServes
  <2>3. ReportHolds(b)'
    BY <2>2, ReportStillHolds
  <2>. QED
    BY <2>1, <2>3
<1>. QED
  BY <1>1, <1>2 DEF ReportServes

LEMMA IdleHolds ==
    /\ Idle \in ReportCalls /\ ReportHolds(Idle) /\ ReportHolds(Idle)'
<1>1. Idle \in ReportCalls
  BY DEF ReportCalls
<1>2. Idle.at = "idle"
  BY DEF Idle
<1>. QED
  BY <1>1, <1>2 DEF ReportHolds

LEMMA ReportEnds ==
    ASSUME ReportTypes, ReportTypes', ReportsGrow, ReportServes, NEW h \in Handlers, End(h)
    PROVE  ReportServes'
<1>1. PICK c \in ReportCalls : c = Idle
  BY IdleHolds
<1>2. call' = [call EXCEPT ![h] = c]
  BY <1>1 DEF End, Then
<1>3. ReportHolds(c)'
  BY <1>1, IdleHolds DEF ReportHolds
<1>. QED
  BY <1>2, <1>3, ReportMoves

LEMMA ReportsRestart ==
    ASSUME call' = [h \in Handlers |-> Idle]
    PROVE  ReportServes'
<1>1. call' \in [Handlers -> ReportCalls]
  BY IdleHolds
<1>2. PICK c \in ReportCalls : c = Idle
  BY IdleHolds
<1>3. ReportHolds(c)'
  BY <1>2 DEF ReportHolds, Idle
<1>4. ASSUME NEW g \in Handlers PROVE ReportHolds(call[g])'
  <2>1. call'[g] = c
    BY <1>2
  <2>. QED
    BY <1>3, <2>1
<1>. QED
  BY <1>1, <1>4 DEF ReportServes

\* A step that writes no row.
LEMMA ReportRowsStay ==
    ASSUME ReportRows, UNCHANGED reportVars
    PROVE  ReportRows' /\ ReportsGrow
<1>1. ReportTypes' /\ ReportsGrow
  BY DEF ReportRows, ReportTypes, ReportsGrow, reportVars, tables, HasLead, Acquired
<1>2. InFunnelOrder' /\ Referred'
  BY DEF ReportRows, InFunnelOrder, Referred, reportVars, tables, HasLead, Acquired
<1>3. ToldToTheirs' /\ ReportAddsUp'
  BY DEF ReportRows, ToldToTheirs, Keeper, ReportAddsUp, reportVars, tables, HasLead
<1>. QED
  BY <1>1, <1>2, <1>3 DEF ReportRows

\* A request begins or goes on with a call that holds.
LEMMA ReportReads ==
    ASSUME ReportRows, ReportServes, NEW h \in Handlers, NEW c \in ReportCalls, ReportHolds(c),
           call' = [call EXCEPT ![h] = c], UNCHANGED reportVars
    PROVE  ReportsKept
<1>1. ReportRows' /\ ReportsGrow
  BY ReportRowsStay
<1>2. ReportHolds(c)'
  BY <1>1, ReportStillHolds DEF ReportRows
<1>3. ReportServes'
  BY <1>1, <1>2, ReportMoves DEF ReportRows
<1>. QED
  BY <1>1, <1>3 DEF ReportsKept

LEMMA ReportsBegin ==
    ASSUME ReportsInit, ServiceInit
    PROVE  ReportRows /\ ReportServes /\ \A u \in Clients : HasLead(u) => leadOf[u].day = 0
<1>1. PICK came \in Arrivals :
          LET clients == {u \in Clients : came[u] # Nobody}
          IN  /\ leadOf = [u \in Clients |->
                     IF u \in clients THEN [distributor |-> came[u], assigned |-> came[u],
                                            status |-> "HOT", day |-> 0] ELSE NoLeadRow]
              /\ acquisition = [u \in Clients |->
                     IF u \in clients THEN [distributor |-> came[u], source |-> Null] ELSE NoAcquisition]
              /\ verified = clients /\ past = clients /\ paid = clients
              /\ answer = [u \in Clients |-> IF u \in clients THEN "YES" ELSE Null]
              /\ orders = {} /\ activities = {}
              /\ payments = [user : clients, type : {"COMMITMENT_FEE"}, day : {0}]
              /\ distributors = Referrers
              /\ reports = [k \in Kinds \X CachedRanges |-> Null]
              /\ rows = 0
  BY DEF ReportsInit
<1>2. PICK clients : clients = {u \in Clients : came[u] # Nobody}
  OBVIOUS
<1>3. /\ leadOf = [u \in Clients |->
             IF u \in clients THEN [distributor |-> came[u], assigned |-> came[u],
                                    status |-> "HOT", day |-> 0] ELSE NoLeadRow]
      /\ acquisition = [u \in Clients |->
             IF u \in clients THEN [distributor |-> came[u], source |-> Null] ELSE NoAcquisition]
      /\ verified = clients /\ past = clients /\ paid = clients
      /\ answer = [u \in Clients |-> IF u \in clients THEN "YES" ELSE Null]
      /\ orders = {} /\ activities = {}
      /\ payments = [user : clients, type : {"COMMITMENT_FEE"}, day : {0}]
      /\ distributors = Referrers
      /\ reports = [k \in Kinds \X CachedRanges |-> Null]
      /\ rows = 0
  BY <1>1, <1>2
<1>4. /\ clients \subseteq Clients /\ \A u \in clients : came[u] \in Referrers
      /\ IsFiniteSet(clients)
  <2>1. clients \subseteq Clients /\ \A u \in clients : came[u] \in Referrers
    BY <1>2, ReportsAssumption
  <2>. QED
    BY <2>1, FS_Subset, ReportsAssumption
<1>5. "HOT" \in LeadStatuses /\ 0 \in RowDays /\ "COMMITMENT_FEE" \in PaymentTypes
  BY ReportsAssumption
<1>6. /\ \A u \in clients : /\ leadOf[u] \in Lead /\ leadOf[u].distributor = came[u]
                            /\ leadOf[u].assigned = came[u] /\ leadOf[u].day = 0
      /\ \A u \in Clients \ clients : leadOf[u] = NoLeadRow
  BY <1>3, <1>4, <1>5 DEF Lead
<1>7. /\ \A u \in clients : acquisition[u] \in Acquisition /\ acquisition[u].distributor = came[u]
      /\ \A u \in Clients \ clients : acquisition[u] = NoAcquisition
  BY <1>3, <1>4 DEF Acquisition
<1>8. IsFiniteSet(payments)
  <2>1. PICK f : f = [u \in clients |-> [user |-> u, type |-> "COMMITMENT_FEE", day |-> 0]]
    OBVIOUS
  <2>2. f \in [clients -> payments]
    BY <1>3, <2>1
  <2>3. \A p \in payments : \E u \in clients : f[u] = p
    <3>. SUFFICES ASSUME NEW p \in payments PROVE \E u \in clients : f[u] = p
      OBVIOUS
    <3>1. p = [user |-> p.user, type |-> "COMMITMENT_FEE", day |-> 0] /\ p.user \in clients
      BY <1>3
    <3>. QED
      BY <2>1, <3>1
  <2>4. f \in Surjection(clients, payments)
    BY <2>2, <2>3, Fun_IsSurj
  <2>. QED
    BY <1>4, <2>4, FS_Surjection
<1>9. ReportTypes
  <2>1. leadOf \in [Clients -> Lead \cup {NoLeadRow}]
    BY <1>3, <1>6
  <2>2. acquisition \in [Clients -> Acquisition \cup {NoAcquisition}]
    BY <1>3, <1>7
  <2>3. payments \subseteq Payment
    BY <1>3, <1>4, <1>5 DEF Payment
  <2>. QED
    BY <1>3, <1>4, <1>8, <2>1, <2>2, <2>3 DEF ReportTypes
<1>10. \A u \in Clients : /\ HasLead(u) <=> u \in clients
                          /\ Acquired(u) <=> u \in clients
  BY <1>6, <1>7, LeadShape DEF HasLead, Acquired
<1>11. InFunnelOrder /\ ToldToTheirs
  BY <1>3 DEF InFunnelOrder, ToldToTheirs
<1>12. Referred
  BY <1>6, <1>10 DEF Referred
<1>13. ReportAddsUp
  BY <1>3 DEF ReportAddsUp
<1>14. ReportServes
  BY IdleHolds DEF ServiceInit, ReportServes
<1>. QED
  BY <1>6, <1>9, <1>10, <1>11, <1>12, <1>13, <1>14 DEF ReportRows

----------------------------------------------------------------------------
(* The reports: the tables change *)

\* A write leaves the cached reports as they are.
LEMMA WroteIsSound ==
    ASSUME ReportRows, Wrote, ReportTypes', InFunnelOrder', Referred', ToldToTheirs',
           \A u \in Clients : HasLead(u) => /\ HasLead(u)' /\ leadOf'[u].day = leadOf[u].day
                                            /\ leadOf'[u].distributor = leadOf[u].distributor,
           \A u \in Clients : HasLead(u)' => HasLead(u) \/ leadOf'[u].day = today,
           \A u \in Clients : Acquired(u) => Acquired(u)'
    PROVE  ReportRows' /\ ReportsGrow
<1>1. rows' = rows + 1 /\ reports' = reports /\ rows \in Nat
  BY DEF Wrote, ReportRows, ReportTypes
<1>2. rows' \in Nat /\ rows <= rows' /\ rows' # rows
  BY <1>1
<1>3. ReportsGrow
  BY <1>2 DEF ReportsGrow
<1>4. ReportAddsUp'
  BY <1>1 DEF ReportRows, ReportAddsUp
<1>. QED
  BY <1>3, <1>4 DEF ReportRows

\* The write of a request of one write, and the last of a request of several.
LEMMA WriteKeeps ==
    ASSUME ReportRows, ReportServes, ReportRows', ReportsGrow,
           AskOnce \/ UNCHANGED service \/ \E h \in Handlers : End(h)
    PROVE  ReportsKept
<1>1. ASSUME AskOnce \/ UNCHANGED service PROVE call' = call
  BY <1>1 DEF AskOnce, service
<1>2. ReportServes'
  BY <1>1, ReportStays, ReportEnds DEF ReportRows
<1>. QED
  BY <1>2 DEF ReportsKept

\* A client's acquisition is written.
LEMMA AcquisitionWritten ==
    ASSUME ReportRows, NEW u \in Clients, NEW new \in Acquisition,
           ~HasLead(u) => new.distributor # SuperAdmin,
           Wrote, acquisition' = [acquisition EXCEPT ![u] = new],
           UNCHANGED <<leadOf, verified, past, paid, answer, orders, payments, activities, distributors>>
    PROVE  ReportRows' /\ ReportsGrow /\ Acquired(u)'
<1>1. /\ acquisition' \in [Clients -> Acquisition \cup {NoAcquisition}]
      /\ acquisition'[u] = new /\ new # NoAcquisition
      /\ \A v \in Clients : v # u => acquisition'[v] = acquisition[v]
  BY LeadShape DEF ReportRows, ReportTypes
<1>2. ReportTypes'
  BY <1>1 DEF ReportRows, ReportTypes, Wrote
<1>3. \A v \in Clients : HasLead(v)' = HasLead(v)
  BY DEF HasLead
<1>4. InFunnelOrder' /\ ToldToTheirs'
  BY DEF ReportRows, InFunnelOrder, ToldToTheirs, HasLead, Keeper
<1>5. Acquired(u)' /\ \A v \in Clients : Acquired(v) => Acquired(v)'
  BY <1>1 DEF Acquired
<1>6. Referred'
  BY <1>1, <1>3, <1>5 DEF ReportRows, Referred, Acquired
<1>. QED
  BY <1>2, <1>3, <1>4, <1>5, <1>6, WroteIsSound

LEMMA BeginUpsertAcquisitionIsSound ==
    ASSUME ReportRows, ReportServes, NEW h \in Handlers, NEW u \in Clients,
           NEW d \in Referrers \cup {Nobody}, NEW source \in Sources \cup {Null},
           BeginUpsertAcquisition(h, u, d, source)
    PROVE  ReportsKept
<1>1. PICK c : c = IF d = Nobody THEN Idle ELSE [at |-> "firstTouch", client |-> u, distributor |-> d]
  OBVIOUS
<1>2. PICK new : new = IF Acquired(u) THEN [acquisition[u] EXCEPT !.source = IF source = Null THEN @ ELSE source]
                                      ELSE [distributor |-> d, source |-> source]
  OBVIOUS
<1>3. /\ call' = [call EXCEPT ![h] = c] /\ Wrote
      /\ acquisition' = [acquisition EXCEPT ![u] = new]
      /\ UNCHANGED <<leadOf, verified, past, paid, answer, orders, payments, activities, distributors>>
  <2>1. call' = [call EXCEPT ![h] = c]
    BY <1>1 DEF BeginUpsertAcquisition, Begin
  <2>2. acquisition' = [acquisition EXCEPT ![u] = new]
    BY <1>2 DEF BeginUpsertAcquisition
  <2>. QED
    BY <2>1, <2>2 DEF BeginUpsertAcquisition
<1>4. new \in Acquisition /\ (~HasLead(u) => new.distributor # SuperAdmin)
  <2>1. CASE Acquired(u)
    <3>1. acquisition[u] \in Acquisition /\ (~HasLead(u) => acquisition[u].distributor # SuperAdmin)
      BY <2>1, LeadTyped DEF ReportRows, Referred
    <3>. QED
      BY <1>2, <2>1, <3>1 DEF Acquisition
  <2>2. CASE ~Acquired(u)
    BY <1>2, <2>2, ReportsAssumption DEF Acquisition
  <2>. QED
    BY <2>1, <2>2
<1>5. ReportRows' /\ ReportsGrow /\ Acquired(u)'
  BY <1>3, <1>4, AcquisitionWritten
<1>6. c \in ReportCalls
  <2>1. d # Nobody => c \in TouchCall
    BY <1>1 DEF TouchCall
  <2>. QED
    BY <1>1, <2>1, IdleHolds DEF ReportCalls
<1>7. ReportHolds(c)'
  <2>1. CASE d = Nobody
    BY <1>1, <2>1, IdleHolds DEF ReportHolds
  <2>2. CASE d # Nobody
    <3>1. c.at = "firstTouch" /\ c.client = u
      BY <1>1, <2>2
    <3>. QED
      BY <1>5, <3>1 DEF ReportHolds
  <2>. QED
    BY <2>1, <2>2
<1>8. ReportServes'
  BY <1>3, <1>5, <1>6, <1>7, ReportMoves DEF ReportRows
<1>. QED
  BY <1>5, <1>8 DEF ReportsKept

LEMMA FirstTouchIsSound ==
    ASSUME ReportRows, ReportServes, NEW h \in Handlers, FirstTouch(h)
    PROVE  ReportsKept
<1>1. PICK c \in ReportCalls : c = call[h] /\ ReportHolds(c)
  BY DEF ReportServes
<1>2. c.at = "firstTouch" /\ c \in TouchCall
  BY <1>1, ReportCallShape DEF FirstTouch
<1>3. PICK u, d : u = c.client /\ d = c.distributor
  OBVIOUS
<1>4. u \in Clients /\ d \in Referrers /\ Acquired(u)
  BY <1>1, <1>2, <1>3 DEF TouchCall, ReportHolds
<1>5. PICK new : new = [acquisition[u] EXCEPT !.distributor = IF @ = Nobody THEN d ELSE @]
  OBVIOUS
<1>6. /\ End(h) /\ Wrote /\ acquisition' = [acquisition EXCEPT ![u] = new]
      /\ UNCHANGED <<leadOf, verified, past, paid, answer, orders, payments, activities, distributors>>
  BY <1>1, <1>3, <1>5 DEF FirstTouch
<1>7. acquisition[u] \in Acquisition /\ (~HasLead(u) => acquisition[u].distributor # SuperAdmin)
  BY <1>4, LeadTyped DEF ReportRows, Referred
<1>8. new \in Acquisition /\ (~HasLead(u) => new.distributor # SuperAdmin)
  BY <1>4, <1>5, <1>7, ReportsAssumption DEF Acquisition
<1>9. ReportRows' /\ ReportsGrow
  BY <1>4, <1>6, <1>8, AcquisitionWritten
<1>. QED
  BY <1>6, <1>9, WriteKeeps

LEMMA AttachReferralCodeIsSound ==
    ASSUME ReportRows, ReportServes, NEW u \in Clients, NEW d \in Referrers, AttachReferralCode(u, d)
    PROVE  ReportsKept
<1>1. PICK new : new = [distributor |-> d, source |-> IF Acquired(u) THEN acquisition[u].source ELSE Null]
  OBVIOUS
<1>2. Acquired(u) => acquisition[u].source \in Sources \cup {Null}
  BY LeadTyped, LeadShape DEF ReportRows
<1>3. new \in Acquisition /\ new.distributor # SuperAdmin
  BY <1>1, <1>2, ReportsAssumption DEF Acquisition
<1>4. /\ AskOnce /\ Wrote /\ acquisition' = [acquisition EXCEPT ![u] = new]
      /\ UNCHANGED <<leadOf, verified, past, paid, answer, orders, payments, activities, distributors>>
  BY <1>1 DEF AttachReferralCode, Write
<1>5. ReportRows' /\ ReportsGrow
  BY <1>3, <1>4, AcquisitionWritten
<1>. QED
  BY <1>4, <1>5, WriteKeeps

\* The lead of one client is written, and keeps its day and distributor if it was there.
LEMMA LeadWritten ==
    ASSUME ReportRows, NEW u \in Clients, NEW new \in Lead, Wrote,
           HasLead(u) => new.day = leadOf[u].day /\ new.distributor = leadOf[u].distributor,
           HasLead(u) \/ new.day = today,
           new.assigned \in {SuperAdmin, new.distributor},
           new.distributor \in Referrers => Acquired(u),
           leadOf' = [leadOf EXCEPT ![u] = new],
           UNCHANGED <<acquisition, verified, past, paid, answer, orders, payments, activities, distributors>>
    PROVE  ReportRows' /\ ReportsGrow
<1>1. /\ leadOf' \in [Clients -> Lead \cup {NoLeadRow}]
      /\ leadOf'[u] = new /\ new # NoLeadRow
      /\ \A v \in Clients : v # u => leadOf'[v] = leadOf[v]
  BY LeadShape DEF ReportRows, ReportTypes
<1>2. ReportTypes'
  BY <1>1 DEF ReportRows, ReportTypes, Wrote
<1>3. \A v \in Clients : Acquired(v)' = Acquired(v)
  BY DEF Acquired
<1>4. InFunnelOrder'
  BY DEF ReportRows, InFunnelOrder
<1>5. HasLead(u)' /\ \A v \in Clients : v # u => HasLead(v)' = HasLead(v)
  BY <1>1 DEF HasLead
<1>6. Referred'
  <2>. SUFFICES ASSUME NEW v \in Clients
                PROVE  /\ ~HasLead(v)' /\ Acquired(v)' => acquisition'[v].distributor # SuperAdmin
                       /\ HasLead(v)' => /\ leadOf'[v].assigned \in {SuperAdmin, leadOf'[v].distributor}
                                         /\ leadOf'[v].distributor \in Referrers => Acquired(v)'
    BY DEF Referred
  <2>1. CASE v = u
    BY <1>1, <1>3, <1>5, <2>1
  <2>2. CASE v # u
    BY <1>1, <1>3, <1>5, <2>2 DEF ReportRows, Referred
  <2>. QED
    BY <2>1, <2>2
<1>7. ToldToTheirs'
  <2>. SUFFICES ASSUME NEW a \in activities PROVE HasLead(a.client)' /\ a.actor = Keeper(a.client)'
    BY DEF ToldToTheirs
  <2>1. a.client \in Clients /\ HasLead(a.client) /\ a.actor = Keeper(a.client)
    BY LeadShape DEF ReportRows, ReportTypes, ToldToTheirs
  <2>2. HasLead(a.client)' /\ leadOf'[a.client].distributor = leadOf[a.client].distributor
    BY <1>1, <1>5, <2>1
  <2>. QED
    BY <2>1, <2>2 DEF Keeper
<1>8. \A v \in Clients : HasLead(v) => /\ HasLead(v)' /\ leadOf'[v].day = leadOf[v].day
                                       /\ leadOf'[v].distributor = leadOf[v].distributor
  BY <1>1, <1>5
<1>9. \A v \in Clients : HasLead(v)' => HasLead(v) \/ leadOf'[v].day = today
  BY <1>1, <1>5
<1>. QED
  BY <1>2, <1>3, <1>4, <1>6, <1>7, <1>8, <1>9, WroteIsSound

\* No lead is written that is there.
LEMMA NothingWritten ==
    ASSUME ReportRows, Wrote,
           UNCHANGED <<leadOf, acquisition, verified, past, paid, answer, orders, payments, activities, distributors>>
    PROVE  ReportRows' /\ ReportsGrow
<1>1. ReportTypes' /\ InFunnelOrder'
  BY DEF ReportRows, ReportTypes, InFunnelOrder, Wrote
<1>2. Referred' /\ ToldToTheirs'
  BY DEF ReportRows, Referred, ToldToTheirs, Keeper, HasLead, Acquired
<1>3. \A u \in Clients : HasLead(u)' = HasLead(u) /\ Acquired(u)' = Acquired(u)
  BY DEF HasLead, Acquired
<1>. QED
  BY <1>1, <1>2, <1>3, WroteIsSound

LEMMA BeginCreateLeadIsSound ==
    ASSUME ReportRows, ReportServes, NEW h \in Handlers, NEW u \in Clients, BeginCreateLead(h, u)
    PROVE  ReportsKept
<1>1. PICK d : d = IF Acquired(u) THEN acquisition[u].distributor ELSE Nobody
  OBVIOUS
<1>2. PICK c : c = [at |-> "insertLead", client |-> u, distributor |-> d]
  OBVIOUS
<1>3. ~HasLead(u) /\ call' = [call EXCEPT ![h] = c] /\ UNCHANGED reportVars
  BY <1>1, <1>2 DEF BeginCreateLead, Begin
<1>4. Acquired(u) => /\ acquisition[u].distributor \in Referrers \cup {Nobody, SuperAdmin}
                     /\ acquisition[u].distributor # SuperAdmin
  BY <1>3, LeadTyped, LeadShape DEF ReportRows, Referred
<1>5. d \in Referrers \cup {Nobody} /\ (d # Nobody => Acquired(u))
  BY <1>1, <1>4
<1>6. c \in ReportCalls
  BY <1>2, <1>5 DEF ReportCalls, InsertCall
<1>7. ReportHolds(c)
  BY <1>2, <1>5 DEF ReportHolds
<1>. QED
  BY <1>3, <1>6, <1>7, ReportReads

LEMMA InsertLeadIsSound ==
    ASSUME ReportRows, ReportServes, today \in RowDays, NEW h \in Handlers, InsertLead(h)
    PROVE  ReportsKept
<1>1. PICK c \in ReportCalls : c = call[h] /\ ReportHolds(c)
  BY DEF ReportServes
<1>2. c.at = "insertLead" /\ c \in InsertCall
  BY <1>1, ReportCallShape DEF InsertLead
<1>3. PICK u, d : u = c.client /\ d = c.distributor
  OBVIOUS
<1>4. u \in Clients /\ d \in Referrers \cup {Nobody} /\ (d # Nobody => Acquired(u))
  BY <1>1, <1>2, <1>3 DEF InsertCall, ReportHolds
<1>5. PICK row : row = [distributor |-> d, status |-> "NEW", day |-> today,
                        assigned |-> IF d = Nobody THEN SuperAdmin ELSE d]
  OBVIOUS
<1>6. /\ End(h) /\ Wrote
      /\ leadOf' = [leadOf EXCEPT ![u] = IF HasLead(u) THEN @ ELSE row]
      /\ UNCHANGED <<acquisition, verified, past, paid, answer, orders, payments, activities, distributors>>
  BY <1>1, <1>3, <1>5 DEF InsertLead
<1>7. row \in Lead /\ row.assigned \in {SuperAdmin, row.distributor} /\ row.distributor = d /\ row.day = today
  BY <1>4, <1>5, ReportsAssumption DEF Lead
<1>8. CASE HasLead(u)
  <2>1. leadOf' = leadOf
    BY <1>4, <1>6, <1>8 DEF ReportRows, ReportTypes
  <2>2. ReportRows' /\ ReportsGrow
    BY <1>6, <2>1, NothingWritten
  <2>. QED
    BY <1>6, <2>2, WriteKeeps
<1>9. CASE ~HasLead(u)
  <2>1. leadOf' = [leadOf EXCEPT ![u] = row]
    BY <1>6, <1>9
  <2>2. row.distributor \in Referrers => Acquired(u)
    BY <1>4, <1>7, ReportsAssumption
  <2>3. ReportRows' /\ ReportsGrow
    BY <1>4, <1>6, <1>7, <1>9, <2>1, <2>2, LeadWritten
  <2>. QED
    BY <1>6, <2>3, WriteKeeps
<1>. QED
  BY <1>8, <1>9

\* The status of a lead is written, and nothing else of it.
LEMMA StatusWritten ==
    ASSUME ReportRows, NEW u \in Clients, HasLead(u), NEW status \in LeadStatuses, Wrote,
           leadOf' = [leadOf EXCEPT ![u].status = status],
           UNCHANGED <<acquisition, verified, past, paid, answer, orders, payments, activities, distributors>>
    PROVE  ReportRows' /\ ReportsGrow
<1>1. leadOf[u] \in Lead
  BY LeadTyped DEF ReportRows
<1>2. PICK new : new = [leadOf[u] EXCEPT !.status = status]
  OBVIOUS
<1>3. /\ new \in Lead /\ new.day = leadOf[u].day
      /\ new.assigned = leadOf[u].assigned /\ new.distributor = leadOf[u].distributor
  BY <1>1, <1>2 DEF Lead
<1>4. leadOf' = [leadOf EXCEPT ![u] = new]
  BY <1>2
<1>5. /\ new.assigned \in {SuperAdmin, new.distributor}
      /\ new.distributor \in Referrers => Acquired(u)
  BY <1>3 DEF ReportRows, Referred
<1>. QED
  BY <1>3, <1>4, <1>5, LeadWritten

LEMMA ChangeStatusIsSound ==
    ASSUME ReportRows, ReportServes, NEW u \in Clients, NEW status \in LeadStatuses, ChangeStatus(u, status)
    PROVE  ReportsKept
<1>1. ReportRows' /\ ReportsGrow
  BY StatusWritten DEF ChangeStatus, Write
<1>. QED
  BY <1>1, WriteKeeps DEF ChangeStatus, Write

LEMMA BeginScheduleIsSound ==
    ASSUME ReportRows, ReportServes, NEW h \in Handlers, NEW p \in Referrers \cup {SuperAdmin},
           NEW u \in Clients, NEW day \in RowDays, BeginSchedule(h, p, u, day)
    PROVE  ReportsKept
<1>1. PICK c : c = [at |-> "status", actor |-> p, client |-> u, day |-> day]
  OBVIOUS
<1>2. call' = [call EXCEPT ![h] = c] /\ UNCHANGED reportVars /\ HasLead(u) /\ MaySchedule(p, u)
  BY <1>1 DEF BeginSchedule, Begin
<1>3. p = Keeper(u)
  <2>1. CASE p = SuperAdmin
    BY <1>2, <2>1 DEF MaySchedule, Keeper
  <2>2. CASE p # SuperAdmin
    <3>1. leadOf[u].assigned = p /\ leadOf[u].assigned \in {SuperAdmin, leadOf[u].distributor}
      BY <1>2, <2>2 DEF MaySchedule, ReportRows, Referred
    <3>2. p \in Referrers /\ leadOf[u].distributor = p
      BY <2>2, <3>1
    <3>. QED
      BY <3>2, ReportsAssumption DEF Keeper
  <2>. QED
    BY <2>1, <2>2
<1>4. c \in FollowupCall
  BY <1>1 DEF FollowupCall
<1>5. c \in ReportCalls
  BY <1>4 DEF ReportCalls
<1>6. ReportHolds(c)
  BY <1>1, <1>2, <1>3 DEF ReportHolds
<1>. QED
  BY <1>2, <1>5, <1>6, ReportReads

LEMMA WriteFollowupIsSound ==
    ASSUME ReportRows, ReportServes, NEW h \in Handlers, WriteFollowup(h)
    PROVE  ReportsKept
<1>1. PICK b \in ReportCalls : b = call[h] /\ ReportHolds(b)
  BY DEF ReportServes
<1>2. b.at = "status" /\ b \in FollowupCall
  BY <1>1, ReportCallShape DEF WriteFollowup
<1>3. PICK c : c = [at |-> "activity", actor |-> b.actor, client |-> b.client, day |-> b.day]
  OBVIOUS
<1>4. c \in FollowupCall /\ b.client \in Clients
  BY <1>2, <1>3 DEF FollowupCall
<1>5. HasLead(b.client) /\ b.actor = Keeper(b.client)
  BY <1>1, <1>2 DEF ReportHolds
<1>6. /\ call' = [call EXCEPT ![h] = c] /\ Wrote
      /\ leadOf' = [leadOf EXCEPT ![b.client].status = "FOLLOWUP"]
      /\ UNCHANGED <<acquisition, verified, past, paid, answer, orders, payments, activities, distributors>>
  BY <1>1, <1>3 DEF WriteFollowup, Then
<1>7. ReportRows' /\ ReportsGrow
  BY <1>4, <1>5, <1>6, StatusWritten, ReportsAssumption
<1>8. c \in ReportCalls
  BY <1>4 DEF ReportCalls
<1>9. ReportHolds(c)
  BY <1>3, <1>5 DEF ReportHolds
<1>10. ReportServes'
  BY <1>6, <1>7, <1>8, <1>9, ReportMoves, ReportStillHolds DEF ReportRows
<1>. QED
  BY <1>7, <1>10 DEF ReportsKept

LEMMA InsertActivityIsSound ==
    ASSUME ReportRows, ReportServes, NEW h \in Handlers, InsertActivity(h)
    PROVE  ReportsKept
<1>1. PICK c \in ReportCalls : c = call[h] /\ ReportHolds(c)
  BY DEF ReportServes
<1>2. c.at = "activity" /\ c \in FollowupCall
  BY <1>1, ReportCallShape DEF InsertActivity
<1>3. PICK a : a = [actor |-> c.actor, client |-> c.client, day |-> c.day]
  OBVIOUS
<1>4. a \in Activity /\ HasLead(a.client) /\ a.actor = Keeper(a.client)
  BY <1>1, <1>2, <1>3 DEF FollowupCall, Activity, ReportHolds
<1>5. /\ End(h) /\ Wrote /\ activities' = activities \cup {a}
      /\ UNCHANGED <<leadOf, acquisition, verified, past, paid, answer, orders, payments, distributors>>
  BY <1>1, <1>3 DEF InsertActivity
<1>6. ReportTypes' /\ InFunnelOrder'
  BY <1>4, <1>5 DEF ReportRows, ReportTypes, InFunnelOrder, Wrote
<1>7. Referred' /\ ToldToTheirs'
  BY <1>4, <1>5 DEF ReportRows, Referred, ToldToTheirs, Keeper, HasLead, Acquired
<1>8. \A u \in Clients : HasLead(u)' = HasLead(u) /\ Acquired(u)' = Acquired(u)
  BY <1>5 DEF HasLead, Acquired
<1>9. ReportRows' /\ ReportsGrow
  BY <1>5, <1>6, <1>7, <1>8, WroteIsSound
<1>. QED
  BY <1>5, <1>9, WriteKeeps

\* Leads and acquisitions stay, and the clients go on through the funnel.
LEMMA FunnelWritten ==
    ASSUME ReportRows, ReportServes, Wrote, ReportTypes', InFunnelOrder',
           UNCHANGED <<leadOf, acquisition, activities>>,
           AskOnce \/ UNCHANGED service \/ \E h \in Handlers : End(h)
    PROVE  ReportsKept
<1>1. \A v \in Clients : HasLead(v)' = HasLead(v) /\ Acquired(v)' = Acquired(v)
  BY DEF HasLead, Acquired
<1>2. Referred' /\ ToldToTheirs'
  BY DEF ReportRows, Referred, ToldToTheirs, Keeper, HasLead, Acquired
<1>3. ReportRows' /\ ReportsGrow
  BY <1>1, <1>2, WroteIsSound
<1>. QED
  BY <1>3, WriteKeeps

LEMMA VerifyPhoneIsSound ==
    ASSUME ReportRows, ReportServes, NEW u \in Clients, VerifyPhone(u)
    PROVE  ReportsKept
<1>1. ReportTypes' /\ InFunnelOrder'
  BY DEF ReportRows, ReportTypes, InFunnelOrder, VerifyPhone, Write, Wrote
<1>. QED
  BY <1>1, FunnelWritten DEF VerifyPhone, Write

LEMMA PassPhoneGateIsSound ==
    ASSUME ReportRows, ReportServes, NEW u \in Clients, PassPhoneGate(u)
    PROVE  ReportsKept
<1>1. ReportTypes' /\ InFunnelOrder'
  BY DEF ReportRows, ReportTypes, InFunnelOrder, PassPhoneGate, Write, Wrote
<1>. QED
  BY <1>1, FunnelWritten DEF PassPhoneGate, Write

LEMMA CreateOrderIsSound ==
    ASSUME ReportRows, ReportServes, today \in RowDays, NEW u \in Clients, NEW type \in PaymentTypes,
           CreateOrder(u, type)
    PROVE  ReportsKept
<1>1. PICK p \in Payment : p = [user |-> u, type |-> type, day |-> today]
  BY DEF Payment
<1>2. orders' = orders \cup {p} /\ (p.type = "COMMITMENT_FEE" => p.user \in past)
  BY <1>1 DEF CreateOrder
<1>3. UNCHANGED <<leadOf, acquisition, verified, past, paid, answer, payments, activities, distributors>>
  BY DEF CreateOrder
<1>4. ReportTypes'
  BY <1>2, <1>3 DEF ReportRows, ReportTypes, CreateOrder, Write, Wrote
<1>5. InFunnelOrder'
  BY <1>2, <1>3 DEF ReportRows, InFunnelOrder
<1>. QED
  BY <1>3, <1>4, <1>5, FunnelWritten DEF CreateOrder, Write

LEMMA CaptureIsSound ==
    ASSUME ReportRows, ReportServes, NEW p \in orders, Capture(p)
    PROVE  ReportsKept
<1>1. /\ orders' = orders \ {p} /\ payments' = payments \cup {p}
      /\ paid' = IF p.type = "COMMITMENT_FEE" THEN paid \cup {p.user} ELSE paid
      /\ Wrote /\ UNCHANGED <<service, leadOf, acquisition, verified, past, answer, activities, distributors>>
  BY DEF Capture
<1>2. p \in Payment /\ p.user \in Clients
  BY LeadShape DEF ReportRows, ReportTypes
<1>3. IsFiniteSet(payments')
  BY <1>1, FS_AddElement DEF ReportRows, ReportTypes
<1>4. ReportTypes'
  BY <1>1, <1>2, <1>3 DEF ReportRows, ReportTypes, Wrote
<1>5. InFunnelOrder'
  BY <1>1 DEF ReportRows, InFunnelOrder
<1>. QED
  BY <1>1, <1>4, <1>5, FunnelWritten

LEMMA BeginExpirePaymentIsSound ==
    ASSUME ReportRows, ReportServes, NEW h \in Handlers, NEW p \in orders, BeginExpirePayment(h, p)
    PROVE  ReportsKept
<1>1. PICK c : c = [at |-> "expire", payment |-> p]
  OBVIOUS
<1>2. call' = [call EXCEPT ![h] = c] /\ UNCHANGED reportVars
  BY <1>1 DEF BeginExpirePayment, Begin
<1>3. c \in ExpireCall
  BY <1>1 DEF ExpireCall, ReportRows, ReportTypes
<1>4. c \in ReportCalls
  BY <1>3 DEF ReportCalls
<1>5. ReportHolds(c)
  BY <1>1 DEF ReportHolds
<1>. QED
  BY <1>2, <1>4, <1>5, ReportReads

LEMMA ExpirePaymentIsSound ==
    ASSUME ReportRows, ReportServes, NEW h \in Handlers, ExpirePayment(h)
    PROVE  ReportsKept
<1>1. /\ End(h) /\ Wrote /\ payments' = payments \ {call[h].payment}
      /\ UNCHANGED <<leadOf, acquisition, verified, past, paid, answer, orders, activities, distributors>>
  BY DEF ExpirePayment
<1>2. IsFiniteSet(payments')
  BY <1>1, FS_RemoveElement DEF ReportRows, ReportTypes
<1>3. ReportTypes'
  BY <1>1, <1>2 DEF ReportRows, ReportTypes, Wrote
<1>4. InFunnelOrder'
  BY <1>1 DEF ReportRows, InFunnelOrder
<1>. QED
  BY <1>1, <1>3, <1>4, FunnelWritten

LEMMA SaveDecisionIsSound ==
    ASSUME ReportRows, ReportServes, NEW u \in Clients, NEW yesOrNo \in {"YES", "NO"}, SaveDecision(u, yesOrNo)
    PROVE  ReportsKept
<1>1. /\ answer' \in [Clients -> {"YES", "NO", Null}] /\ u \in paid
      /\ \A v \in Clients : v # u => answer'[v] = answer[v]
  BY DEF ReportRows, ReportTypes, SaveDecision
<1>2. UNCHANGED <<leadOf, acquisition, verified, past, paid, orders, payments, activities, distributors>>
  BY DEF SaveDecision
<1>3. ReportTypes'
  BY <1>1, <1>2 DEF ReportRows, ReportTypes, SaveDecision, Write, Wrote
<1>4. InFunnelOrder'
  BY <1>1, <1>2 DEF ReportRows, InFunnelOrder
<1>. QED
  BY <1>2, <1>3, <1>4, FunnelWritten DEF SaveDecision, Write

LEMMA ChangeRoleIsSound ==
    ASSUME ReportRows, ReportServes, NEW d \in Referrers, ChangeRole(d)
    PROVE  ReportsKept
<1>1. ReportTypes' /\ InFunnelOrder'
  BY DEF ReportRows, ReportTypes, InFunnelOrder, ChangeRole, Write, Wrote
<1>. QED
  BY <1>1, FunnelWritten DEF ChangeRole, Write

----------------------------------------------------------------------------
(* The reports: the hand-over *)

LEMMA BeginHandOverIsSound ==
    ASSUME ReportRows, ReportServes, NEW h \in Handlers, NEW d \in Referrers, BeginHandOver(h, d)
    PROVE  ReportsKept
<1>1. PICK c : c = [at |-> "move", from |-> d, users |-> OpenLeads(d)]
  OBVIOUS
<1>2. /\ OpenLeads(d) \subseteq Clients
      /\ \A u \in OpenLeads(d) : HasLead(u)
  BY DEF OpenLeads, AssignedTo
<1>3. c \in MoveCall
  BY <1>1, <1>2 DEF MoveCall
<1>4. c \in ReportCalls
  BY <1>3 DEF ReportCalls
<1>5. UNCHANGED reportVars /\ call' = [call EXCEPT ![h] = c]
  BY <1>1 DEF BeginHandOver, Begin
<1>6. ReportHolds(c)
  BY <1>1, <1>2 DEF ReportHolds
<1>. QED
  BY <1>4, <1>5, <1>6, ReportReads

LEMMA MoveLeadsIsSound ==
    ASSUME ReportRows, ReportServes, NEW h \in Handlers, MoveLeads(h)
    PROVE  ReportsKept
<1>1. PICK b \in ReportCalls : b = call[h] /\ ReportHolds(b)
  BY DEF ReportServes
<1>2. b \in MoveCall /\ b.at = "move"
  BY <1>1, ReportCallShape DEF MoveLeads
<1>3. PICK moved : moved = OpenLeads(b.from)
  OBVIOUS
<1>4. PICK c : c = [at |-> "acquire", users |-> b.users]
  OBVIOUS
<1>5. /\ call' = [call EXCEPT ![h] = c] /\ Wrote
      /\ leadOf' = [u \in Clients |-> IF u \in moved THEN [leadOf[u] EXCEPT !.assigned = SuperAdmin]
                                                     ELSE leadOf[u]]
      /\ UNCHANGED <<acquisition, verified, past, paid, answer, orders, payments, activities, distributors>>
  BY <1>1, <1>3, <1>4 DEF MoveLeads, Then
<1>6. moved \subseteq Clients /\ \A u \in moved : HasLead(u)
  BY <1>3 DEF OpenLeads, AssignedTo
<1>7. \A u \in moved : /\ leadOf'[u] \in Lead /\ leadOf'[u].day = leadOf[u].day
                       /\ leadOf'[u].assigned = SuperAdmin
                       /\ leadOf'[u].distributor = leadOf[u].distributor
  <2>. SUFFICES ASSUME NEW u \in moved
                PROVE  /\ leadOf'[u] \in Lead /\ leadOf'[u].day = leadOf[u].day
                       /\ leadOf'[u].assigned = SuperAdmin
                       /\ leadOf'[u].distributor = leadOf[u].distributor
    OBVIOUS
  <2>1. leadOf[u] \in Lead
    BY <1>6, LeadTyped DEF ReportRows
  <2>2. leadOf'[u] = [leadOf[u] EXCEPT !.assigned = SuperAdmin]
    BY <1>5, <1>6
  <2>. QED
    BY <2>1, <2>2 DEF Lead
<1>8. \A u \in Clients \ moved : leadOf'[u] = leadOf[u]
  BY <1>5
<1>9. \A u \in Clients : HasLead(u)' = HasLead(u) /\ Acquired(u)' = Acquired(u)
  BY <1>5, <1>6, <1>7, <1>8, LeadShape DEF HasLead, Acquired
<1>10. ReportTypes'
  <2>1. leadOf' \in [Clients -> Lead \cup {NoLeadRow}]
    <3>1. \A u \in Clients : leadOf'[u] \in Lead \cup {NoLeadRow}
      BY <1>7, <1>8 DEF ReportRows, ReportTypes
    <3>2. leadOf' = [u \in Clients |-> leadOf'[u]]
      BY <1>5
    <3>. QED
      BY <3>1, <3>2
  <2>. QED
    BY <1>5, <2>1 DEF ReportRows, ReportTypes, Wrote
<1>11. InFunnelOrder'
  BY <1>5 DEF ReportRows, InFunnelOrder
<1>12. Referred'
  BY <1>5, <1>7, <1>8, <1>9 DEF ReportRows, Referred
<1>13. \A u \in Clients : HasLead(u) => /\ HasLead(u)' /\ leadOf'[u].day = leadOf[u].day
                                        /\ leadOf'[u].distributor = leadOf[u].distributor
  BY <1>7, <1>8, <1>9
<1>14. ToldToTheirs'
  <2>. SUFFICES ASSUME NEW a \in activities PROVE HasLead(a.client)' /\ a.actor = Keeper(a.client)'
    BY <1>5 DEF ToldToTheirs
  <2>1. a.client \in Clients /\ HasLead(a.client) /\ a.actor = Keeper(a.client)
    BY LeadShape DEF ReportRows, ReportTypes, ToldToTheirs
  <2>. QED
    BY <1>13, <2>1 DEF Keeper
<1>15. ReportRows' /\ ReportsGrow
  BY <1>5, <1>9, <1>10, <1>11, <1>12, <1>13, <1>14, WroteIsSound
<1>16. c \in ReportCalls
  BY <1>2, <1>4 DEF ReportCalls, MoveCall, AcquireCall
<1>17. ReportHolds(c)
  BY <1>1, <1>2, <1>4 DEF ReportHolds
<1>18. ReportServes'
  BY <1>5, <1>15, <1>16, <1>17, ReportMoves, ReportStillHolds DEF ReportRows
<1>. QED
  BY <1>15, <1>18 DEF ReportsKept

LEMMA MoveAcquisitionsIsSound ==
    ASSUME ReportRows, ReportServes, NEW h \in Handlers, MoveAcquisitions(h)
    PROVE  ReportsKept
<1>1. PICK b \in ReportCalls : b = call[h] /\ ReportHolds(b)
  BY DEF ReportServes
<1>2. b \in AcquireCall /\ b.at = "acquire"
  BY <1>1, ReportCallShape DEF MoveAcquisitions
<1>3. b.users \subseteq Clients /\ \A u \in b.users : HasLead(u)
  BY <1>1, <1>2 DEF AcquireCall, ReportHolds
<1>4. /\ End(h) /\ Wrote
      /\ acquisition' = [u \in Clients |->
             IF u \in b.users /\ Acquired(u) THEN [acquisition[u] EXCEPT !.distributor = SuperAdmin]
                                             ELSE acquisition[u]]
      /\ UNCHANGED <<leadOf, verified, past, paid, answer, orders, payments, activities, distributors>>
  BY <1>1 DEF MoveAcquisitions
<1>5. \A u \in b.users : Acquired(u) => acquisition'[u] \in Acquisition
  <2>. SUFFICES ASSUME NEW u \in b.users, Acquired(u) PROVE acquisition'[u] \in Acquisition
    OBVIOUS
  <2>1. acquisition[u] \in Acquisition
    BY <1>3, LeadTyped DEF ReportRows
  <2>2. acquisition'[u] = [acquisition[u] EXCEPT !.distributor = SuperAdmin]
    BY <1>3, <1>4
  <2>. QED
    BY <2>1, <2>2 DEF Acquisition
<1>6. \A u \in Clients : ~(u \in b.users /\ Acquired(u)) => acquisition'[u] = acquisition[u]
  BY <1>4
<1>7. \A u \in Clients : HasLead(u)' = HasLead(u) /\ Acquired(u)' = Acquired(u)
  BY <1>4, <1>5, <1>6, LeadShape DEF HasLead, Acquired
<1>8. ReportTypes'
  <2>1. acquisition' \in [Clients -> Acquisition \cup {NoAcquisition}]
    <3>1. \A u \in Clients : acquisition'[u] \in Acquisition \cup {NoAcquisition}
      BY <1>5, <1>6 DEF ReportRows, ReportTypes
    <3>2. acquisition' = [u \in Clients |-> acquisition'[u]]
      BY <1>4
    <3>. QED
      BY <3>1, <3>2
  <2>. QED
    BY <1>4, <2>1 DEF ReportRows, ReportTypes, Wrote
<1>9. InFunnelOrder' /\ ToldToTheirs'
  BY <1>4 DEF ReportRows, InFunnelOrder, ToldToTheirs, Keeper, HasLead
<1>10. Referred'
  BY <1>3, <1>4, <1>6, <1>7 DEF ReportRows, Referred
<1>11. ReportRows' /\ ReportsGrow
  BY <1>4, <1>7, <1>8, <1>9, <1>10, WroteIsSound
<1>. QED
  BY <1>4, <1>11, WriteKeeps

----------------------------------------------------------------------------
(* The reports: what is counted *)

\* Leads by their status.
LEMMA StatusTotal ==
    ASSUME ReportTypes, NEW us, us \subseteq AllLeads
    PROVE  /\ IsFiniteSet(us) /\ Cardinality(us) \in Nat
           /\ Total(ByStatus(us)) = Cardinality(us)
<1>1. IsFiniteSet(us)
  BY CountsFinite, FS_Subset
<1>2. \A u \in us : u \in Clients /\ leadOf[u].status \in LeadStatuses
  BY LeadTyped, LeadShape DEF AllLeads
<1>3. PICK key : key = [u \in us |-> leadOf[u].status]
  OBVIOUS
<1>4. key \in [us -> LeadStatuses]
  BY <1>2, <1>3
<1>5. DOMAIN ByStatus(us) = LeadStatuses
  BY DEF ByStatus
<1>6. ASSUME NEW s \in LeadStatuses PROVE ByStatus(us)[s] = Cardinality({u \in us : key[u] = s})
  <2>1. {u \in us : key[u] = s} = {u \in us : leadOf[u].status = s}
    BY <1>3
  <2>. QED
    BY <2>1 DEF ByStatus
<1>7. Total(ByStatus(us)) = Cardinality(us)
  BY <1>1, <1>4, <1>5, <1>6, TotalByKey
<1>. QED
  BY <1>1, <1>7, FS_CardinalityType

\* Leads by where they came from.
LEMMA SourceTotal ==
    ASSUME ReportTypes, NEW range
    PROVE  Total(LeadsBySource(range)) = Cardinality(Within(AllLeads, range))
<1>1. PICK all : all = Within(AllLeads, range)
  OBVIOUS
<1>2. PICK key : key = [u \in all |-> IF leadOf[u].distributor = Nobody THEN "direct" ELSE "viaDistributor"]
  OBVIOUS
<1>3. PICK X : X = {"direct", "viaDistributor"}
  OBVIOUS
<1>4. key \in [all -> X] /\ IsFiniteSet(all)
  BY <1>1, <1>2, <1>3, CountsFinite
<1>5. PICK counts : counts = LeadsBySource(range)
  OBVIOUS
<1>6. counts = [direct |-> Cardinality({u \in all : leadOf[u].distributor = Nobody}),
                viaDistributor |-> Cardinality({u \in all : leadOf[u].distributor # Nobody})]
  BY <1>1, <1>5 DEF LeadsBySource, AllLeads
<1>7. /\ {u \in all : key[u] = "direct"} = {u \in all : leadOf[u].distributor = Nobody}
      /\ {u \in all : key[u] = "viaDistributor"} = {u \in all : leadOf[u].distributor # Nobody}
  BY <1>2
<1>8. DOMAIN counts = X /\ \A x \in X : counts[x] = Cardinality({u \in all : key[u] = x})
  <2>1. DOMAIN counts = X
    BY <1>3, <1>6
  <2>2. /\ counts["direct"] = Cardinality({u \in all : leadOf[u].distributor = Nobody})
        /\ counts["viaDistributor"] = Cardinality({u \in all : leadOf[u].distributor # Nobody})
    BY <1>6
  <2>3. /\ counts["direct"] = Cardinality({u \in all : key[u] = "direct"})
        /\ counts["viaDistributor"] = Cardinality({u \in all : key[u] = "viaDistributor"})
    BY <1>7, <2>2
  <2>. QED
    BY <1>3, <2>1, <2>3
<1>9. Total(counts) = Cardinality(all)
  BY <1>4, <1>8, TotalByKey
<1>. QED
  BY <1>1, <1>5, <1>9

\* Payments by their type.
LEMMA TypeTotal ==
    ASSUME ReportTypes, NEW range
    PROVE  Total(RevenueByType(range)) = Cardinality(Revenue(range))
<1>1. PICK key : key = [p \in Revenue(range) |-> p.type]
  OBVIOUS
<1>2. key \in [Revenue(range) -> PaymentTypes]
  BY <1>1, LeadShape DEF Revenue, ReportTypes
<1>3. DOMAIN RevenueByType(range) = PaymentTypes
  BY DEF RevenueByType
<1>4. ASSUME NEW t \in PaymentTypes
      PROVE  RevenueByType(range)[t] = Cardinality({p \in Revenue(range) : key[p] = t})
  <2>1. {p \in Revenue(range) : key[p] = t} = {p \in Revenue(range) : p.type = t}
    BY <1>1
  <2>. QED
    BY <2>1 DEF RevenueByType
<1>. QED
  BY <1>2, <1>3, <1>4, CountsFinite, TotalByKey

\* Payments by the period of a chart: all of them when the chart is by day.
LEMMA ChartTotal ==
    ASSUME ReportTypes, NEW range \in CachedRanges
    PROVE  /\ Total(RevenueChart(range)) \in Nat
           /\ AutoGranularity(range) = "daily" => Total(RevenueChart(range)) = Cardinality(Revenue(range))
<1>1. PICK g, R, X : g = AutoGranularity(range) /\ R = Revenue(range) /\ X = GeneratePeriods(range)
  OBVIOUS
<1>2. IsFiniteSet(R) /\ \A p \in R : p.day \in range[1]..range[2]
  BY <1>1, CountsFinite DEF Revenue
<1>3. PICK key, Y : /\ key = [p \in R |-> FormatPeriod(p.day, g)]
                    /\ Y = {FormatPeriod(p.day, g) : p \in R}
  OBVIOUS
<1>4. key \in [R -> Y]
  BY <1>3
<1>5. PICK counts : counts = RevenueChart(range)
  OBVIOUS
<1>6. counts = [x \in X |-> Cardinality({p \in R : FormatPeriod(p.day, g) = x})]
  BY <1>1, <1>5 DEF RevenueChart
<1>7. DOMAIN counts = X
  BY <1>6
<1>8. ASSUME NEW x \in X PROVE counts[x] = Cardinality({p \in R : key[p] = x})
  <2>1. {p \in R : key[p] = x} = {p \in R : FormatPeriod(p.day, g) = x}
    BY <1>3
  <2>. QED
    BY <1>6, <2>1
<1>9. Total(counts) = Cardinality({p \in R : key[p] \in X})
  BY <1>2, <1>4, <1>7, <1>8, TotalOfSome
<1>10. Cardinality({p \in R : key[p] \in X}) \in Nat
  BY <1>2, FS_Subset, FS_CardinalityType
<1>11. ASSUME g = "daily" PROVE {p \in R : key[p] \in X} = R
  <2>. SUFFICES ASSUME NEW p \in R PROVE key[p] \in X
    OBVIOUS
  <2>1. FormatPeriod(p.day, "daily") \in X
    BY <1>1, <1>2, <1>11, DayVisited
  <2>. QED
    BY <1>3, <1>11, <2>1
<1>. QED
  BY <1>1, <1>5, <1>9, <1>10, <1>11

\* What the two reads of a report count.
LEMMA ReadsCount ==
    ASSUME ReportTypes, NEW kind \in Kinds, NEW range \in CachedRanges
    PROVE  /\ FirstRead(kind, range) \in Nat /\ SecondRead(kind, range) \in Nat
           /\ kind = "dashboard" => /\ FirstRead(kind, range) = LifetimeTotals
                                    /\ SecondRead(kind, range) <= LifetimeTotals
           /\ kind = "leads" => /\ FirstRead(kind, range) = Now("leads", range)
                                /\ SecondRead(kind, range) = Now("leads", range)
           /\ kind = "revenue" /\ AutoGranularity(range) = "daily" =>
                  /\ FirstRead(kind, range) = Now("revenue", range)
                  /\ SecondRead(kind, range) = Now("revenue", range)
<1>1. Within(AllLeads, range) \subseteq AllLeads
  BY DEF Within
<1>2. /\ Cardinality(Within(AllLeads, range)) \in Nat
      /\ Total(ByStatus(Within(AllLeads, range))) = Cardinality(Within(AllLeads, range))
  BY <1>1, StatusTotal
<1>3. CASE kind = "dashboard"
  <2>1. FirstRead(kind, range) = LifetimeTotals
    BY <1>3 DEF FirstRead
  <2>2. SecondRead(kind, range) = Cardinality(Within(AllLeads, range))
    BY <1>3 DEF SecondRead, PeriodTotals, AllLeads
  <2>. QED
    BY <1>2, <1>3, <2>1, <2>2, CountsFinite
<1>4. CASE kind = "leads"
  <2>1. FirstRead(kind, range) = Cardinality(Within(AllLeads, range))
    BY <1>2, <1>4 DEF FirstRead, LeadsByStatus, AllLeads
  <2>2. SecondRead(kind, range) = Cardinality(Within(AllLeads, range))
    BY <1>4, SourceTotal DEF SecondRead
  <2>3. Now(kind, range) = Cardinality(Within(AllLeads, range))
    BY <1>4 DEF Now
  <2>. QED
    BY <1>2, <1>4, <2>1, <2>2, <2>3
<1>5. CASE kind = "revenue"
  <2>1. FirstRead(kind, range) = Cardinality(Revenue(range))
    BY <1>5, TypeTotal DEF FirstRead
  <2>2. SecondRead(kind, range) = Total(RevenueChart(range))
    BY <1>5 DEF SecondRead
  <2>3. Now(kind, range) = Cardinality(Revenue(range))
    BY <1>5 DEF Now
  <2>4. Cardinality(Revenue(range)) \in Nat
    BY CountsFinite, FS_CardinalityType
  <2>. QED
    BY <1>5, <2>1, <2>2, <2>3, <2>4, ChartTotal
<1>. QED
  BY <1>3, <1>4, <1>5 DEF Kinds

LEMMA BeginReportIsSound ==
    ASSUME ReportRows, ReportServes, NEW h \in Handlers, NEW kind \in Kinds, NEW range \in CachedRanges,
           BeginReport(h, kind, range)
    PROVE  ReportsKept
<1>1. PICK c \in AskCall : c = [at |-> "report", kind |-> kind, range |-> range]
  BY DEF AskCall
<1>2. UNCHANGED reportVars /\ call' = [call EXCEPT ![h] = c]
  BY <1>1 DEF BeginReport, Begin
<1>3. c \in ReportCalls
  BY DEF ReportCalls
<1>4. ReportHolds(c)
  BY <1>1 DEF ReportHolds
<1>. QED
  BY <1>2, <1>3, <1>4, ReportReads

LEMMA ReadOnceIsSound ==
    ASSUME ReportRows, ReportServes, NEW h \in Handlers, NEW part \in {"first", "second"}, ReadOnce(h, part)
    PROVE  ReportsKept
<1>1. PICK b \in ReportCalls : b = call[h]
  BY DEF ReportServes
<1>2. b \in AskCall
  BY <1>1, ReportCallShape DEF ReadOnce
<1>3. b.kind \in Kinds /\ b.range \in CachedRanges
  BY <1>2 DEF AskCall
<1>4. PICK n : n = IF part = "first" THEN FirstRead(b.kind, b.range) ELSE SecondRead(b.kind, b.range)
  OBVIOUS
<1>5. PICK c : c = [at |-> "half", kind |-> b.kind, range |-> b.range,
                    earlier |-> part, count |-> n, rows |-> rows]
  OBVIOUS
<1>6. UNCHANGED reportVars /\ call' = [call EXCEPT ![h] = c] /\ (b.kind = "dashboard" => part = "first")
  BY <1>1, <1>4, <1>5 DEF ReadOnce, Then, Reading
<1>7. ReportTypes /\ rows \in Nat
  BY DEF ReportRows, ReportTypes
<1>8. n \in Nat
  BY <1>3, <1>4, <1>7, ReadsCount
<1>9. c \in HalfCall
  BY <1>3, <1>5, <1>7, <1>8 DEF HalfCall
<1>10. HalfHolds(c)
  <2>1. c.at = "half" /\ c.kind = b.kind /\ c.range = b.range /\ c.earlier = part /\ c.count = n /\ c.rows = rows
    BY <1>5
  <2>2. c.kind = "dashboard" => c.earlier = "first" /\ c.count = LifetimeTotals
    BY <1>3, <1>4, <1>6, <1>7, <2>1, ReadsCount
  <2>3. c.kind = "leads" => c.count = Now("leads", c.range)
    BY <1>3, <1>4, <1>7, <2>1, ReadsCount
  <2>4. c.kind = "revenue" /\ AutoGranularity(c.range) = "daily" => c.count = Now("revenue", c.range)
    BY <1>3, <1>4, <1>7, <2>1, ReadsCount
  <2>5. c.kind = "leads" => c.count <= Now("leads", c.range)
    BY <1>8, <2>1, <2>3
  <2>. QED
    BY <1>7, <2>1, <2>2, <2>3, <2>4, <2>5 DEF HalfHolds
<1>11. c \in ReportCalls
  BY <1>9 DEF ReportCalls
<1>12. ReportHolds(c)
  BY <1>5, <1>10 DEF ReportHolds
<1>. QED
  BY <1>6, <1>11, <1>12, ReportReads

\* The cache changes, and no row.
LEMMA ReportKept ==
    ASSUME ReportRows, UNCHANGED <<tables, rows>>, DOMAIN reports' = DOMAIN reports, ReportAddsUp'
    PROVE  ReportRows' /\ ReportsGrow
<1>1. ReportTypes' /\ ReportsGrow
  BY DEF ReportRows, ReportTypes, ReportsGrow, tables, HasLead, Acquired
<1>2. InFunnelOrder' /\ Referred' /\ ToldToTheirs'
  BY DEF ReportRows, InFunnelOrder, Referred, ToldToTheirs, Keeper, tables, HasLead, Acquired
<1>. QED
  BY <1>1, <1>2 DEF ReportRows

LEMMA StoreReportIsSound ==
    ASSUME ReportRows, ReportServes, NEW h \in Handlers, StoreReport(h)
    PROVE  ReportsKept
<1>1. PICK b \in ReportCalls : b = call[h] /\ ReportHolds(b)
  BY DEF ReportServes
<1>2. b \in HalfCall /\ b.at = "half"
  BY <1>1, ReportCallShape DEF StoreReport
<1>3. b.kind \in Kinds /\ b.range \in CachedRanges /\ b.count \in Nat /\ HalfHolds(b)
  BY <1>1, <1>2 DEF HalfCall, ReportHolds
<1>4. PICK n : n = IF b.earlier = "first" THEN SecondRead(b.kind, b.range) ELSE FirstRead(b.kind, b.range)
  OBVIOUS
<1>5. PICK r : r = [earlier |-> b.count, later |-> n, undisturbed |-> rows = b.rows]
  OBVIOUS
<1>6. PICK key : key = <<b.kind, b.range>>
  OBVIOUS
<1>7. /\ End(h)
      /\ reports' = [reports EXCEPT ![key] = r]
      /\ UNCHANGED <<tables, rows>>
  <2>1. Reading(h, IF b.earlier = "first" THEN "second" ELSE "first") = n
    BY <1>1, <1>4 DEF Reading
  <2>. QED
    BY <1>1, <1>5, <1>6, <2>1 DEF StoreReport
<1>8. ReportTypes /\ rows \in Nat
  BY DEF ReportRows, ReportTypes
<1>9. DOMAIN reports' = DOMAIN reports /\ \A k \in DOMAIN reports : k # key => reports'[k] = reports[k]
  BY <1>7
<1>10. key \in DOMAIN reports /\ reports'[key] = r /\ key[1] = b.kind /\ key[2] = b.range
  BY <1>3, <1>6, <1>7, <1>8 DEF ReportTypes
<1>11. b.kind = "dashboard" => (r.undisturbed => r.later <= r.earlier)
  <2>. SUFFICES ASSUME b.kind = "dashboard", rows = b.rows PROVE n <= b.count
    BY <1>5
  <2>1. b.earlier = "first" /\ b.count = LifetimeTotals
    BY <1>3 DEF HalfHolds
  <2>. QED
    BY <1>3, <1>4, <1>8, <2>1, ReadsCount
<1>12. b.kind = "leads" => r.earlier <= r.later /\ (r.undisturbed => r.earlier = r.later)
  <2>. SUFFICES ASSUME b.kind = "leads" PROVE b.count <= n /\ (rows = b.rows => b.count = n)
    BY <1>5
  <2>1. n = Now("leads", b.range)
    BY <1>3, <1>4, <1>8, ReadsCount
  <2>. QED
    BY <1>3, <2>1 DEF HalfHolds
<1>13. b.kind = "revenue" => (AutoGranularity(b.range) = "daily" /\ r.undisturbed => r.earlier = r.later)
  <2>. SUFFICES ASSUME b.kind = "revenue", AutoGranularity(b.range) = "daily", rows = b.rows
                PROVE  b.count = n
    BY <1>5
  <2>1. n = Now("revenue", b.range)
    BY <1>3, <1>4, <1>8, ReadsCount
  <2>. QED
    BY <1>3, <2>1 DEF HalfHolds
<1>14. ReportAddsUp'
  <2>. DEFINE Right(k, s) == CASE k[1] = "dashboard" -> s.undisturbed => s.later <= s.earlier
                               [] k[1] = "leads" -> s.earlier <= s.later /\ (s.undisturbed => s.earlier = s.later)
                               [] k[1] = "revenue" ->
                                      AutoGranularity(k[2]) = "daily" /\ s.undisturbed => s.earlier = s.later
  <2>1. \A k \in DOMAIN reports : reports[k] # Null => Right(k, reports[k])
    BY DEF ReportRows, ReportAddsUp
  <2>2. Right(key, r)
    <3>1. key[1] = "dashboard" \/ key[1] = "leads" \/ key[1] = "revenue"
      BY <1>3, <1>10 DEF Kinds
    <3>. QED
      BY <1>10, <1>11, <1>12, <1>13, <3>1
  <2>. HIDE DEF Right
  <2>3. \A k \in DOMAIN reports' : reports'[k] # Null => Right(k, reports'[k])
    BY <1>9, <1>10, <2>1, <2>2
  <2>. QED
    BY <2>3 DEF ReportAddsUp, Right
<1>15. ReportRows' /\ ReportsGrow
  BY <1>7, <1>9, <1>14, ReportKept
<1>. QED
  BY <1>7, <1>15, WriteKeeps

LEMMA ExpireReportIsSound ==
    ASSUME ReportRows, ReportServes, NEW k \in DOMAIN reports, ExpireReport(k)
    PROVE  ReportsKept
<1>1. reports' = [reports EXCEPT ![k] = Null] /\ UNCHANGED <<service, tables, rows>>
  BY DEF ExpireReport
<1>2. DOMAIN reports' = DOMAIN reports /\ ReportAddsUp'
  BY <1>1 DEF ReportRows, ReportAddsUp
<1>3. ReportRows' /\ ReportsGrow
  BY <1>1, <1>2, ReportKept
<1>. QED
  BY <1>1, <1>3, WriteKeeps

\* Days do not go back, and are those on which something may happen.
DaysGoOn == today' \in RowDays /\ today <= today' /\ requests' \in Nat

\* Every step of the reports keeps their invariant.
LEMMA ReportStep ==
    ASSUME ReportRows, ReportServes, today \in RowDays, requests \in Nat, ReportsNext
    PROVE  ReportsKept /\ DaysGoOn
<1>0. /\ \A h, c : Begin(h, c) => DaysGoOn
      /\ \A h, c : Then(h, c) => DaysGoOn
      /\ \A h : End(h) => DaysGoOn
      /\ AskOnce => DaysGoOn
      /\ UNCHANGED service => DaysGoOn
  <2>1. today \in Nat
    BY ReportsAssumption
  <2>2. today' = today /\ requests' \in Nat => DaysGoOn
    BY <2>1 DEF DaysGoOn
  <2>. QED
    BY <2>2 DEF Begin, Then, End, AskOnce, Ask, service
<1>1. ASSUME NEW h \in Handlers, NEW u \in Clients, ClientGoesOn(h, u) PROVE ReportsKept /\ DaysGoOn
  <2>1. ASSUME NEW d \in Referrers \cup {Nobody}, NEW source \in Sources \cup {Null},
               BeginUpsertAcquisition(h, u, d, source)
        PROVE  ReportsKept /\ DaysGoOn
    BY <1>0, <2>1, BeginUpsertAcquisitionIsSound DEF BeginUpsertAcquisition
  <2>2. CASE BeginCreateLead(h, u)
    BY <1>0, <2>2, BeginCreateLeadIsSound DEF BeginCreateLead
  <2>3. ASSUME NEW p \in Referrers \cup {SuperAdmin}, NEW day \in {day \in RowDays : day >= today},
               BeginSchedule(h, p, u, day)
        PROVE  ReportsKept /\ DaysGoOn
    BY <1>0, <2>3, BeginScheduleIsSound DEF BeginSchedule
  <2>. QED
    BY <1>1, <2>1, <2>2, <2>3 DEF ClientGoesOn
<1>2. ASSUME NEW u \in Clients, ClientWrites(u) PROVE ReportsKept /\ DaysGoOn
  <2>1. DaysGoOn
    BY <1>0, <1>2 DEF ClientWrites, AttachReferralCode, VerifyPhone, PassPhoneGate, CreateOrder, SaveDecision,
                      ChangeStatus, Write
  <2>2. ASSUME NEW d \in Referrers, AttachReferralCode(u, d) PROVE ReportsKept
    BY <2>2, AttachReferralCodeIsSound
  <2>3. CASE VerifyPhone(u) \/ PassPhoneGate(u)
    BY <2>1, <2>3, VerifyPhoneIsSound, PassPhoneGateIsSound
  <2>4. ASSUME NEW type \in PaymentTypes, CreateOrder(u, type) PROVE ReportsKept
    BY <2>4, CreateOrderIsSound
  <2>5. ASSUME NEW yesOrNo \in {"YES", "NO"}, SaveDecision(u, yesOrNo) PROVE ReportsKept
    BY <2>5, SaveDecisionIsSound
  <2>6. ASSUME NEW status \in LeadStatuses, ChangeStatus(u, status) PROVE ReportsKept
    BY <2>6, ChangeStatusIsSound
  <2>. QED
    BY <1>2, <2>1, <2>2, <2>3, <2>4, <2>5, <2>6 DEF ClientWrites
<1>3. ASSUME NEW h \in Handlers, FirstTouch(h) \/ InsertLead(h) \/ WriteFollowup(h) \/ InsertActivity(h)
      PROVE  ReportsKept /\ DaysGoOn
  <2>1. DaysGoOn
    BY <1>0, <1>3 DEF FirstTouch, InsertLead, WriteFollowup, InsertActivity
  <2>. QED
    BY <1>3, <2>1, FirstTouchIsSound, InsertLeadIsSound, WriteFollowupIsSound, InsertActivityIsSound
<1>4. ASSUME NEW h \in Handlers, NEW kind \in Kinds, NEW range \in CachedRanges, BeginReport(h, kind, range)
      PROVE  ReportsKept /\ DaysGoOn
  BY <1>0, <1>4, BeginReportIsSound DEF BeginReport
<1>5. ASSUME NEW h \in Handlers, NEW part \in {"first", "second"}, ReadOnce(h, part)
      PROVE  ReportsKept /\ DaysGoOn
  BY <1>0, <1>5, ReadOnceIsSound DEF ReadOnce
<1>6. ASSUME NEW h \in Handlers, StoreReport(h) PROVE ReportsKept /\ DaysGoOn
  BY <1>0, <1>6, StoreReportIsSound DEF StoreReport
<1>7. ASSUME NEW h \in Handlers, NEW d \in Referrers, BeginHandOver(h, d) PROVE ReportsKept /\ DaysGoOn
  BY <1>0, <1>7, BeginHandOverIsSound DEF BeginHandOver
<1>8. ASSUME NEW h \in Handlers, MoveLeads(h) \/ MoveAcquisitions(h) PROVE ReportsKept /\ DaysGoOn
  <2>1. DaysGoOn
    BY <1>0, <1>8 DEF MoveLeads, MoveAcquisitions
  <2>. QED
    BY <1>8, <2>1, MoveLeadsIsSound, MoveAcquisitionsIsSound
<1>9. ASSUME NEW h \in Handlers, NEW p \in orders, BeginExpirePayment(h, p) PROVE ReportsKept /\ DaysGoOn
  BY <1>0, <1>9, BeginExpirePaymentIsSound DEF BeginExpirePayment
<1>10. ASSUME NEW h \in Handlers, ExpirePayment(h) PROVE ReportsKept /\ DaysGoOn
  BY <1>0, <1>10, ExpirePaymentIsSound DEF ExpirePayment
<1>11. ASSUME NEW p \in orders, Capture(p) PROVE ReportsKept /\ DaysGoOn
  <2>1. UNCHANGED service
    BY <1>11 DEF Capture
  <2>. QED
    BY <1>0, <1>11, <2>1, CaptureIsSound
<1>12. ASSUME NEW d \in Referrers, ChangeRole(d) PROVE ReportsKept /\ DaysGoOn
  BY <1>0, <1>12, ChangeRoleIsSound DEF ChangeRole, Write
<1>13. ASSUME NEW k \in DOMAIN reports, ExpireReport(k) PROVE ReportsKept /\ DaysGoOn
  <2>1. UNCHANGED service
    BY <1>13 DEF ExpireReport
  <2>. QED
    BY <1>0, <1>13, <2>1, ExpireReportIsSound
<1>14. ASSUME NEW day \in RowDays, SkipTo(day) PROVE ReportsKept /\ DaysGoOn
  <2>1. /\ today' = day /\ today < day /\ requests' = requests /\ call' = call /\ UNCHANGED reportVars
        /\ today \in Nat /\ day \in Nat
    BY <1>14, ReportsAssumption DEF SkipTo
  <2>2. ReportRows' /\ ReportsGrow
    BY <2>1, ReportRowsStay
  <2>3. ReportServes'
    BY <2>1, <2>2, ReportStays DEF ReportRows
  <2>4. DaysGoOn
    BY <2>1 DEF DaysGoOn
  <2>. QED
    BY <2>2, <2>3, <2>4 DEF ReportsKept
<1>. QED
  BY <1>1, <1>2, <1>3, <1>4, <1>5, <1>6, <1>7, <1>8, <1>9, <1>10, <1>11, <1>12, <1>13, <1>14
     DEF ReportsNext, AnalyticsAdminRoutes, SuspendUser

----------------------------------------------------------------------------
(* The reports: what the pages show *)

\* No lead is of a day to come.
LeadsPast == \A u \in Clients : HasLead(u) => leadOf[u].day <= today

\* A distributor's leads are those that are assigned to him and those that the
\* administrator took over.
LEMMA LeadsOfAre ==
    ASSUME ReportRows, NEW d \in Referrers
    PROVE  /\ LeadsOf(d) \subseteq AllLeads /\ LeadsOf(d) \subseteq Clients
           /\ AssignedTo(d) \subseteq LeadsOf(d)
           /\ LeadsOf(d) = AssignedTo(d) \cup {u \in LeadsOf(d) : leadOf[u].assigned = SuperAdmin}
           /\ \A u \in LeadsOf(d) : leadOf[u].status \in LeadStatuses /\ leadOf[u].day \in Nat
           /\ IsFiniteSet(LeadsOf(d)) /\ Cardinality(LeadsOf(d)) \in Nat
<1>1. LeadsOf(d) \subseteq AllLeads /\ LeadsOf(d) \subseteq Clients
  BY DEF LeadsOf, AllLeads
<1>2. \A u \in AllLeads : leadOf[u].assigned \in {SuperAdmin, leadOf[u].distributor}
  BY DEF ReportRows, Referred, AllLeads
<1>3. AssignedTo(d) \subseteq LeadsOf(d)
  BY <1>2, ReportsAssumption DEF AssignedTo, LeadsOf, AllLeads
<1>4. \A u \in LeadsOf(d) : u \in AssignedTo(d) \/ leadOf[u].assigned = SuperAdmin
  BY <1>2 DEF AssignedTo, LeadsOf, AllLeads
<1>5. \A u \in LeadsOf(d) : leadOf[u].status \in LeadStatuses /\ leadOf[u].day \in Nat
  BY LeadTyped, LeadShape DEF ReportRows, LeadsOf
<1>. QED
  BY <1>1, <1>3, <1>4, <1>5, StatusTotal DEF ReportRows

\* What a page that starts some days back leaves out.
LEMMA OlderThan ==
    ASSUME ReportRows, LeadsPast, today \in Nat, NEW us, us \subseteq AllLeads, NEW n \in Nat
    PROVE  Cardinality(us) - Cardinality(Within(us, <<today - n, today>>)) =
               Cardinality({u \in us : today - leadOf[u].day > n})
<1>1. \A u \in us : leadOf[u].day \in Nat /\ leadOf[u].day <= today
  BY LeadTyped, LeadShape DEF ReportRows, LeadsPast, AllLeads
<1>2. PICK range : range = <<today - n, today>>
  OBVIOUS
<1>3. range[1] = today - n /\ range[2] = today
  BY <1>2
<1>4. Within(us, range) = {u \in us : ~(today - leadOf[u].day > n)}
  BY <1>1, <1>3 DEF Within
<1>5. us \ Within(us, range) = {u \in us : today - leadOf[u].day > n}
  BY <1>4
<1>6. IsFiniteSet(us) /\ Within(us, range) \subseteq us
  BY <1>4, StatusTotal DEF ReportRows
<1>7. PICK a, b, c : a = Cardinality(us) /\ b = Cardinality(Within(us, range))
                     /\ c = Cardinality(us \ Within(us, range))
  OBVIOUS
<1>8. a \in Nat /\ b \in Nat /\ c \in Nat /\ a = b + c
  BY <1>6, <1>7, SplitCard
<1>9. a - b = c
  BY <1>8
<1>. QED
  BY <1>2, <1>5, <1>7, <1>9

LEMMA PagesHold ==
    ASSUME ReportRows, LeadsPast, today \in Nat
    PROVE  PagesAgree
<1>1. ASSUME NEW d \in distributors
      PROVE  LET always == GetUtmAnalytics(d, <<0, today>>).total
                 own == GetDistributorLeads(d, LeadStatuses)
             IN  /\ {GetDashboard(d).totalLeads, Cardinality(ListUsers(d, "any")),
                     ListDistributors[d].totalLeads, GetDistributorDetail(d).totalLeads,
                     Cardinality(GetLeadsForDistributor(d, LeadStatuses)),
                     Cardinality({u \in Clients : ListAllUsers[u].referredBy = d})} = {always}
                 /\ \A range \in Ranges \cup {<<0, today>>} :
                        {GetAnalyticsOverview(d, range).pipeline,
                         GetUsersAnalytics(d, range).totalUsers} = {GetUtmAnalytics(d, range).total}
                 /\ always - GetUtmAnalytics(d, LastDays).total =
                        Cardinality({u \in LeadsOf(d) : today - leadOf[u].day > Window})
                 /\ always - Total(GetDistributorDetail(d).leadsOverTime) =
                        Cardinality({u \in LeadsOf(d) : today - leadOf[u].day > YearLength})
                 /\ GetDashboard(d).customers = GetUsersAnalytics(d, <<0, today>>).customers
                 /\ GetLeadStatusHistory(d) = own /\ GetDistributorLead(d) = own
                 /\ {u \in Clients : GetUserDetail(d, u)} =
                        own \cup {u \in LeadsOf(d) : leadOf[u].assigned = SuperAdmin}
  <2>1. PICK us, n : us = LeadsOf(d) /\ n = Cardinality(us)
    OBVIOUS
  <2>2. d \in Referrers
    BY DEF ReportRows, ReportTypes
  <2>3. /\ us \subseteq AllLeads /\ us \subseteq Clients /\ AssignedTo(d) \subseteq us
        /\ us = AssignedTo(d) \cup {u \in us : leadOf[u].assigned = SuperAdmin}
        /\ \A u \in us : leadOf[u].status \in LeadStatuses /\ leadOf[u].day \in Nat
        /\ IsFiniteSet(us) /\ n \in Nat
    BY <2>1, <2>2, LeadsOfAre
  <2>4. \A range : /\ Total(ByStatus(Within(us, range))) = Cardinality(Within(us, range))
                   /\ IsFiniteSet(Within(us, range))
    <3>. SUFFICES ASSUME NEW range
                  PROVE  /\ Total(ByStatus(Within(us, range))) = Cardinality(Within(us, range))
                         /\ IsFiniteSet(Within(us, range))
      OBVIOUS
    <3>1. Within(us, range) \subseteq AllLeads
      BY <2>3 DEF Within
    <3>. QED
      BY <3>1, StatusTotal DEF ReportRows
  <2>5. \A range : GetUtmAnalytics(d, range).total = Cardinality(Within(us, range))
    BY <2>1 DEF GetUtmAnalytics
  <2>6. Within(us, <<0, today>>) = us
    <3>1. \A u \in us : leadOf[u].day \in 0..today
      BY <2>3 DEF LeadsPast, AllLeads
    <3>2. PICK range : range = <<0, today>>
      OBVIOUS
    <3>3. range[1] = 0 /\ range[2] = today
      BY <3>2
    <3>4. Within(us, range) = us
      BY <3>1, <3>3 DEF Within
    <3>. QED
      BY <3>2, <3>4
  <2>7. GetUtmAnalytics(d, <<0, today>>).total = n
    BY <2>1, <2>5, <2>6
  <2>8. {GetDashboard(d).totalLeads, Cardinality(ListUsers(d, "any")),
         ListDistributors[d].totalLeads, GetDistributorDetail(d).totalLeads,
         Cardinality(GetLeadsForDistributor(d, LeadStatuses)),
         Cardinality({u \in Clients : ListAllUsers[u].referredBy = d})} = {n}
    <3>1. GetDashboard(d).totalLeads = n
      <4>1. Total(ByStatus(us)) = n
        BY <2>1, <2>3, StatusTotal DEF ReportRows
      <4>. QED
        BY <2>1, <4>1 DEF GetDashboard
    <3>2. Cardinality(ListUsers(d, "any")) = n
      <4>1. BuildFunnelStageFilter("any") = Clients
        BY DEF BuildFunnelStageFilter
      <4>2. ListUsers(d, "any") = us
        BY <2>1, <2>3, <4>1 DEF ListUsers
      <4>. QED
        BY <2>1, <4>2
    <3>3. ListDistributors[d].totalLeads = n
      BY <2>1 DEF ListDistributors
    <3>4. GetDistributorDetail(d).totalLeads = n
      BY <2>1 DEF GetDistributorDetail
    <3>5. Cardinality(GetLeadsForDistributor(d, LeadStatuses)) = n
      <4>1. GetLeadsForDistributor(d, LeadStatuses) = us
        BY <2>1, <2>3 DEF GetLeadsForDistributor
      <4>. QED
        BY <2>1, <4>1
    <3>6. Cardinality({u \in Clients : ListAllUsers[u].referredBy = d}) = n
      <4>1. \A u \in Clients : ListAllUsers[u].referredBy = MapReferredBy(u)
        BY DEF ListAllUsers
      <4>2. \A u \in Clients : MapReferredBy(u) = d <=> u \in us
        BY <2>1, <2>2, ReportsAssumption DEF MapReferredBy, LeadsOf
      <4>3. {u \in Clients : ListAllUsers[u].referredBy = d} = us
        BY <2>3, <4>1, <4>2
      <4>. QED
        BY <2>1, <4>3
    <3>. QED
      BY <3>1, <3>2, <3>3, <3>4, <3>5, <3>6
  <2>9. \A range : {GetAnalyticsOverview(d, range).pipeline,
                    GetUsersAnalytics(d, range).totalUsers} = {GetUtmAnalytics(d, range).total}
    <3>. SUFFICES ASSUME NEW range
                  PROVE  /\ GetAnalyticsOverview(d, range).pipeline = GetUtmAnalytics(d, range).total
                         /\ GetUsersAnalytics(d, range).totalUsers = GetUtmAnalytics(d, range).total
      OBVIOUS
    <3>1. GetAnalyticsOverview(d, range).pipeline = Total(ByStatus(Within(us, range)))
      BY <2>1 DEF GetAnalyticsOverview
    <3>2. GetUsersAnalytics(d, range).totalUsers = Cardinality(Within(us, range))
      BY <2>1 DEF GetUsersAnalytics
    <3>. QED
      BY <2>4, <2>5, <3>1, <3>2
  <2>10. n - GetUtmAnalytics(d, LastDays).total =
             Cardinality({u \in LeadsOf(d) : today - leadOf[u].day > Window})
    <3>1. Window \in Nat
      BY ReportsAssumption
    <3>. QED
      BY <2>1, <2>3, <2>5, <3>1, OlderThan DEF LastDays
  <2>11. n - Total(GetDistributorDetail(d).leadsOverTime) =
             Cardinality({u \in LeadsOf(d) : today - leadOf[u].day > YearLength})
    <3>1. PICK recent : recent = Within(us, LastYear)
      OBVIOUS
    <3>2. PICK X : X = {MonthOf(leadOf[u].day) : u \in recent}
      OBVIOUS
    <3>3. PICK key : key = [u \in recent |-> MonthOf(leadOf[u].day)]
      OBVIOUS
    <3>4. key \in [recent -> X] /\ IsFiniteSet(recent)
      BY <2>4, <3>1, <3>2, <3>3
    <3>5. PICK counts : counts = GetDistributorDetail(d).leadsOverTime
      OBVIOUS
    <3>6. counts = [m \in X |-> Cardinality({u \in recent : MonthOf(leadOf[u].day) = m})]
      BY <2>1, <3>1, <3>2, <3>5 DEF GetDistributorDetail
    <3>7. DOMAIN counts = X
      BY <3>6
    <3>8. ASSUME NEW m \in X PROVE counts[m] = Cardinality({u \in recent : key[u] = m})
      <4>1. {u \in recent : key[u] = m} = {u \in recent : MonthOf(leadOf[u].day) = m}
        BY <3>3
      <4>. QED
        BY <3>6, <4>1
    <3>9. Total(counts) = Cardinality(recent)
      BY <3>4, <3>7, <3>8, TotalByKey
    <3>10. YearLength \in Nat
      BY ReportsAssumption
    <3>11. n - Cardinality(recent) = Cardinality({u \in us : today - leadOf[u].day > YearLength})
      BY <2>1, <2>3, <3>1, <3>10, OlderThan DEF LastYear
    <3>. QED
      BY <2>1, <3>5, <3>9, <3>11
  <2>12. GetDashboard(d).customers = GetUsersAnalytics(d, <<0, today>>).customers
    <3>1. "MARK_AS_CUSTOMER" \in LeadStatuses
      BY ReportsAssumption
    <3>2. GetDashboard(d).customers = Cardinality({u \in us : leadOf[u].status = "MARK_AS_CUSTOMER"})
      BY <2>1, <3>1 DEF GetDashboard, ByStatus
    <3>3. GetUsersAnalytics(d, <<0, today>>).customers =
              Cardinality({u \in us : leadOf[u].status = "MARK_AS_CUSTOMER"})
      BY <2>1, <2>6 DEF GetUsersAnalytics
    <3>. QED
      BY <3>2, <3>3
  <2>13. GetDistributorLeads(d, LeadStatuses) = AssignedTo(d)
    BY <2>3 DEF GetDistributorLeads
  <2>14. GetLeadStatusHistory(d) = AssignedTo(d) /\ GetDistributorLead(d) = AssignedTo(d)
    BY DEF GetLeadStatusHistory, GetDistributorLead
  <2>15. {u \in Clients : GetUserDetail(d, u)} = us
    BY <2>1 DEF GetUserDetail, LeadsOf
  <2>16. us = AssignedTo(d) \cup {u \in LeadsOf(d) : leadOf[u].assigned = SuperAdmin}
    BY <2>1, <2>3
  <2>. QED
    BY <2>7, <2>8, <2>9, <2>10, <2>11, <2>12, <2>13, <2>14, <2>15, <2>16
<1>2. ASSUME NEW range \in Ranges, NEW report \in GetDistributorsAnalytics(range)
      PROVE  /\ Total(report.funnelPath) = LeadsBySource(range).viaDistributor
             /\ \A d \in DOMAIN report.top : report.top[d] = GetDashboard(d).totalLeads
  <2>1. PICK T \in TopDistributors :
            report = [top |-> [d \in T |-> Cardinality(LeadsOf(d))],
                      funnelPath |-> ByStatus(Within({u \in Clients : HasLead(u) /\ leadOf[u].distributor # Nobody}, range))]
    BY <1>2 DEF GetDistributorsAnalytics
  <2>2. T \subseteq Referrers
    BY <2>1 DEF TopDistributors, AnyOf, ReportRows, ReportTypes
  <2>3. PICK us : us = Within({u \in Clients : HasLead(u) /\ leadOf[u].distributor # Nobody}, range)
    OBVIOUS
  <2>4. us \subseteq AllLeads
    BY <2>3 DEF Within, AllLeads
  <2>5. Total(ByStatus(us)) = Cardinality(us)
    BY <2>4, StatusTotal DEF ReportRows
  <2>6. LeadsBySource(range).viaDistributor = Cardinality(us)
    <3>1. {u \in Within({u \in Clients : HasLead(u)}, range) : leadOf[u].distributor # Nobody} = us
      BY <2>3 DEF Within
    <3>. QED
      BY <3>1 DEF LeadsBySource
  <2>7. ASSUME NEW d \in T PROVE report.top[d] = GetDashboard(d).totalLeads
    <3>1. LeadsOf(d) \subseteq AllLeads
      BY DEF LeadsOf, AllLeads
    <3>2. Total(ByStatus(LeadsOf(d))) = Cardinality(LeadsOf(d))
      BY <3>1, StatusTotal DEF ReportRows
    <3>. QED
      BY <2>1, <3>2 DEF GetDashboard
  <2>. QED
    BY <2>1, <2>3, <2>5, <2>6, <2>7
<1>. QED
  BY <1>1, <1>2 DEF PagesAgree

LEMMA StageListsHold ==
    ASSUME ReportRows
    PROVE  StageListsAgree
<1>1. Null \notin {"YES", "NO"}
  BY ReportsAssumption
<1>2. ASSUME NEW u \in Clients
      PROVE  /\ u \notin past => u \notin paid /\ answer[u] = Null
             /\ answer[u] \in {"YES", "NO", Null}
             /\ answer[u] # Null => u \in paid /\ u \in past
  BY DEF ReportRows, InFunnelOrder, ReportTypes
<1>3. ASSUME NEW u \in Clients, NEW s \in Stages
      PROVE  u \in BuildFunnelStageFilter(s) <=> ComputeFunnelStage(u) = s
  <2>1. CASE s = "REGISTERED"
    <3>1. u \in BuildFunnelStageFilter(s) <=> u \notin past /\ u \notin paid
      BY <2>1 DEF BuildFunnelStageFilter
    <3>. QED
      BY <1>2, <2>1, <3>1 DEF ComputeFunnelStage
  <2>2. CASE s = "PHONE_VERIFIED"
    <3>1. u \in BuildFunnelStageFilter(s) <=> u \in past /\ u \notin paid
      BY <2>2 DEF BuildFunnelStageFilter
    <3>. QED
      BY <1>2, <2>2, <3>1 DEF ComputeFunnelStage
  <2>3. CASE s = "PAYMENT_COMPLETED"
    <3>1. u \in BuildFunnelStageFilter(s) <=> u \in paid /\ answer[u] = Null
      BY <2>3 DEF BuildFunnelStageFilter
    <3>. QED
      BY <1>2, <2>3, <3>1 DEF ComputeFunnelStage
  <2>4. CASE s = "SAID_YES"
    <3>1. u \in BuildFunnelStageFilter(s) <=> answer[u] = "YES"
      BY <2>4 DEF BuildFunnelStageFilter
    <3>. QED
      BY <1>1, <1>2, <2>4, <3>1 DEF ComputeFunnelStage
  <2>5. CASE s = "SAID_NO"
    <3>1. u \in BuildFunnelStageFilter(s) <=> answer[u] = "NO"
      BY <2>5 DEF BuildFunnelStageFilter
    <3>. QED
      BY <1>1, <1>2, <2>5, <3>1 DEF ComputeFunnelStage
  <2>. QED
    BY <2>1, <2>2, <2>3, <2>4, <2>5 DEF Stages
<1>4. PICK yes, blind, all : /\ yes = {u \in Clients : answer[u] = "YES"}
                             /\ blind = past \ verified /\ all = verified \cup blind
  OBVIOUS
<1>5. /\ IsFiniteSet(past) /\ IsFiniteSet(verified) /\ IsFiniteSet(all)
      /\ verified \subseteq all /\ paid \subseteq all /\ yes \subseteq paid /\ all \ verified = blind
  <2>1. all \subseteq Clients /\ verified \subseteq Clients /\ past \subseteq Clients /\ past \subseteq all
    BY <1>4 DEF ReportRows, ReportTypes
  <2>2. paid \subseteq past /\ yes \subseteq paid
    BY <1>1, <1>2, <1>4 DEF ReportRows, InFunnelOrder
  <2>3. all \ verified = blind /\ verified \subseteq all
    BY <1>4
  <2>. QED
    BY <2>1, <2>2, <2>3, ReportsAssumption, FS_Subset
<1>6. /\ Cardinality(all) \in Nat /\ Cardinality(verified) \in Nat /\ Cardinality(blind) \in Nat
      /\ Cardinality(all) = Cardinality(verified) + Cardinality(blind)
  BY <1>5, SplitCard
<1>7. /\ Cardinality(paid) <= Cardinality(all) /\ Cardinality(yes) <= Cardinality(paid)
      /\ Cardinality(paid) \in Nat /\ Cardinality(yes) \in Nat
  <2>1. IsFiniteSet(paid) /\ Cardinality(paid) <= Cardinality(all)
    BY <1>5, FS_Subset
  <2>2. IsFiniteSet(yes) /\ Cardinality(yes) <= Cardinality(paid)
    BY <1>5, <2>1, FS_Subset
  <2>. QED
    BY <2>1, <2>2, FS_CardinalityType
<1>8. /\ GetFunnelAnalytics.phoneVerified = Cardinality(verified)
      /\ GetFunnelAnalytics.paymentDone = Cardinality(paid)
      /\ GetFunnelAnalytics.decisionYes = Cardinality(yes)
  BY <1>4 DEF GetFunnelAnalytics
<1>9. /\ Cardinality(verified) + Cardinality(blind) >= Cardinality(paid)
      /\ Cardinality(paid) >= Cardinality(yes)
  BY <1>6, <1>7
<1>. QED
  BY <1>3, <1>4, <1>8, <1>9 DEF StageListsAgree

LEMMA SourcesHold ==
    ASSUME ReportRows
    PROVE  SourcesAddUp
<1>1. PICK X : X = Sources \cup {Null}
  OBVIOUS
<1>2. \A u \in Clients : Acquired(u) => acquisition[u].source \in X
  BY <1>1, LeadTyped, LeadShape DEF ReportRows
<1>3. ASSUME NEW us, us \subseteq AllLeads, NEW counts,
             counts = [s \in X |-> Cardinality({u \in us : Acquired(u) /\ acquisition[u].source = s})]
      PROVE  Total(counts) = Cardinality({u \in us : Acquired(u)})
  <2>1. PICK T : T = {u \in us : Acquired(u)}
    OBVIOUS
  <2>2. PICK key : key = [u \in T |-> acquisition[u].source]
    OBVIOUS
  <2>3. IsFiniteSet(T)
    BY <1>3, <2>1, StatusTotal, FS_Subset DEF ReportRows
  <2>4. key \in [T -> X]
    BY <1>2, <1>3, <2>1, <2>2 DEF AllLeads
  <2>5. DOMAIN counts = X
    BY <1>3
  <2>6. ASSUME NEW s \in X PROVE counts[s] = Cardinality({u \in T : key[u] = s})
    <3>1. {u \in T : key[u] = s} = {u \in us : Acquired(u) /\ acquisition[u].source = s}
      BY <2>1, <2>2
    <3>. QED
      BY <1>3, <3>1
  <2>7. Total(counts) = Cardinality(T)
    BY <2>3, <2>4, <2>5, <2>6, TotalByKey
  <2>. QED
    BY <2>1, <2>7
<1>4. ASSUME NEW d \in distributors, NEW range
      PROVE  Total(GetUtmAnalytics(d, range).bySource) = GetUtmAnalytics(d, range).total
  <2>1. PICK us : us = Within(LeadsOf(d), range)
    OBVIOUS
  <2>2. PICK counts : counts = [s \in X |-> Cardinality({u \in us : Acquired(u) /\ acquisition[u].source = s})]
    OBVIOUS
  <2>3. GetUtmAnalytics(d, range) = [total |-> Cardinality(us), bySource |-> counts]
    BY <1>1, <2>1, <2>2 DEF GetUtmAnalytics
  <2>4. us \subseteq AllLeads
    BY <2>1 DEF Within, LeadsOf, AllLeads
  <2>5. {u \in us : Acquired(u)} = us
    <3>1. d \in Referrers
      BY DEF ReportRows, ReportTypes
    <3>. QED
      BY <2>1, <3>1 DEF Within, LeadsOf, ReportRows, Referred
  <2>6. Total(counts) = Cardinality(us)
    BY <1>3, <2>2, <2>4, <2>5
  <2>. QED
    BY <2>3, <2>6
<1>5. GetAdminUtmAnalytics.total - Total(GetAdminUtmAnalytics.bySource) =
          Cardinality({u \in GetAllLeads(LeadStatuses) : ~Acquired(u)})
  <2>1. PICK us, T : us = AllLeads /\ T = {u \in us : Acquired(u)}
    OBVIOUS
  <2>2. PICK counts : counts = [s \in X |-> Cardinality({u \in us : Acquired(u) /\ acquisition[u].source = s})]
    OBVIOUS
  <2>3. GetAdminUtmAnalytics = [total |-> Cardinality(us), bySource |-> counts]
    BY <1>1, <2>1, <2>2 DEF GetAdminUtmAnalytics, AllLeads
  <2>4. Total(counts) = Cardinality(T)
    BY <1>3, <2>1, <2>2
  <2>5. us \ T = {u \in GetAllLeads(LeadStatuses) : ~Acquired(u)}
    <3>1. \A u \in us : /\ leadOf[u].distributor \in Referrers \cup {Nobody}
                        /\ leadOf[u].status \in LeadStatuses
                        /\ leadOf[u].distributor \in Referrers => Acquired(u)
      BY <2>1, LeadTyped, LeadShape DEF ReportRows, Referred, AllLeads
    <3>. QED
      BY <2>1, <3>1 DEF AllLeads, GetAllLeads, LeadsOf
  <2>6. /\ Cardinality(us) \in Nat /\ Cardinality(T) \in Nat /\ Cardinality(us \ T) \in Nat
        /\ Cardinality(us) = Cardinality(T) + Cardinality(us \ T)
    <3>1. IsFiniteSet(us) /\ T \subseteq us
      BY <2>1, CountsFinite DEF ReportRows
    <3>. QED
      BY <3>1, SplitCard
  <2>7. Cardinality(us) - Cardinality(T) = Cardinality(us \ T)
    BY <2>6
  <2>. QED
    BY <2>3, <2>4, <2>5, <2>7
<1>. QED
  BY <1>4, <1>5 DEF SourcesAddUp

LEMMA ChartsHold ==
    ASSUME ReportRows
    PROVE  ChartsCover
<1>1. ASSUME NEW range \in Ranges, NEW d \in distributors
      PROVE  ChartCovers(d, range)
  <2>1. PICK g, all, charted, start :
            g = AutoGranularity(range) /\ all = Within(LeadsOf(d), range)
            /\ charted = Total(BuildTrend(LeadsOf(d), range)) /\ start = MonthOf(range[1])
    OBVIOUS
  <2>2. PICK short : short = {m \in AllMonths \ {LastMonth} :
                                 First[m + 1] - First[m] <= range[1] - First[start]}
    OBVIOUS
  <2>3. PICK missed :
            missed = {u \in all : \/ FormatPeriod(leadOf[u].day, g) = FormatPeriod(range[2], g)
                                  \/ g = "monthly" /\ MonthOf(leadOf[u].day) \in short}
    OBVIOUS
  <2>4. PICK X : X = GeneratePeriods(range)
    OBVIOUS
  <2>5. /\ all \subseteq AllLeads /\ IsFiniteSet(all)
        /\ \A u \in all : leadOf[u].day \in range[1]..range[2]
    <3>1. all \subseteq AllLeads /\ \A u \in all : leadOf[u].day \in range[1]..range[2]
      BY <2>1 DEF Within, LeadsOf, AllLeads
    <3>. QED
      BY <3>1, StatusTotal DEF ReportRows
  <2>6. PICK key, Y : /\ key = [u \in all |-> FormatPeriod(leadOf[u].day, g)]
                      /\ Y = {FormatPeriod(leadOf[u].day, g) : u \in all}
    OBVIOUS
  <2>7. key \in [all -> Y]
    BY <2>6
  <2>8. PICK counts : counts = BuildTrend(LeadsOf(d), range)
    OBVIOUS
  <2>9. counts = [p \in X |-> Cardinality({u \in all : FormatPeriod(leadOf[u].day, g) = p})]
    BY <2>1, <2>4, <2>8 DEF BuildTrend
  <2>10. DOMAIN counts = X
    BY <2>9
  <2>11. ASSUME NEW p \in X PROVE counts[p] = Cardinality({u \in all : key[u] = p})
    <3>1. {u \in all : key[u] = p} = {u \in all : FormatPeriod(leadOf[u].day, g) = p}
      BY <2>6
    <3>. QED
      BY <2>9, <3>1
  <2>12. PICK shown : shown = {u \in all : key[u] \in X}
    OBVIOUS
  <2>13. charted = Cardinality(shown)
    BY <2>1, <2>5, <2>7, <2>8, <2>10, <2>11, <2>12, TotalOfSome
  <2>14. g \in {"daily", "weekly", "monthly"}
    BY <2>1, RangeIs
  <2>15. ASSUME NEW u \in all, g = "daily" \/ u \notin missed PROVE u \in shown
    <3>1. leadOf[u].day \in range[1]..range[2]
      BY <2>5
    <3>2. CASE g = "daily"
      BY <2>1, <2>4, <2>6, <2>12, <3>1, <3>2, DayVisited
    <3>3. CASE g = "weekly"
      <4>1. leadOf[u].day \div WeekLength # range[2] \div WeekLength
        BY <2>3, <2>15, <3>3 DEF FormatPeriod
      <4>. QED
        BY <2>1, <2>4, <2>6, <2>12, <3>1, <3>3, <4>1, WeekVisited
    <3>4. CASE g = "monthly"
      <4>1. MonthOf(leadOf[u].day) # MonthOf(range[2]) /\ MonthOf(leadOf[u].day) \notin short
        BY <2>3, <2>15, <3>4 DEF FormatPeriod
      <4>2. MonthOf(leadOf[u].day) \in AllMonths \ {LastMonth}
        BY <3>1, RangeIs
      <4>3. ~(First[MonthOf(leadOf[u].day) + 1] - First[MonthOf(leadOf[u].day)]
                  <= range[1] - First[MonthOf(range[1])])
        BY <2>1, <2>2, <4>1, <4>2
      <4>4. FormatPeriod(leadOf[u].day, "monthly") \in X
        BY <2>1, <2>4, <3>1, <3>4, <4>1, <4>3, MonthVisited
      <4>. QED
        BY <2>6, <2>12, <3>4, <4>4
    <3>. QED
      BY <2>14, <3>2, <3>3, <3>4
  <2>16. shown \subseteq all /\ all \ missed \subseteq shown /\ (g = "daily" => shown = all)
    BY <2>12, <2>15
  <2>17. IsFiniteSet(shown) /\ Cardinality(shown) <= Cardinality(all)
    BY <2>5, <2>16, FS_Subset
  <2>18. IsFiniteSet(all \ missed) /\ Cardinality(all \ missed) <= Cardinality(shown)
    BY <2>16, <2>17, FS_Subset
  <2>19. /\ Cardinality(all) \in Nat /\ Cardinality(shown) \in Nat /\ Cardinality(all \ missed) \in Nat
    BY <2>5, <2>17, <2>18, FS_CardinalityType
  <2>20. /\ charted \in Cardinality(all \ missed)..Cardinality(all)
         /\ g = "daily" => charted = Cardinality(all)
    BY <2>13, <2>16, <2>17, <2>18, <2>19
  <2>. QED
    BY <2>1, <2>2, <2>3, <2>20 DEF ChartCovers
<1>. QED
  BY <1>1 DEF ChartsCover

LEMMA FollowupsHold ==
    ASSUME ReportRows, today \in Nat
    PROVE  FollowupsTold
<1>1. ASSUME NEW told \in GetAdminNotifications
      PROVE  /\ told.followupsToday \in AnyOf({a \in AdminFollowups : a.day = today}, Take)
             /\ told.followupsToday \subseteq {a \in AdminFollowups : a.day = today}
             /\ told.overdueFollowups \subseteq {a \in AdminFollowups : a.day < today}
  BY <1>1 DEF GetAdminNotifications, Earliest, AnyOf
<1>2. \A told \in GetAdminNotifications : told.followupsToday \cap told.overdueFollowups = {}
  <2>. SUFFICES ASSUME NEW told \in GetAdminNotifications, NEW a \in told.followupsToday,
                       a \in told.overdueFollowups
                PROVE  FALSE
    OBVIOUS
  <2>1. a.day = today /\ a.day < today
    BY <1>1
  <2>. QED
    BY <2>1
<1>3. ASSUME NEW u \in Clients, DueToday(u)
      PROVE  ToldToTheirOwn(u)
  <2>1. PICK d, about : d = leadOf[u].distributor /\ about = {a \in activities : a.client = u}
    OBVIOUS
  <2>2. PICK movedFrom : movedFrom = IF leadOf[u].assigned = SuperAdmin THEN {d} ELSE {}
    OBVIOUS
  <2>3. HasLead(u) /\ leadOf[u].status = "FOLLOWUP"
    BY <1>3, <2>1, <2>2 DEF DueToday
  <2>4. PICK due \in activities : due.client = u /\ due.day = today
    BY <1>3, <2>1, <2>2 DEF DueToday
  <2>5. /\ d \in Referrers \cup {Nobody}
        /\ leadOf[u].assigned \in Referrers \cup {SuperAdmin}
        /\ leadOf[u].assigned \in {SuperAdmin, d}
    BY <1>3, <2>1, <2>2, <2>3, LeadTyped, LeadShape DEF ReportRows, Referred
  <2>6. \A a \in about : a \in activities /\ a.client = u /\ a.actor = Keeper(u)
    BY <1>3, <2>1, <2>2 DEF ReportRows, ToldToTheirs
  <2>7. Keeper(u) = IF d = Nobody THEN SuperAdmin ELSE d
    BY <1>3, <2>1, <2>2 DEF Keeper
  <2>8. due \in about
    BY <1>3, <2>1, <2>2, <2>4
  <2>9. {e \in Referrers : u \in GetDistributorTodayFollowups(e)} = {d} \ movedFrom
    <3>1. \A e : u \in GetDistributorTodayFollowups(e) <=> leadOf[u].assigned = e
      BY <1>3, <2>1, <2>2, <2>3 DEF GetDistributorTodayFollowups, AssignedTo
    <3>. QED
      BY <1>3, <2>1, <2>2, <2>5, <3>1, ReportsAssumption
  <2>10. movedFrom \ {Nobody} # {} => ~\E p \in Referrers \cup {SuperAdmin} : MaySchedule(p, u)
    BY <1>3, <2>1, <2>2, <2>5, ReportsAssumption DEF MaySchedule
  <2>11. ASSUME NEW e \in Referrers, NEW told \in GetFollowupNotifications(e)
        PROVE  IF e = d THEN told \cap about # {} \/ Cardinality(told) = Take
                        ELSE told \cap about = {}
    <3>1. told \in AnyOf({a \in activities : a.actor = e /\ a.day = today}, Take)
      BY <2>11 DEF GetFollowupNotifications
    <3>2. CASE e = d
      <4>1. due.actor = e
        BY <2>6, <2>7, <2>8, <3>2, ReportsAssumption
      <4>2. due \in {a \in activities : a.actor = e /\ a.day = today}
        BY <2>4, <4>1
      <4>3. due \in told \/ Cardinality(told) = Take
        BY <3>1, <4>2 DEF AnyOf
      <4>. QED
        BY <2>8, <3>2, <4>3
    <3>3. CASE e # d
      <4>1. \A a \in about : a.actor # e
        BY <2>6, <2>7, <3>3, ReportsAssumption
      <4>2. \A a \in told : a.actor = e
        BY <3>1 DEF AnyOf
      <4>. QED
        BY <3>3, <4>1, <4>2
    <3>. QED
      BY <3>2, <3>3
  <2>12. ASSUME NEW told \in GetAdminNotifications
         PROVE  IF d = Nobody
                THEN told.followupsToday \cap about # {} \/ Cardinality(told.followupsToday) = Take
                ELSE (told.followupsToday \cup told.overdueFollowups) \cap about = {}
    <3>1. u \in LeadsOf(Nobody) <=> d = Nobody
      BY <1>3, <2>1, <2>2, <2>3 DEF LeadsOf
    <3>2. CASE d = Nobody
      <4>1. due \in {a \in AdminFollowups : a.day = today}
        BY <2>3, <2>4, <3>1, <3>2 DEF AdminFollowups
      <4>2. due \in told.followupsToday \/ Cardinality(told.followupsToday) = Take
        BY <1>1, <4>1 DEF AnyOf
      <4>. QED
        BY <2>8, <3>2, <4>2
    <3>3. CASE d # Nobody
      <4>1. \A a \in told.followupsToday \cup told.overdueFollowups : a.client \in LeadsOf(Nobody)
        BY <1>1 DEF AdminFollowups
      <4>2. \A a \in about : a.client \notin LeadsOf(Nobody)
        BY <2>6, <3>1, <3>3
      <4>. QED
        BY <3>3, <4>1, <4>2
    <3>. QED
      BY <3>2, <3>3
  <2>. QED
    BY <2>1, <2>2, <2>9, <2>10, <2>11, <2>12, Zenon DEF ToldToTheirOwn
<1>. QED
  BY <1>2, <1>3 DEF FollowupsTold

----------------------------------------------------------------------------
(* The office *)

\* The rows are sound whatever the handlers hold, and what they hold is sound for the
\* department whose requests the behaviour follows.
OfficeRows == DeskRows /\ CampaignRows /\ OfferRows /\ ReportRows

OfficeServes ==
    /\ department = "desk" => DeskServes
    /\ department = "campaigns" => CampaignServes
    /\ department = "offers" => OfferServes
    /\ department = "reports" => ReportServes /\ today \in RowDays /\ LeadsPast

OfficeInv ==
    /\ today \in Nat /\ requests \in Nat
    /\ department \in {"desk", "campaigns", "offers", "reports"}
    /\ OfficeRows /\ OfficeServes

LEMMA OfficeBegins ==
    ASSUME Init
    PROVE  OfficeInv
<1>1. DeskRows /\ DeskServes
  BY DeskBegins DEF Init
<1>2. CampaignRows /\ CampaignServes
  BY CampaignsBegin DEF Init
<1>3. OfferRows /\ OfferServes
  BY OffersBegin DEF Init
<1>4. ReportRows /\ ReportServes /\ \A u \in Clients : HasLead(u) => leadOf[u].day = 0
  BY ReportsBegin DEF Init
<1>5. today = 0 /\ requests = 0 /\ today \in RowDays /\ LeadsPast
  BY <1>4, ReportsAssumption DEF Init, ServiceInit, LeadsPast
<1>6. department \in {"desk", "campaigns", "offers", "reports"}
  BY DEF Init
<1>. QED
  BY <1>1, <1>2, <1>3, <1>4, <1>5, <1>6 DEF OfficeInv, OfficeRows, OfficeServes

\* Every row is as it was.
LEMMA OfficeRowsStay ==
    ASSUME OfficeRows, UNCHANGED <<deskVars, campaignVars, offerVars, reportVars>>
    PROVE  OfficeRows'
  BY DeskRowsStay, CampaignRowsStay, OffersStay, ReportRowsStay DEF OfficeRows

\* Serving a request takes no time and is counted.
ServedToday == today' = today /\ requests' \in Nat

LEMMA Serving ==
    ASSUME requests \in Nat
    PROVE  /\ \A h, c : Begin(h, c) \/ Then(h, c) => ServedToday
           /\ \A h : End(h) => ServedToday
           /\ AskOnce => ServedToday
           /\ UNCHANGED service => ServedToday
  BY DEF Begin, Then, End, AskOnce, Ask, service, ServedToday

LEMMA DeskServesToday ==
    ASSUME requests \in Nat, DeskNext
    PROVE  ServedToday
<1>1. ASSUME NEW h, NEW p, TaskRoutes(h, p) PROVE ServedToday
  BY <1>1, Serving DEF TaskRoutes, BeginCreateTask, BeginUpdateTask, BeginMoveTask, BeginDeleteTask
<1>2. ASSUME NEW p, CalendarRoutes(p) PROVE ServedToday
  BY <1>2, Serving DEF CalendarRoutes, CreateNote, UpdateNote, DeleteNote
<1>3. ASSUME NEW h, CountTodo(h) \/ InsertTask(h) \/ WriteTask(h) \/ DeleteTask(h) PROVE ServedToday
  BY <1>3, Serving DEF CountTodo, InsertTask, WriteTask, DeleteTask
<1>4. ASSUME NEW p, NEW day, PlanFollowup(p, day) PROVE ServedToday
  BY <1>4, Serving DEF PlanFollowup
<1>. QED
  BY <1>1, <1>2, <1>3, <1>4 DEF DeskNext, AdminTaskRoutes, AdminCalendarRoutes, DistributorRoutes

LEMMA CampaignsServeToday ==
    ASSUME requests \in Nat, CampaignNext
    PROVE  ServedToday
<1>1. ASSUME NEW h, NEW actor, CampaignRoutes(h, actor) PROVE ServedToday
  BY <1>1, Serving DEF CampaignRoutes, BeginCreateCampaign, BeginUpdateCampaign, DeleteCampaign
<1>2. ASSUME NEW h, CreateCampaign(h) \/ UpdateCampaign(h) PROVE ServedToday
  BY <1>2, Serving DEF CreateCampaign, UpdateCampaign
<1>3. ASSUME NEW v, NEW slug, Visit(v, slug) PROVE ServedToday
  BY <1>3, Serving DEF Visit
<1>4. ASSUME NEW v, Advance(v) PROVE ServedToday
  BY <1>4, Serving DEF Advance, service
<1>. QED
  BY <1>1, <1>2, <1>3, <1>4 DEF CampaignNext, DistributorCampaignRoutes, AdminCampaignRoutes

LEMMA OffersServeToday ==
    ASSUME requests \in Nat, OfferNext
    PROVE  ServedToday
<1>1. ASSUME NEW h, PlanRoutes(h) PROVE ServedToday
  BY <1>1, Serving DEF PlanRoutes, BeginCreatePlan, BeginActivatePlan, DeactivatePlan
<1>2. ASSUME NEW h, CouponRoutes(h) PROVE ServedToday
  <2>1. ASSUME NEW c, NEW type, NEW value, NEW limit, NEW perUser, NEW expires,
               CreateCoupon(c, type, value, limit, perUser, expires)
        PROVE  ServedToday
    BY <2>1, Serving DEF CreateCoupon
  <2>2. ASSUME NEW c, NEW change, BeginUpdateCoupon(h, c, change) PROVE ServedToday
    BY <2>2, Serving DEF BeginUpdateCoupon
  <2>3. ASSUME NEW c, BeginDeleteCoupon(h, c) PROVE ServedToday
    BY <2>3, Serving DEF BeginDeleteCoupon
  <2>. QED
    BY <1>2, <2>1, <2>2, <2>3 DEF CouponRoutes
<1>3. ASSUME NEW h, FindActivePlan(h) \/ StorePlan(h) \/ UpdateCoupon(h) \/ DeleteCoupon(h) \/ RedeemCoupon(h)
      PROVE  ServedToday
  BY <1>3, Serving DEF FindActivePlan, StorePlan, UpdateCoupon, DeleteCoupon, RedeemCoupon
<1>4. ASSUME NEW h, NEW c, NEW u, BeginRedeem(h, c, u) PROVE ServedToday
  BY <1>4, Serving DEF BeginRedeem
<1>. QED
  BY <1>1, <1>2, <1>3, <1>4 DEF OfferNext

\* A new lead is of today, and no day comes back.
LEMMA LeadsGoBack ==
    ASSUME ReportRows, LeadsPast, ReportsGrow, today \in Nat, today' \in Nat, today <= today'
    PROVE  LeadsPast'
<1>1. ASSUME NEW u \in Clients, HasLead(u)' PROVE leadOf'[u].day <= today'
  <2>1. CASE HasLead(u)
    <3>1. leadOf[u].day \in Nat /\ leadOf[u].day <= today /\ leadOf'[u].day = leadOf[u].day
      BY <2>1, LeadTyped, LeadShape DEF ReportRows, LeadsPast, ReportsGrow
    <3>. QED
      BY <3>1
  <2>2. CASE ~HasLead(u)
    BY <1>1, <2>2 DEF ReportsGrow
  <2>. QED
    BY <2>1, <2>2
<1>. QED
  BY <1>1 DEF LeadsPast

LEMMA LeadsStay ==
    ASSUME LeadsPast, UNCHANGED reportVars, today' = today
    PROVE  LeadsPast'
  BY DEF LeadsPast, HasLead, reportVars, tables

LEMMA OfficeStep ==
    ASSUME OfficeInv, [Next]_vars
    PROVE  OfficeInv'
<1>1. /\ today \in Nat /\ requests \in Nat
      /\ DeskRows /\ CampaignRows /\ OfferRows /\ ReportRows /\ OfficeServes
  BY DEF OfficeInv, OfficeRows
<1>2. department' = department
  BY DEF Next, vars
<1>3. CASE department = "desk" /\ DeskNext /\ UNCHANGED <<campaignVars, offerVars, reportVars>>
  <2>1. DeskRows' /\ DeskServes' /\ ServedToday
    BY <1>1, <1>3, DeskStep, DeskServesToday DEF OfficeServes
  <2>2. CampaignRows' /\ OfferRows' /\ ReportRows'
    BY <1>1, <1>3, CampaignRowsStay, OffersStay, ReportRowsStay
  <2>. QED
    BY <1>1, <1>2, <1>3, <2>1, <2>2 DEF OfficeInv, OfficeRows, OfficeServes, ServedToday
<1>4. CASE department = "campaigns" /\ CampaignNext /\ UNCHANGED <<deskVars, offerVars, reportVars>>
  <2>1. CampaignRows' /\ CampaignServes' /\ ServedToday
    BY <1>1, <1>4, CampaignStep, CampaignsServeToday DEF OfficeServes
  <2>2. DeskRows' /\ OfferRows' /\ ReportRows'
    BY <1>1, <1>4, DeskRowsStay, OffersStay, ReportRowsStay
  <2>. QED
    BY <1>1, <1>2, <1>4, <2>1, <2>2 DEF OfficeInv, OfficeRows, OfficeServes, ServedToday
<1>5. CASE department = "offers" /\ OfferNext /\ UNCHANGED <<deskVars, campaignVars, reportVars>>
  <2>1. OfferRows' /\ OfferServes' /\ ServedToday
    BY <1>1, <1>5, OfferStep, OffersServeToday DEF OfficeServes
  <2>2. DeskRows' /\ CampaignRows' /\ ReportRows'
    BY <1>1, <1>5, DeskRowsStay, CampaignRowsStay, ReportRowsStay
  <2>. QED
    BY <1>1, <1>2, <1>5, <2>1, <2>2 DEF OfficeInv, OfficeRows, OfficeServes, ServedToday
<1>6. CASE department = "reports" /\ ReportsNext /\ UNCHANGED <<deskVars, campaignVars, offerVars>>
  <2>1. /\ ReportRows' /\ ReportsGrow /\ ReportServes'
        /\ today' \in RowDays /\ today <= today' /\ requests' \in Nat
    BY <1>1, <1>6, ReportStep DEF OfficeServes, ReportsKept, DaysGoOn
  <2>2. DeskRows' /\ CampaignRows' /\ OfferRows'
    BY <1>1, <1>6, DeskRowsStay, CampaignRowsStay, OffersStay
  <2>3. today' \in Nat
    BY <2>1, ReportsAssumption
  <2>4. LeadsPast'
    BY <1>1, <1>6, <2>1, <2>3, LeadsGoBack DEF OfficeServes
  <2>. QED
    BY <1>1, <1>2, <1>6, <2>1, <2>2, <2>3, <2>4 DEF OfficeInv, OfficeRows, OfficeServes
<1>7. ASSUME UNCHANGED <<deskVars, campaignVars, offerVars, reportVars>>
      PROVE  OfficeRows'
  BY <1>1, <1>7, OfficeRowsStay DEF OfficeRows
<1>8. ASSUME UNCHANGED <<deskVars, campaignVars, offerVars, reportVars>>, call' = call,
             department = "reports" => today' = today
      PROVE  OfficeServes'
  <2>1. department = "desk" => DeskServes'
    BY <1>1, <1>8, DeskServesStays DEF OfficeServes
  <2>2. department = "campaigns" => CampaignServes'
    BY <1>1, <1>8, CampaignServesStays DEF OfficeServes
  <2>3. department = "offers" => OfferServes'
    BY <1>1, <1>8, OffersStay DEF OfficeServes
  <2>4. department = "reports" => ReportServes'
    <3>1. ReportTypes /\ ReportTypes' /\ ReportsGrow
      BY <1>1, <1>8, ReportRowsStay DEF ReportRows
    <3>. QED
      BY <1>1, <1>8, <3>1, ReportStays DEF OfficeServes
  <2>5. department = "reports" => today' \in RowDays /\ LeadsPast'
    BY <1>1, <1>8, LeadsStay DEF OfficeServes
  <2>. QED
    BY <1>2, <1>8, <2>1, <2>2, <2>3, <2>4, <2>5 DEF OfficeServes
<1>9. CASE DayPasses /\ department # "reports" /\ UNCHANGED <<deskVars, campaignVars, offerVars, reportVars>>
  <2>1. call' = call /\ today' \in Nat /\ requests' \in Nat
    BY <1>1, <1>9 DEF DayPasses
  <2>. QED
    BY <1>1, <1>2, <1>7, <1>8, <1>9, <2>1 DEF OfficeInv
<1>10. CASE Restart /\ UNCHANGED <<deskVars, campaignVars, offerVars, reportVars>>
  <2>1. call' = [h \in Handlers |-> Idle] /\ today' = today /\ requests' = requests
    BY <1>10 DEF Restart
  <2>2. DeskServes' /\ CampaignServes' /\ OfferServes' /\ ReportServes'
    BY <2>1, DeskRestarts, CampaignsRestart, OffersRestart, ReportsRestart
  <2>3. department = "reports" => today' \in RowDays /\ LeadsPast'
    BY <1>1, <1>10, <2>1, LeadsStay DEF OfficeServes
  <2>4. OfficeServes'
    BY <1>2, <2>2, <2>3 DEF OfficeServes
  <2>. QED
    BY <1>1, <1>2, <1>7, <1>10, <2>1, <2>4 DEF OfficeInv
<1>11. CASE UNCHANGED vars
  <2>1. /\ UNCHANGED <<deskVars, campaignVars, offerVars, reportVars>>
        /\ call' = call /\ today' = today /\ requests' = requests
    BY <1>11 DEF vars, service
  <2>. QED
    BY <1>1, <1>2, <1>7, <1>8, <2>1 DEF OfficeInv
<1>. QED
  BY <1>3, <1>4, <1>5, <1>6, <1>9, <1>10, <1>11 DEF Next

----------------------------------------------------------------------------
(* Theorems *)

LEMMA OfficeIsSound == Spec => []OfficeInv
  BY OfficeBegins, OfficeStep, PTL DEF Spec

\* The rows keep their types; an owner has a campaign's address once, however his requests
\* look it up and write it, unless two of them met; and one plan is active, unless two
\* activations met.  Neither has a constraint of the database behind it.
THEOREM OneOfEachAlways == Spec => []OneOfEach
<1>1. OfficeInv => OneOfEach
  <2>. SUFFICES ASSUME OfficeInv PROVE OneOfEach
    OBVIOUS
  <2>1. TypeOK
    BY DEF OfficeInv, OfficeRows, DeskRows, DeskTypes, CampaignRows, CampaignTypes, OfferRows, OfferTypes,
           ReportRows, ReportTypes, TypeOK
  <2>2. SlugsDistinct
    BY DEF OfficeInv, OfficeRows, CampaignRows
  <2>3. OneActivePlan
    BY OffersHold DEF OfficeInv, OfficeRows
  <2>. QED
    BY <2>1, <2>2, <2>3 DEF OneOfEach
<1>. QED
  BY <1>1, OfficeIsSound, PTL

\* Redemptions, edits and deletions may meet: the uses of a coupon with a limit are
\* counted, within the highest limit it has had, and none that was known is erased.
THEOREM CouponsAreAccounted == Spec => []CouponLedger
<1>1. OfficeInv => CouponLedger
  BY OffersHold DEF OfficeInv, OfficeRows, CouponLedger
<1>. QED
  BY <1>1, OfficeIsSound, PTL

\* Calendars, reminders, boards, campaign counts and coupon previews follow the rules that
\* the services apply, on every day; lists that are cut off are full, and what a client did
\* counts for one campaign, or for those that share an address.
THEOREM ListsAreAlwaysRight == Spec => []ListsAreRight
<1>1. OfficeInv => ListsAreRight
  <2>. SUFFICES ASSUME OfficeInv PROVE ListsAreRight
    OBVIOUS
  <2>1. DeskRows /\ CampaignRows /\ OfferRows /\ today \in Nat
    BY DEF OfficeInv, OfficeRows
  <2>. QED
    BY <2>1, CalendarHolds, RemindersHold, BoardHolds, CountedHolds, PreviewHolds
       DEF ListsAreRight
<1>. QED
  BY <1>1, OfficeIsSound, PTL

\* All pages of a distributor and of the administrator count the same users of his, but
\* for those older than the page shows; stage lists agree with the stage shown, and
\* sources add up, whatever was handed over.
THEOREM PagesAreSound == Spec => []PagesSound
<1>1. OfficeInv => PagesSound
  BY PagesHold, StageListsHold, SourcesHold DEF OfficeInv, OfficeRows, OfficeServes, PagesSound
<1>. QED
  BY <1>1, OfficeIsSound, PTL

\* A chart counts the rows of its range but those of a last period, or of a short month,
\* that it does not visit; a report read in two steps adds up if nothing was written
\* between them, and its payments may be fewer if an administrator expired one.
THEOREM ReportsAlwaysAddUp == Spec => []ReportsAddUp
<1>1. OfficeInv => ReportsAddUp
  BY ChartsHold DEF OfficeInv, OfficeRows, ReportRows, ReportsAddUp
<1>. QED
  BY <1>1, OfficeIsSound, PTL

\* A follow-up that is due is told to him who planned it, also after the lead was handed
\* over, when only the administrator lists the lead and nobody may plan another.
THEOREM FollowupsAlwaysReach == Spec => []FollowupsReach
<1>1. OfficeInv => FollowupsReach
  BY FollowupsHold DEF OfficeInv, OfficeRows, FollowupsReach
<1>. QED
  BY <1>1, OfficeIsSound, PTL
=============================================================================

-------------------------------- MODULE Desk --------------------------------
(***************************************************************************)
(* The desk of a distributor and of the administrator: a board of tasks,   *)
(* which may be about a lead, and a calendar of tasks, notes and follow-   *)
(* ups.  The administrator keeps his rows in the same tables under his own *)
(* uuid and may name any lead.                                             *)
(***************************************************************************)
EXTENDS Service

CONSTANTS
    Distributors, Admins,
    LeadIds,        \* the leads a distributor brought
    NoLead, NoOwner,
    MaxTasks,       \* bound on the tasks that are created
    BoardTake,      \* how many tasks a board shows: 1000
    NoteIds,
    Days,           \* days on which something may be due
    NoDay,
    Months,         \* the months of the calendar
    MonthLength,    \* days of a month
    Places          \* values of order a task is moved to

People == Distributors \cup Admins

Statuses == {"TODO", "IN_PROGRESS", "COMPLETE"}

TaskIds == 1..MaxTasks

\* leads.distributorUuid is set as the lead is created and never written again.
Leads == Distributors \X LeadIds

Task == [owner : People, lead : Leads \cup {NoLead}, status : Statuses,
         order : Nat, due : Days \cup {NoDay}]

Note == [owner : People, day : Days]

ASSUME DeskAssumption ==
    /\ MaxTasks \in Nat /\ Days \subseteq Nat /\ Places \subseteq Nat
    /\ Months \subseteq Nat /\ \A d \in Days : d \div MonthLength \in Months
    /\ MonthLength \in Nat \ {0}
    /\ BoardTake \in Nat
    /\ NoLead \notin Leads /\ NoDay \notin Nat /\ NoOwner \notin People
    /\ Distributors \cap Admins = {}

VARIABLES
    tasks,          \* distributor_tasks, numbered as they are created
    created,        \* tasks ever created
    notes,          \* distributor_calendar_notes
    followups,      \* days on which a person follows a lead up
    shuffled        \* people whose board moved, lost or raced tasks

deskVars == <<tasks, created, notes, followups, shuffled>>

NoTask == [owner |-> NoOwner]

NoNote == [owner |-> NoOwner]

Exists(t) == tasks[t].owner # NoOwner

----------------------------------------------------------------------------
(* Tasks *)

TasksOf(p) == {t \in TaskIds : tasks[t].owner = p}

\* A distributor names a lead he brought, whoever it is assigned to; the
\* administrator any.
MayName(p, l) == l \in {NoLead} \cup {m \in Leads : p \in Admins \cup {m[1]}}

Working(p) == \E h \in Handlers : "person" \in DOMAIN call[h] /\ call[h].person = p

BeginCreateTask(h, p, lead, due) ==
    /\ MayName(p, lead)
    /\ Begin(h, [at |-> "count", person |-> p, lead |-> lead, due |-> due])
    /\ shuffled' = IF Working(p) THEN shuffled \cup {p} ELSE shuffled
    /\ UNCHANGED <<tasks, created, notes, followups>>

\* Mutant: every new task is put first.
CountTodoFirst(h) ==
    LET c == call[h]
    IN  /\ c.at = "count"
        /\ Then(h, [at |-> "create", person |-> c.person, lead |-> c.lead, due |-> c.due,
                    order |-> 1])
        /\ UNCHANGED deskVars

\* The new task goes to the end of the tasks to do.
CountTodo(h) ==
    LET c == call[h]
        todo == {t \in TasksOf(c.person) : tasks[t].status = "TODO"}
    IN  /\ c.at = "count"
        /\ Then(h, [at |-> "create", person |-> c.person, lead |-> c.lead, due |-> c.due,
                    order |-> Cardinality(todo) + 1])
        /\ UNCHANGED deskVars

\* The row; its owner is told by an event.
InsertTask(h) ==
    LET c == call[h]
        t == created + 1
    IN  /\ c.at = "create"
        /\ created < MaxTasks
        /\ End(h)
        /\ created' = t
        /\ tasks' = [tasks EXCEPT ![t] =
               [owner |-> c.person, lead |-> c.lead, status |-> "TODO", order |-> c.order,
                due |-> c.due]]
        /\ UNCHANGED <<notes, followups, shuffled>>

\* What a request changes of a task: some of its fields.
Changes ==
    [lead : Leads \cup {NoLead}] \cup [due : Days \cup {NoDay}] \cup [status : Statuses]

Moves == [status : Statuses, order : Places]

\* Only the owner finds the task.
BeginUpdateTask(h, p, t, change) ==
    /\ tasks[t].owner = p
    /\ "lead" \in DOMAIN change => MayName(p, change.lead)
    /\ Begin(h, [at |-> "write", person |-> p, task |-> t, change |-> change])
    /\ shuffled' = shuffled \cup {p}
    /\ UNCHANGED <<tasks, created, notes, followups>>

BeginMoveTask(h, p, t, change) ==
    /\ tasks[t].owner = p
    /\ Begin(h, [at |-> "write", person |-> p, task |-> t, change |-> change])
    /\ shuffled' = shuffled \cup {p}
    /\ UNCHANGED <<tasks, created, notes, followups>>

\* Mutant: the row becomes what was sent.
ChangedWholly(row, change) == change

Changed(row, change) ==
    [f \in DOMAIN row |-> IF f \in DOMAIN change THEN change[f] ELSE row[f]]

WriteTask(h) ==
    LET c == call[h]
    IN  /\ c.at = "write"
        /\ End(h)
        /\ tasks' = IF Exists(c.task)
                    THEN [tasks EXCEPT ![c.task] = Changed(tasks[c.task], c.change)]
                    ELSE tasks
        /\ UNCHANGED <<created, notes, followups, shuffled>>

BeginDeleteTask(h, p, t) ==
    /\ tasks[t].owner = p
    /\ Begin(h, [at |-> "remove", person |-> p, task |-> t])
    /\ shuffled' = shuffled \cup {p}
    /\ UNCHANGED <<tasks, created, notes, followups>>

DeleteTask(h) ==
    /\ call[h].at = "remove"
    /\ End(h)
    /\ tasks' = [tasks EXCEPT ![call[h].task] = NoTask]
    /\ UNCHANGED <<created, notes, followups, shuffled>>

----------------------------------------------------------------------------
(* Notes, and what the leads bring *)

CreateNote(p, n, day) ==
    /\ AskOnce
    /\ notes[n] = NoNote
    /\ notes' = [notes EXCEPT ![n] = [owner |-> p, day |-> day]]
    /\ UNCHANGED <<tasks, created, followups, shuffled>>

UpdateNote(p, n, day) ==
    /\ AskOnce
    /\ notes[n].owner = p
    /\ notes' = [notes EXCEPT ![n].day = day]
    /\ UNCHANGED <<tasks, created, followups, shuffled>>

DeleteNote(p, n) ==
    /\ AskOnce
    /\ notes[n].owner = p
    /\ notes' = [notes EXCEPT ![n] = NoNote]
    /\ UNCHANGED <<tasks, created, followups, shuffled>>

\* A status change of a lead plans a day to follow it up.
PlanFollowup(p, day) ==
    /\ AskOnce
    /\ followups' = followups \cup {<<p, day>>}
    /\ UNCHANGED <<tasks, created, notes, shuffled>>

----------------------------------------------------------------------------
(* What the pages show *)

Before(t, u) ==
    \/ tasks[t].order < tasks[u].order
    \/ tasks[t].order = tasks[u].order /\ t < u

\* The first tasks by order, then as created, in their columns.
GetTasks(p) ==
    LET found == {t \in TasksOf(p) : Cardinality({u \in TasksOf(p) : Before(u, t)}) < BoardTake}
    IN  [s \in Statuses |-> {<<tasks[t].order, t>> : t \in {t \in found : tasks[t].status = s}}]

\* Mutant: the first day of the next month is in the month, too.
InMonthAndOne(day, m) == day >= m * MonthLength /\ day <= (m + 1) * MonthLength

InMonth(day, m) == day >= m * MonthLength /\ day < (m + 1) * MonthLength

GetCalendar(p, m) ==
    {<<"FOLLOWUP", f[2]>> : f \in {f \in followups : f[1] = p /\ InMonth(f[2], m)}}
    \cup {<<"NOTE", n>> : n \in {n \in NoteIds : notes[n].owner = p /\ InMonth(notes[n].day, m)}}
    \cup {<<"TASK", t>> : t \in {t \in TasksOf(p) : tasks[t].due # NoDay /\ InMonth(tasks[t].due, m)}}

OpenTasksDue(p, from, to) ==
    {t \in TasksOf(p) : /\ tasks[t].due # NoDay /\ tasks[t].status # "COMPLETE"
                        /\ tasks[t].due >= from /\ tasks[t].due < to}

\* Mutant: the day that is today counts for both.
GetNotificationsTwice(p) ==
    [tasksDueToday : AnyOf(OpenTasksDue(p, today, today + 1), Take),
     tasksDueSoon : AnyOf(OpenTasksDue(p, today, today + 4), Take)]

\* The possible answers to a distributor.  (His follow-ups are in Reports.)
GetNotifications(p) ==
    [tasksDueToday : AnyOf(OpenTasksDue(p, today, today + 1), Take),
     tasksDueSoon : AnyOf(OpenTasksDue(p, today + 1, today + 4), Take)]

\* The answer to an administrator.
GetTaskNotifications(p) ==
    [tasksDueToday |-> OpenTasksDue(p, today, today + 1),
     overdueTasks |-> OpenTasksDue(p, 0, today)]

----------------------------------------------------------------------------

DeskInit ==
    /\ tasks = [t \in TaskIds |-> NoTask]
    /\ created = 0
    /\ notes = [n \in NoteIds |-> NoNote]
    /\ followups = {} /\ shuffled = {}

\* The routes of one person: tasks and calendar.
TaskRoutes(h, p) ==
    \/ \E lead \in Leads \cup {NoLead}, due \in Days \cup {NoDay} : BeginCreateTask(h, p, lead, due)
    \/ \E t \in TaskIds :
           \/ \E change \in Changes : BeginUpdateTask(h, p, t, change)
           \/ \E change \in Moves : BeginMoveTask(h, p, t, change)
           \/ BeginDeleteTask(h, p, t)

CalendarRoutes(p) ==
    \E n \in NoteIds :
        \/ \E day \in Days : CreateNote(p, n, day) \/ UpdateNote(p, n, day)
        \/ DeleteNote(p, n)

AdminTaskRoutes(h) == \E p \in Admins : TaskRoutes(h, p)

AdminCalendarRoutes == \E p \in Admins : CalendarRoutes(p)

DistributorRoutes(h) == \E p \in Distributors : TaskRoutes(h, p) \/ CalendarRoutes(p)

DeskNext ==
    \/ \E h \in Handlers :
           \/ AdminTaskRoutes(h) \/ DistributorRoutes(h)
           \/ CountTodo(h) \/ InsertTask(h) \/ WriteTask(h) \/ DeleteTask(h)
    \/ AdminCalendarRoutes
    \/ \E p \in Distributors :
           \E day \in Days : PlanFollowup(p, day)

\* The desk alone.
DeskSpec ==
    /\ ServiceInit /\ DeskInit
    /\ [][DeskNext \/ ((DayPasses \/ Restart) /\ UNCHANGED deskVars)]_<<service, deskVars>>

----------------------------------------------------------------------------
(* What should hold *)

\* Each dated row is in the calendar of its owner, in one month, and in no other.
CalendarShowsOnce ==
    \A p \in People :
        LET ShownIn(e) == {m \in Months : e \in GetCalendar(p, m)}
        IN  /\ \A n \in NoteIds :
                   Cardinality(ShownIn(<<"NOTE", n>>)) = IF notes[n].owner = p THEN 1 ELSE 0
            /\ \A t \in TaskIds :
                   Cardinality(ShownIn(<<"TASK", t>>)) =
                       IF Exists(t) /\ tasks[t].owner = p /\ tasks[t].due # NoDay THEN 1 ELSE 0

\* A distributor is reminded of his open tasks of today and of the next three days, of
\* each once, or the list it belongs to is full; an administrator of all that are due
\* or overdue, of each once.  (No list reminds a distributor of what is overdue, or an
\* administrator of what comes.)
RemindedOnce ==
    /\ \A p \in Distributors : \A told \in GetNotifications(p) :
           /\ told.tasksDueToday \cap told.tasksDueSoon = {}
           /\ \A t \in TasksOf(p) : tasks[t].due # NoDay /\ tasks[t].status # "COMPLETE" =>
                  LET list == IF tasks[t].due = today THEN told.tasksDueToday ELSE told.tasksDueSoon
                  IN  tasks[t].due \in today..today + 3 => t \in list \/ Cardinality(list) = Take
    /\ \A p \in Admins :
           LET told == GetTaskNotifications(p)
           IN  /\ told.tasksDueToday \cap told.overdueTasks = {}
               /\ told.tasksDueToday \cup told.overdueTasks =
                      {t \in TasksOf(p) : /\ tasks[t].due # NoDay /\ tasks[t].due <= today
                                          /\ tasks[t].status # "COMPLETE"}

\* On a board where nothing was edited, moved, deleted or created twice at once, the
\* tasks are in the order they were created.
BoardInOrder ==
    \A p \in People \ shuffled : \A s \in Statuses : \A a, b \in GetTasks(p)[s] :
        a[2] < b[2] => a[1] < b[1]
=============================================================================

-------------------------------- MODULE Live --------------------------------
(***************************************************************************)
(* Messages of the administrator and of the distributors to users: a row   *)
(* that is listed as long as it is active and not dismissed, and an event  *)
(* pushed at once to whoever is connected.                                 *)
(*                                                                         *)
(* Every instance of the server keeps the connections it holds.  An event  *)
(* is published through Redis, which hands it at most once to each         *)
(* instance, in the order of the channel and to whoever listens at that    *)
(* moment, and every instance writes it to its own connections.  A         *)
(* connection is opened with a ticket that is taken from Redis in two      *)
(* steps, or with the access token; both carry the role of the moment they *)
(* were issued.                                                            *)
(***************************************************************************)
EXTENDS Naturals, Sequences, FiniteSets, SequencesExt

CONSTANTS
    Users,          \* users, those who send included
    None,           \* null
    Referrer,       \* leads.distributorUuid, per user
    Instances,      \* processes of the server
    Conns,          \* connections that will ever be opened
    Messages,       \* broadcast_messages that will ever be written
    Readers,        \* requests that redeem a ticket at the same time
    MaxRequests,    \* bound on the requests
    MaxDisturbances \* bound on role changes and restarts together

Roles == {"USER", "CUSTOMER", "DISTRIBUTOR"}

ASSUME LiveAssumption ==
    /\ IsFiniteSet(Users)
    /\ None \notin Users \cup Conns
    /\ Referrer \in [Users -> Users \cup {None}]
    /\ MaxRequests \in Nat
    /\ MaxDisturbances \in Nat

VARIABLES
    role,           \* users.role
    tokenRole,      \* the role in the access token the user holds
    tickets,        \* tickets in Redis
    taken,          \* per reader, a ticket that was read and has still to be deleted
    conn,           \* connections
    clients,        \* per instance and user, the connection events are written to
    message,        \* broadcast_messages
    unsent,         \* messages whose row was written and that are to be pushed
    reads,          \* broadcast_reads
    queue,          \* per instance, what it has still to receive from the channel
    delivered,      \* which message was written to which connection
    requests,       \* requests so far
    disturbances    \* role changes and restarts so far

accounts == <<role, tokenRole>>
streams == <<tickets, taken, conn, clients>>
rows == <<message, unsent, reads>>
vars == <<accounts, streams, rows, queue, delivered, disturbances, requests>>

----------------------------------------------------------------------------
(* Rows, connections and events *)

Ticket == [user : Users, role : Roles]

Conn == [user : Users, role : Roles, instance : Instances, state : {"open", "ended", "gone"}]

NoConn == [state |-> "new"]

\* uuids are the users named one by one; the role "none" and no user is everybody.
Message == [by : Users \cup {None}, kind : {"ANNOUNCEMENT", "BROADCAST"},
            role : Roles \cup {"none"}, uuids : SUBSET Users, active : BOOLEAN]

NoMessage == [kind |-> "none"]

\* What the administrator asked for: ALL is stored as none.
Request == [role : Roles \cup {"ALL", "none"}, uuids : SUBSET Users]

ToUser(u, m) == [to |-> "user", target |-> u, message |-> m]
ToRole(r, m) == [to |-> "role", target |-> r, message |-> m]
Events == [to : {"user"}, target : Users, message : Messages]
              \cup [to : {"role"}, target : Roles, message : Messages]

Written(m) == message[m] # NoMessage
ByAdmin(m) == message[m].by = None

----------------------------------------------------------------------------
(* Tickets and connections *)

\* CUSTOMER, DISTRIBUTOR and the administrators; the role is that of the row.
MayStream(u) == role[u] \in {"CUSTOMER", "DISTRIBUTOR"}

Ask ==
    /\ requests < MaxRequests
    /\ requests' = requests + 1

\* POST sse-ticket asks for a token only.
StoreTicket(u) ==
    /\ Ask
    /\ tickets' = tickets \cup {[user |-> u, role |-> tokenRole[u]]}
    /\ UNCHANGED <<accounts, taken, conn, clients, rows, queue, delivered, disturbances>>

TicketExpires(t) ==
    /\ tickets' = tickets \ {t}
    /\ UNCHANGED <<accounts, taken, conn, clients, rows, queue, delivered, disturbances, requests>>

\* Mutant: the entry of an earlier connection is kept.
AddClientKept(i, u, r) ==
    \E c \in Conns :
        /\ conn[c] = NoConn
        /\ conn' = [k \in Conns |->
               IF k = c THEN [user |-> u, role |-> r, instance |-> i, state |-> "open"]
               ELSE IF k = clients[i][u] THEN [conn[k] EXCEPT !.state = "ended"]
               ELSE conn[k]]
        /\ clients' = [clients EXCEPT ![i][u] = IF @ = None THEN c ELSE @]

\* A new connection replaces the one the instance holds of the user, and ends it.
AddClient(i, u, r) ==
    \E c \in Conns :
        /\ conn[c] = NoConn
        /\ conn' = [k \in Conns |->
               IF k = c THEN [user |-> u, role |-> r, instance |-> i, state |-> "open"]
               ELSE IF k = clients[i][u] THEN [conn[k] EXCEPT !.state = "ended"]
               ELSE conn[k]]
        /\ clients' = [clients EXCEPT ![i][u] = c]

\* The value is read, then the key is deleted: two requests may read it.
ReadTicket(q, t) ==
    /\ Ask
    /\ taken[q] = None
    /\ taken' = [taken EXCEPT ![q] = t]
    /\ UNCHANGED <<accounts, tickets, conn, clients, rows, queue, delivered, disturbances>>

\* The roles guard looks the user up after the ticket was deleted.
RedeemTicket(q) ==
    /\ taken[q] # None
    /\ taken' = [taken EXCEPT ![q] = None]
    /\ tickets' = tickets \ {taken[q]}
    /\ \/ /\ MayStream(taken[q].user)
          /\ \E i \in Instances : AddClient(i, taken[q].user, taken[q].role)
       \/ /\ ~MayStream(taken[q].user)
          /\ UNCHANGED <<conn, clients>>
    /\ UNCHANGED <<accounts, rows, queue, delivered, disturbances, requests>>

OpenByToken(i, u) ==
    /\ Ask
    /\ MayStream(u)
    /\ AddClient(i, u, tokenRole[u])
    /\ UNCHANGED <<accounts, tickets, taken, rows, queue, delivered, disturbances>>

\* The close event of a connection, whether the client or the server ended it,
\* removes whatever the instance holds of the user.
RemoveClient(c) ==
    /\ conn[c].state \in {"open", "ended"}
    /\ conn' = [conn EXCEPT ![c].state = "gone"]
    /\ clients' = [clients EXCEPT ![conn[c].instance][conn[c].user] = None]
    /\ UNCHANGED <<accounts, tickets, taken, rows, queue, delivered, disturbances, requests>>

----------------------------------------------------------------------------
(* Events *)

\* Redis forgets what it published: an instance whose subscription is down at that
\* moment never receives it.
Publish(events) ==
    \E listening \in SUBSET Instances :
        queue' = [i \in Instances |-> IF i \in listening
                                      THEN queue[i] \o SetToSeq(events) ELSE queue[i]]

Receivers(i, e) ==
    {u \in Users : /\ clients[i][u] # None
                   /\ \/ e.to = "user" /\ e.target = u
                      \/ e.to = "role" /\ e.target = conn[clients[i][u]].role}

DeliverLocally(i) ==
    /\ queue[i] # <<>>
    /\ delivered' = delivered \cup
           {<<clients[i][u], Head(queue[i]).message>> : u \in Receivers(i, Head(queue[i]))}
    /\ queue' = [queue EXCEPT ![i] = Tail(@)]
    /\ UNCHANGED <<accounts, streams, rows, disturbances, requests>>

----------------------------------------------------------------------------
(* Messages *)

\* Mutant: ALL is stored as it was asked for.
AdminRowAll(kind, dto) ==
    [by |-> None, kind |-> kind, active |-> TRUE,
     role |-> IF kind = "ANNOUNCEMENT" THEN "none" ELSE dto.role,
     uuids |-> IF kind = "ANNOUNCEMENT" THEN {} ELSE dto.uuids]

\* An announcement is for everybody, whatever else was asked for.
AdminRow(kind, dto) ==
    [by |-> None, kind |-> kind, active |-> TRUE,
     role |-> IF kind = "ANNOUNCEMENT" \/ dto.role = "ALL" THEN "none" ELSE dto.role,
     uuids |-> IF kind = "ANNOUNCEMENT" THEN {} ELSE dto.uuids]

\* Mutant: the role is looked at before the users who were named.
AdminEventsByRole(m, kind, dto) ==
    IF kind = "ANNOUNCEMENT" \/ dto.role \in {"ALL", "none"}
    THEN {ToRole(r, m) : r \in {"CUSTOMER", "DISTRIBUTOR"}}
    ELSE {ToRole(dto.role, m)}

\* Who is told at once: everybody without a role, whoever was named or not.
AdminEvents(m, kind, dto) ==
    IF kind = "ANNOUNCEMENT" \/ dto.role \in {"ALL", "none"}
    THEN {ToRole(r, m) : r \in {"CUSTOMER", "DISTRIBUTOR"}}
    ELSE IF dto.uuids # {} THEN {ToUser(u, m) : u \in dto.uuids}
    ELSE {ToRole(dto.role, m)}

Write(m, row, events) ==
    /\ Ask
    /\ ~Written(m)
    /\ message' = [message EXCEPT ![m] = row]
    /\ unsent' = unsent \cup {<<m, events>>}
    /\ UNCHANGED <<accounts, streams, reads, queue, delivered, disturbances>>

CreateAdminBroadcast(m, kind, dto) ==
    Write(m, AdminRow(kind, dto), AdminEvents(m, kind, dto))

LeadsOf(d) == {u \in Users : Referrer[u] = d}

\* Users who are not leads of the distributor are dropped from those named; when
\* none is left the message is for all leads.
CreateDistributorBroadcast(m, d, uuids) ==
    LET named == uuids \cap LeadsOf(d)
    IN  /\ role[d] = "DISTRIBUTOR"
        /\ Write(m, [by |-> d, kind |-> "BROADCAST", role |-> "none", uuids |-> named,
                     active |-> TRUE],
                 {ToUser(u, m) : u \in IF named # {} THEN named ELSE LeadsOf(d)})

Push(p) ==
    /\ p \in unsent
    /\ unsent' = unsent \ {p}
    /\ Publish(p[2])
    /\ UNCHANGED <<accounts, streams, message, reads, delivered, disturbances, requests>>

DeactivateBroadcast(m) ==
    /\ Ask
    /\ Written(m)
    /\ message' = [message EXCEPT ![m].active = FALSE]
    /\ UNCHANGED <<accounts, streams, unsent, reads, queue, delivered, disturbances>>

\* Reading a broadcast dismisses it as well.
DismissBroadcast(m, u) ==
    /\ Ask
    /\ Written(m)
    /\ message[m].kind # "ANNOUNCEMENT"
    /\ reads' = reads \cup {<<m, u>>}
    /\ UNCHANGED <<accounts, streams, message, unsent, queue, delivered, disturbances>>

\* isVisibleToUser, for a user with the given role.
IsVisible(m, u, r) ==
    LET msg == message[m]
    IN  IF ByAdmin(m)
        THEN \/ msg.role = "none" /\ msg.uuids = {} /\ r \in {"CUSTOMER", "DISTRIBUTOR"}
             \/ msg.role = r /\ msg.uuids = {}
             \/ u \in msg.uuids
        ELSE u \in msg.uuids \/ (msg.uuids = {} /\ Referrer[u] = msg.by)

\* What the bell of a user shows.
ActiveBroadcasts(u) ==
    {m \in Messages : /\ Written(m) /\ message[m].active
                      /\ IsVisible(m, u, role[u])
                      /\ message[m].kind = "ANNOUNCEMENT" \/ <<m, u>> \notin reads}

----------------------------------------------------------------------------
(* The surroundings *)

Disturb ==
    /\ disturbances < MaxDisturbances
    /\ disturbances' = disturbances + 1

ChangeRole(u, r) ==
    /\ r # role[u]
    /\ Disturb
    /\ role' = [role EXCEPT ![u] = r]
    /\ UNCHANGED <<tokenRole, streams, rows, queue, delivered, requests>>

RenewToken(u) ==
    /\ tokenRole' = [tokenRole EXCEPT ![u] = role[u]]
    /\ UNCHANGED <<role, streams, rows, queue, delivered, disturbances, requests>>

\* An instance stops: its connections end, what it has not received is lost, and so
\* are the requests it was serving.
Restart(i) ==
    /\ Disturb
    /\ conn' = [c \in Conns |-> IF conn[c] # NoConn /\ conn[c].instance = i
                                THEN [conn[c] EXCEPT !.state = "gone"] ELSE conn[c]]
    /\ clients' = [clients EXCEPT ![i] = [u \in Users |-> None]]
    /\ queue' = [queue EXCEPT ![i] = <<>>]
    /\ \E lost \in SUBSET Readers :
           taken' = [q \in Readers |-> IF q \in lost THEN None ELSE taken[q]]
    /\ UNCHANGED <<accounts, tickets, rows, delivered, requests>>

Init ==
    /\ role \in [Users -> {"CUSTOMER", "DISTRIBUTOR"}]
    /\ \A u \in Users : role[u] = "DISTRIBUTOR" <=> LeadsOf(u) # {}
    /\ tokenRole = role
    /\ tickets = {}
    /\ taken = [q \in Readers |-> None]
    /\ conn = [c \in Conns |-> NoConn]
    /\ clients = [i \in Instances |-> [u \in Users |-> None]]
    /\ message = [m \in Messages |-> NoMessage]
    /\ unsent = {}
    /\ reads = {}
    /\ queue = [i \in Instances |-> <<>>]
    /\ delivered = {}
    /\ requests = 0
    /\ disturbances = 0

Connect ==
    \/ \E u \in Users : StoreTicket(u)
    \/ \E t \in tickets : TicketExpires(t)
    \/ \E q \in Readers, t \in tickets : ReadTicket(q, t)
    \/ \E q \in Readers : RedeemTicket(q)
    \/ \E i \in Instances, u \in Users : OpenByToken(i, u)
    \/ \E c \in Conns : RemoveClient(c)

Send ==
    \/ \E m \in Messages, kind \in {"ANNOUNCEMENT", "BROADCAST"}, dto \in Request :
           CreateAdminBroadcast(m, kind, dto)
    \/ \E m \in Messages, d \in Users, uuids \in SUBSET Users :
           CreateDistributorBroadcast(m, d, uuids)
    \/ \E p \in unsent : Push(p)
    \/ \E m \in Messages : DeactivateBroadcast(m)
    \/ \E m \in Messages, u \in Users : DismissBroadcast(m, u)

Next ==
    \/ Connect
    \/ Send
    \/ \E i \in Instances : DeliverLocally(i)
    \/ \E u \in Users, r \in Roles : ChangeRole(u, r)
    \/ \E u \in Users : RenewToken(u)
    \/ \E i \in Instances : Restart(i)

Spec == Init /\ [][Next]_vars

----------------------------------------------------------------------------
(* Properties *)

TypeOK ==
    /\ role \in [Users -> Roles]
    /\ tokenRole \in [Users -> Roles]
    /\ tickets \in SUBSET Ticket
    /\ taken \in [Readers -> Ticket \cup {None}]
    /\ conn \in [Conns -> Conn \cup {NoConn}]
    /\ clients \in [Instances -> [Users -> Conns \cup {None}]]
    /\ message \in [Messages -> Message \cup {NoMessage}]
    /\ unsent \in SUBSET (Messages \X SUBSET Events)
    /\ reads \in SUBSET (Messages \X Users)
    /\ queue \in [Instances -> Seq(Events)]
    /\ delivered \in SUBSET (Conns \X Messages)
    /\ requests \in 0..MaxRequests
    /\ disturbances \in 0..MaxDisturbances

\* What an instance writes to is never a connection that was replaced: events go
\* to the last connection of the user, or to none.
EntryIsCurrent ==
    \A i \in Instances, u \in Users :
        clients[i][u] # None =>
            LET c == conn[clients[i][u]]
            IN  c.user = u /\ c.instance = i /\ c.state = "open"

\* Nobody is told of a message that the list would not show to a user with the
\* role of the connection.  (An administrator's message to named users without a
\* role is pushed to every customer and distributor: it is left out here.)
PushedIsVisible ==
    \A p \in delivered :
        LET m == p[2]
        IN  \/ IsVisible(m, conn[p[1]].user, conn[p[1]].role)
            \/ ByAdmin(m) /\ message[m].role = "none" /\ message[m].uuids # {}

\* The rows have their types, and what is pushed may be seen.
MessagesSound == TypeOK /\ PushedIsVisible
=============================================================================

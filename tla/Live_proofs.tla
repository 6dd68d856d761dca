----------------------------- MODULE Live_proofs -----------------------------
(***************************************************************************)
(* Proofs about Live, for any number of users, instances, connections and  *)
(* messages, and any bounds: what an instance holds of a user is the       *)
(* connection that was opened last, as long as it is open, and what is     *)
(* pushed to a connection its user may see.                                *)
(***************************************************************************)
EXTENDS Live, FiniteSetTheorems, SequenceTheorems, TLAPS

\* The types of what the streams are made of.
StreamTypes ==
    /\ role \in [Users -> Roles]
    /\ tokenRole \in [Users -> Roles]
    /\ tickets \subseteq Ticket
    /\ taken \in [Readers -> Ticket \cup {None}]
    /\ conn \in [Conns -> Conn \cup {NoConn}]
    /\ clients \in [Instances -> [Users -> Conns \cup {None}]]

Inv == StreamTypes /\ EntryIsCurrent

LEMMA ConnShape ==
    ASSUME NEW c \in Conn
    PROVE  /\ c.user \in Users /\ c.instance \in Instances
           /\ c.state \in {"open", "ended", "gone"}
           /\ c # NoConn
           /\ \A s \in {"open", "ended", "gone"} :
                  /\ [c EXCEPT !.state = s] \in Conn
                  /\ [c EXCEPT !.state = s].user = c.user
                  /\ [c EXCEPT !.state = s].instance = c.instance
                  /\ [c EXCEPT !.state = s].state = s
  BY DEF Conn, NoConn

LEMMA InitInv == Init => Inv
<1>. SUFFICES ASSUME Init PROVE Inv
  OBVIOUS
<1>1. StreamTypes
  BY DEF Init, StreamTypes, Roles
<1>2. EntryIsCurrent
  BY DEF Init, EntryIsCurrent
<1>. QED
  BY <1>1, <1>2 DEF Inv

\* The connection that is added is new to every instance, and what it replaces is
\* nobody else's.
LEMMA AddClientKeeps ==
    ASSUME Inv, NEW i \in Instances, NEW u \in Users, NEW r \in Roles, AddClient(i, u, r)
    PROVE  /\ conn' \in [Conns -> Conn \cup {NoConn}]
           /\ clients' \in [Instances -> [Users -> Conns \cup {None}]]
           /\ EntryIsCurrent'
<1>. USE DEF Inv, StreamTypes
<1>1. PICK c \in Conns :
        /\ conn[c] = NoConn
        /\ conn' = [k \in Conns |->
               IF k = c THEN [user |-> u, role |-> r, instance |-> i, state |-> "open"]
               ELSE IF k = clients[i][u] THEN [conn[k] EXCEPT !.state = "ended"]
               ELSE conn[k]]
        /\ clients' = [clients EXCEPT ![i][u] = c]
  BY DEF AddClient
<1>2. \A j \in Instances, v \in Users : clients[j][v] # None =>
          /\ clients[j][v] \in Conns
          /\ clients[j][v] # c
          /\ conn[clients[j][v]] \in Conn
          /\ conn[clients[j][v]].user = v
          /\ conn[clients[j][v]].instance = j
          /\ conn[clients[j][v]].state = "open"
  <2>. TAKE j \in Instances, v \in Users
  <2>. HAVE clients[j][v] # None
  <2>. DEFINE k == clients[j][v]
  <2>1. k \in Conns
    OBVIOUS
  <2>2. conn[k].user = v /\ conn[k].instance = j /\ conn[k].state = "open"
    BY DEF EntryIsCurrent
  <2>3. conn[k] # NoConn
    BY <2>2 DEF NoConn
  <2>. QED
    BY <1>1, <2>1, <2>2, <2>3
<1>3. [user |-> u, role |-> r, instance |-> i, state |-> "open"] \in Conn
  BY DEF Conn
<1>4. conn' \in [Conns -> Conn \cup {NoConn}]
  <2>. SUFFICES ASSUME NEW k \in Conns PROVE conn'[k] \in Conn \cup {NoConn}
    BY <1>1
  <2>1. CASE k = c
    BY <1>1, <1>3, <2>1
  <2>2. CASE k # c /\ k = clients[i][u]
    <3>1. conn[k] \in Conn
      BY <1>2, <2>2, LiveAssumption
    <3>2. [conn[k] EXCEPT !.state = "ended"] \in Conn
      BY <3>1, ConnShape
    <3>. QED
      BY <1>1, <2>2, <3>2
  <2>3. CASE k # c /\ k # clients[i][u]
    BY <1>1, <2>3
  <2>. QED
    BY <2>1, <2>2, <2>3
<1>5. clients' \in [Instances -> [Users -> Conns \cup {None}]]
  BY <1>1
<1>6. EntryIsCurrent'
  <2>. SUFFICES ASSUME NEW j \in Instances, NEW v \in Users, clients'[j][v] # None
                PROVE  /\ conn'[clients'[j][v]].user = v
                       /\ conn'[clients'[j][v]].instance = j
                       /\ conn'[clients'[j][v]].state = "open"
    BY DEF EntryIsCurrent
  <2>1. CASE j = i /\ v = u
    <3>1. clients'[j][v] = c
      BY <1>1, <2>1
    <3>. QED
      BY <1>1, <2>1, <3>1
  <2>2. CASE ~(j = i /\ v = u)
    <3>1. clients'[j][v] = clients[j][v]
      BY <1>1, <2>2
    <3>2. clients[j][v] # clients[i][u]
      BY <1>2, <2>2, <3>1
    <3>3. conn'[clients[j][v]] = conn[clients[j][v]]
      BY <1>1, <1>2, <3>1, <3>2
    <3>. QED
      BY <1>2, <3>1, <3>3
  <2>. QED
    BY <2>1, <2>2
<1>. QED
  BY <1>4, <1>5, <1>6

\* A request that opens a connection knows a user and a role.
LEMMA ConnectKeeps ==
    ASSUME Inv, Connect PROVE Inv'
<1>. USE DEF Inv, StreamTypes
<1>1. ASSUME NEW u \in Users, StoreTicket(u) PROVE Inv'
  <2>1. [user |-> u, role |-> tokenRole[u]] \in Ticket
    BY DEF Ticket
  <2>. QED
    BY <1>1, <2>1 DEF StoreTicket, accounts, rows, EntryIsCurrent
<1>2. ASSUME NEW t \in tickets, TicketExpires(t) PROVE Inv'
  BY <1>2 DEF TicketExpires, accounts, rows, EntryIsCurrent
<1>3. ASSUME NEW q \in Readers, NEW t \in tickets, ReadTicket(q, t) PROVE Inv'
  BY <1>3 DEF ReadTicket, accounts, rows, EntryIsCurrent
<1>4. ASSUME NEW q \in Readers, RedeemTicket(q) PROVE Inv'
  <2>. DEFINE t == taken[q]
  <2>1. t \in Ticket
    BY <1>4 DEF RedeemTicket
  <2>2. t.user \in Users /\ t.role \in Roles
    BY <2>1 DEF Ticket
  <2>3. tickets' \subseteq Ticket /\ taken' \in [Readers -> Ticket \cup {None}]
        /\ UNCHANGED <<role, tokenRole>>
    BY <1>4 DEF RedeemTicket, accounts
  <2>4. CASE \E i \in Instances : AddClient(i, t.user, t.role)
    <3>1. PICK i \in Instances : AddClient(i, t.user, t.role)
      BY <2>4
    <3>2. /\ conn' \in [Conns -> Conn \cup {NoConn}]
          /\ clients' \in [Instances -> [Users -> Conns \cup {None}]]
          /\ EntryIsCurrent'
      BY <2>2, <3>1, AddClientKeeps
    <3>. QED
      BY <2>3, <3>2
  <2>5. CASE UNCHANGED <<conn, clients>>
    BY <2>3, <2>5 DEF EntryIsCurrent
  <2>. QED
    BY <1>4, <2>4, <2>5 DEF RedeemTicket
<1>5. ASSUME NEW i \in Instances, NEW u \in Users, OpenByToken(i, u) PROVE Inv'
  <2>1. AddClient(i, u, tokenRole[u]) /\ tokenRole[u] \in Roles
    BY <1>5 DEF OpenByToken
  <2>2. /\ conn' \in [Conns -> Conn \cup {NoConn}]
        /\ clients' \in [Instances -> [Users -> Conns \cup {None}]]
        /\ EntryIsCurrent'
    BY <2>1, AddClientKeeps
  <2>. QED
    BY <1>5, <2>2 DEF OpenByToken, accounts
<1>6. ASSUME NEW c \in Conns, RemoveClient(c) PROVE Inv'
  <2>. DEFINE i == conn[c].instance
              u == conn[c].user
  <2>1. conn[c] \in Conn
    BY <1>6 DEF RemoveClient, NoConn
  <2>2. i \in Instances /\ u \in Users /\ [conn[c] EXCEPT !.state = "gone"] \in Conn
    BY <2>1, ConnShape
  <2>3. /\ conn' = [conn EXCEPT ![c] = [conn[c] EXCEPT !.state = "gone"]]
        /\ clients' = [clients EXCEPT ![i][u] = None]
        /\ UNCHANGED <<role, tokenRole, tickets, taken>>
    BY <1>6 DEF RemoveClient, accounts
  <2>4. EntryIsCurrent'
    <3>. SUFFICES ASSUME NEW j \in Instances, NEW v \in Users, clients'[j][v] # None
                  PROVE  /\ conn'[clients'[j][v]].user = v
                         /\ conn'[clients'[j][v]].instance = j
                         /\ conn'[clients'[j][v]].state = "open"
      BY DEF EntryIsCurrent
    <3>1. ~(j = i /\ v = u) /\ clients'[j][v] = clients[j][v]
      BY <2>2, <2>3
    <3>2. /\ conn[clients[j][v]].user = v
          /\ conn[clients[j][v]].instance = j
          /\ conn[clients[j][v]].state = "open"
      BY <3>1 DEF EntryIsCurrent
    <3>3. conn'[clients[j][v]] = conn[clients[j][v]]
      BY <2>3, <3>1, <3>2
    <3>. QED
      BY <3>1, <3>2, <3>3
  <2>. QED
    BY <2>2, <2>3, <2>4
<1>. QED
  BY <1>1, <1>2, <1>3, <1>4, <1>5, <1>6 DEF Connect

\* Messages do not touch the streams.
LEMMA SendKeeps ==
    ASSUME Inv, Send PROVE Inv'
<1>1. UNCHANGED <<accounts, streams>>
  BY DEF Send, CreateAdminBroadcast, CreateDistributorBroadcast, Write, Push,
         DeactivateBroadcast, DismissBroadcast
<1>. QED
  BY <1>1 DEF Inv, StreamTypes, EntryIsCurrent, accounts, streams

\* An instance that stops forgets its connections.
LEMMA RestartKeeps ==
    ASSUME Inv, NEW i \in Instances, Restart(i) PROVE Inv'
<1>. USE DEF Inv, StreamTypes
<1>1. /\ clients' = [clients EXCEPT ![i] = [u \in Users |-> None]]
      /\ conn' = [c \in Conns |-> IF conn[c] # NoConn /\ conn[c].instance = i
                                  THEN [conn[c] EXCEPT !.state = "gone"] ELSE conn[c]]
      /\ UNCHANGED <<role, tokenRole, tickets>>
  BY DEF Restart, accounts
<1>2. taken' \in [Readers -> Ticket \cup {None}]
  BY DEF Restart
<1>3. conn' \in [Conns -> Conn \cup {NoConn}]
  <2>. SUFFICES ASSUME NEW c \in Conns PROVE conn'[c] \in Conn \cup {NoConn}
    BY <1>1
  <2>1. CASE conn[c] = NoConn
    BY <1>1, <2>1
  <2>2. CASE conn[c] # NoConn
    <3>1. conn[c] \in Conn
      BY <2>2
    <3>2. [conn[c] EXCEPT !.state = "gone"] \in Conn
      BY <3>1, ConnShape
    <3>. QED
      BY <1>1, <3>1, <3>2
  <2>. QED
    BY <2>1, <2>2
<1>4. EntryIsCurrent'
  <2>. SUFFICES ASSUME NEW j \in Instances, NEW v \in Users, clients'[j][v] # None
                PROVE  /\ conn'[clients'[j][v]].user = v
                       /\ conn'[clients'[j][v]].instance = j
                       /\ conn'[clients'[j][v]].state = "open"
    BY DEF EntryIsCurrent
  <2>1. j # i /\ clients'[j][v] = clients[j][v] /\ clients[j][v] \in Conns
    BY <1>1
  <2>2. /\ conn[clients[j][v]].user = v
        /\ conn[clients[j][v]].instance = j
        /\ conn[clients[j][v]].state = "open"
    BY <2>1 DEF EntryIsCurrent
  <2>. QED
    BY <1>1, <2>1, <2>2
<1>. QED
  BY <1>1, <1>2, <1>3, <1>4

LEMMA NextInv == Inv /\ [Next]_vars => Inv'
<1>. SUFFICES ASSUME Inv, [Next]_vars PROVE Inv'
  OBVIOUS
<1>1. CASE Connect
  BY <1>1, ConnectKeeps
<1>2. CASE Send
  BY <1>2, SendKeeps
<1>3. ASSUME NEW i \in Instances, DeliverLocally(i) PROVE Inv'
  BY <1>3 DEF DeliverLocally, Inv, StreamTypes, EntryIsCurrent, accounts, streams
<1>4. ASSUME NEW u \in Users, NEW r \in Roles, ChangeRole(u, r) PROVE Inv'
  BY <1>4 DEF ChangeRole, Inv, StreamTypes, EntryIsCurrent, streams
<1>5. ASSUME NEW u \in Users, RenewToken(u) PROVE Inv'
  BY <1>5 DEF RenewToken, Inv, StreamTypes, EntryIsCurrent, streams
<1>6. ASSUME NEW i \in Instances, Restart(i) PROVE Inv'
  BY <1>6, RestartKeeps
<1>7. CASE UNCHANGED vars
  BY <1>7 DEF vars, Inv, StreamTypes, EntryIsCurrent, accounts, streams
<1>. QED
  BY <1>1, <1>2, <1>3, <1>4, <1>5, <1>6, <1>7 DEF Next

\* What an instance writes to is the connection the user opened last, and it is open:
\* a close event, which removes whatever the instance holds of the user, may lose the
\* new connection but never leaves an old one.
THEOREM NewestOrNone == Spec => []EntryIsCurrent
<1>1. Inv => EntryIsCurrent
  BY DEF Inv
<1>. QED
  BY <1>1, InitInv, NextInv, PTL DEF Spec

----------------------------------------------------------------------------
(* What is pushed *)

\* The types of the rows and of what is on its way.
RowTypes ==
    /\ message \in [Messages -> Message \cup {NoMessage}]
    /\ unsent \in SUBSET (Messages \X SUBSET Events)
    /\ reads \in SUBSET (Messages \X Users)
    /\ queue \in [Instances -> Seq(Events)]
    /\ delivered \in SUBSET (Conns \X Messages)
    /\ requests \in 0..MaxRequests
    /\ disturbances \in 0..MaxDisturbances

\* The administrator's messages to named users without a role.
Unlisted(m) == ByAdmin(m) /\ message[m].role = "none" /\ message[m].uuids # {}

\* The list shows the message of an event to whoever the event is for: to the user,
\* whatever the role, or to the role, whoever has it.
Fits(e) ==
    /\ Written(e.message)
    /\ \/ e.to = "user" /\ \A r \in Roles : IsVisible(e.message, e.target, r)
       \/ e.to = "role" /\ \A u \in Users : IsVisible(e.message, u, e.target)
       \/ Unlisted(e.message)

\* An event that is still to be pushed, or that an instance has still to receive.
Queued(e) == \E i \in Instances : \E k \in DOMAIN queue[i] : queue[i][k] = e
Pending(e) == Queued(e) \/ \E p \in unsent : e \in p[2]

\* What was written to a connection could be told to it.
Told(p) ==
    /\ conn[p[1]] # NoConn
    /\ Written(p[2])
    /\ IsVisible(p[2], conn[p[1]].user, conn[p[1]].role) \/ Unlisted(p[2])

PushInv ==
    /\ RowTypes
    /\ \A p \in unsent : IsFiniteSet(p[2])
    /\ \A e \in Events : Pending(e) => Fits(e)
    /\ \A p \in delivered : Told(p)

\* Rows are never rewritten, but for being deactivated, and connections keep the user
\* and the role they were opened with.
Kept ==
    /\ \A m \in Messages : Written(m) =>
           /\ Written(m)'
           /\ message'[m].by = message[m].by
           /\ message'[m].role = message[m].role
           /\ message'[m].uuids = message[m].uuids
    /\ \A c \in Conns : conn[c] # NoConn =>
           /\ conn'[c] # NoConn
           /\ conn'[c].user = conn[c].user
           /\ conn'[c].role = conn[c].role

LEMMA EventShape ==
    ASSUME NEW e \in Events
    PROVE  /\ e.message \in Messages
           /\ e.to \in {"user", "role"}
           /\ e.to = "user" => e.target \in Users
           /\ e.to = "role" => e.target \in Roles
  BY DEF Events

LEMMA EventsTyped ==
    ASSUME NEW m \in Messages
    PROVE  /\ \A u \in Users : ToUser(u, m) \in Events
           /\ \A r \in Roles : ToRole(r, m) \in Events
  BY DEF Events, ToUser, ToRole

\* A finite set of events is published as a sequence of its members.
LEMMA SetToSeqTyped ==
    ASSUME NEW S, IsFiniteSet(S)
    PROVE  SetToSeq(S) \in Seq(S)
<1>1. Cardinality(S) \in Nat /\ ExistsBijection(1..Cardinality(S), S)
  BY FS_CardinalityType
<1>2. \E f \in [1..Cardinality(S) -> S] : IsInjective(f)
  BY <1>1 DEF ExistsBijection, Bijection, Injection
<1>3. SetToSeq(S) \in [1..Cardinality(S) -> S]
  BY <1>2 DEF SetToSeq
<1>. QED
  BY <1>1, <1>3, SeqDef

LEMMA KeptFits ==
    ASSUME Kept, NEW e \in Events, Fits(e)
    PROVE  Fits(e)'
<1>1. e.message \in Messages
  BY EventShape
<1>. QED
  BY <1>1 DEF Fits, Kept, IsVisible, ByAdmin, Unlisted

LEMMA KeptTold ==
    ASSUME Kept, NEW p \in Conns \X Messages, Told(p)
    PROVE  Told(p)'
<1>1. p[1] \in Conns /\ p[2] \in Messages
  OBVIOUS
<1>. QED
  BY <1>1 DEF Told, Kept, IsVisible, ByAdmin, Unlisted

LEMMA PushFromStep ==
    ASSUME PushInv, Kept, RowTypes',
           \A p \in unsent' : p \in unsent \/ IsFiniteSet(p[2]),
           \A e \in Events : Pending(e)' => Pending(e) \/ Fits(e)',
           \A p \in delivered' : p \in delivered \/ Told(p)'
    PROVE  PushInv'
<1>1. \A e \in Events : Pending(e)' => Fits(e)'
  BY KeptFits DEF PushInv
<1>2. \A p \in delivered' : Told(p)'
  BY KeptTold DEF PushInv, RowTypes
<1>3. \A p \in unsent' : IsFiniteSet(p[2])
  BY DEF PushInv
<1>. QED
  BY <1>1, <1>2, <1>3 DEF PushInv

\* Rows and events are left alone while connections come and go.
LEMMA StreamsPush ==
    ASSUME PushInv, Kept, UNCHANGED <<rows, queue, delivered>>,
           requests' \in 0..MaxRequests, disturbances' \in 0..MaxDisturbances
    PROVE  PushInv'
<1>1. RowTypes'
  BY DEF PushInv, RowTypes, rows
<1>. QED
  BY <1>1, PushFromStep DEF rows, Pending, Queued

LEMMA AskTyped ==
    ASSUME PushInv, Ask PROVE requests' \in 0..MaxRequests
  BY LiveAssumption DEF Ask, PushInv, RowTypes

LEMMA DisturbTyped ==
    ASSUME PushInv, Disturb PROVE disturbances' \in 0..MaxDisturbances
  BY LiveAssumption DEF Disturb, PushInv, RowTypes

LEMMA AddClientConns ==
    ASSUME Inv, NEW i \in Instances, NEW u \in Users, NEW r \in Roles, AddClient(i, u, r),
           message' = message
    PROVE  Kept
<1>1. PICK c \in Conns :
        /\ conn[c] = NoConn
        /\ conn' = [k \in Conns |->
               IF k = c THEN [user |-> u, role |-> r, instance |-> i, state |-> "open"]
               ELSE IF k = clients[i][u] THEN [conn[k] EXCEPT !.state = "ended"]
               ELSE conn[k]]
  BY DEF AddClient
<1>2. ASSUME NEW k \in Conns, conn[k] # NoConn
      PROVE  conn'[k] # NoConn /\ conn'[k].user = conn[k].user /\ conn'[k].role = conn[k].role
  <2>1. conn[k] \in Conn /\ k # c
    BY <1>1, <1>2 DEF Inv, StreamTypes
  <2>. DEFINE b == [conn[k] EXCEPT !.state = "ended"]
  <2>2. b \in Conn /\ b.user = conn[k].user
    BY <2>1, ConnShape
  <2>3. conn'[k] \in {conn[k], b}
    BY <1>1, <2>1
  <2>4. b.role = conn[k].role
    BY <2>1 DEF Conn
  <2>5. b # NoConn
    BY <2>2, ConnShape
  <2>. HIDE DEF b
  <2>. QED
    BY <1>2, <2>2, <2>3, <2>4, <2>5
<1>. QED
  BY <1>2 DEF Kept, Written

LEMMA ConnectPushes ==
    ASSUME Inv, PushInv, Connect PROVE PushInv'
<1>. USE DEF Inv, StreamTypes
<1>1. requests' \in 0..MaxRequests /\ disturbances' \in 0..MaxDisturbances
      /\ UNCHANGED <<rows, queue, delivered>>
  <2>1. (UNCHANGED requests \/ Ask) /\ UNCHANGED <<rows, queue, delivered, disturbances>>
    BY DEF Connect, StoreTicket, TicketExpires, ReadTicket, RedeemTicket, OpenByToken, RemoveClient
  <2>. QED
    BY <2>1, AskTyped DEF PushInv, RowTypes
<1>2. message' = message
  BY <1>1 DEF rows
<1>3. CASE conn' = conn
  BY <1>1, <1>2, <1>3, StreamsPush DEF Kept, Written
<1>4. ASSUME NEW q \in Readers, RedeemTicket(q) PROVE PushInv'
  <2>1. taken[q] \in Ticket
    BY <1>4 DEF RedeemTicket
  <2>2. taken[q].user \in Users /\ taken[q].role \in Roles
    BY <2>1 DEF Ticket
  <2>3. conn' = conn \/ \E i \in Instances : AddClient(i, taken[q].user, taken[q].role)
    BY <1>4 DEF RedeemTicket
  <2>. QED
    BY <1>1, <1>2, <1>3, <2>2, <2>3, AddClientConns, StreamsPush
<1>5. ASSUME NEW i \in Instances, NEW u \in Users, OpenByToken(i, u) PROVE PushInv'
  <2>1. AddClient(i, u, tokenRole[u]) /\ tokenRole[u] \in Roles
    BY <1>5 DEF OpenByToken
  <2>. QED
    BY <1>1, <1>2, <2>1, AddClientConns, StreamsPush
<1>6. ASSUME NEW c \in Conns, RemoveClient(c) PROVE PushInv'
  <2>1. conn[c] \in Conn /\ conn' = [conn EXCEPT ![c] = [conn[c] EXCEPT !.state = "gone"]]
    BY <1>6 DEF RemoveClient, NoConn
  <2>2. [conn[c] EXCEPT !.state = "gone"] \in Conn
        /\ [conn[c] EXCEPT !.state = "gone"].user = conn[c].user
    BY <2>1, ConnShape
  <2>3. [conn[c] EXCEPT !.state = "gone"].role = conn[c].role
        /\ [conn[c] EXCEPT !.state = "gone"] # NoConn
    BY <2>1, <2>2, ConnShape DEF Conn
  <2>4. Kept
    BY <1>2, <2>1, <2>2, <2>3 DEF Kept, Written
  <2>. QED
    BY <1>1, <2>4, StreamsPush
<1>7. conn' = conn \/ (\E q \in Readers : RedeemTicket(q))
      \/ (\E i \in Instances, u \in Users : OpenByToken(i, u))
      \/ (\E c \in Conns : RemoveClient(c))
  BY DEF Connect, StoreTicket, TicketExpires, ReadTicket
<1>. QED
  BY <1>3, <1>4, <1>5, <1>6, <1>7

\* A new row and its events: they are finitely many, and the list shows the row to
\* those they are for.
LEMMA WritePushes ==
    ASSUME PushInv, NEW m \in Messages, NEW row \in Message, NEW events \in SUBSET Events,
           Write(m, row, events), IsFiniteSet(events), \A e \in events : Fits(e)'
    PROVE  PushInv'
<1>1. /\ message[m] = NoMessage /\ message' = [message EXCEPT ![m] = row]
      /\ unsent' = unsent \cup {<<m, events>>} /\ Ask
      /\ UNCHANGED <<conn, reads, queue, delivered, disturbances>>
  BY DEF Write, Written, streams
<1>2. Kept
  BY <1>1 DEF Kept, Written, PushInv, RowTypes
<1>3. RowTypes'
  BY <1>1, AskTyped DEF PushInv, RowTypes
<1>4. \A p \in unsent' : p \in unsent \/ p[2] = events
  BY <1>1
<1>5. \A e \in Events : Pending(e)' => Pending(e) \/ e \in events
  BY <1>1, <1>4 DEF Pending, Queued
<1>. QED
  BY <1>1, <1>2, <1>3, <1>4, <1>5, PushFromStep

LEMMA NamedAreFinite ==
    ASSUME NEW U \in SUBSET Users, NEW m
    PROVE  IsFiniteSet({ToUser(u, m) : u \in U})
<1>. DEFINE T == {ToUser(u, m) : u \in U}
            f == [u \in U |-> ToUser(u, m)]
<1>1. IsFiniteSet(U)
  BY LiveAssumption, FS_Subset
<1>2. f \in Surjection(U, T)
  BY DEF Surjection
<1>. HIDE DEF f, T
<1>3. IsFiniteSet(T)
  BY <1>1, <1>2, FS_Surjection
<1>. QED
  BY <1>3 DEF T

LEMMA AdminPushes ==
    ASSUME PushInv, NEW m \in Messages, NEW kind \in {"ANNOUNCEMENT", "BROADCAST"},
           NEW dto \in Request, CreateAdminBroadcast(m, kind, dto)
    PROVE  PushInv'
<1>. DEFINE row == AdminRow(kind, dto)
            events == AdminEvents(m, kind, dto)
<1>1. dto.role \in Roles \cup {"ALL", "none"} /\ dto.uuids \in SUBSET Users
  BY DEF Request
<1>2. row \in Message
  BY <1>1 DEF AdminRow, Message
<1>3. events \in SUBSET Events
  BY <1>1, EventsTyped DEF AdminEvents, Roles
<1>4. IsFiniteSet(events)
  <2>1. IsFiniteSet({ToRole("CUSTOMER", m), ToRole("DISTRIBUTOR", m)})
    <3>. PICK a, b : a = ToRole("CUSTOMER", m) /\ b = ToRole("DISTRIBUTOR", m)
      OBVIOUS
    <3>1. IsFiniteSet({a})
      BY FS_Singleton
    <3>2. IsFiniteSet({a} \cup {b})
      BY <3>1, FS_AddElement
    <3>3. {a, b} = {a} \cup {b}
      OBVIOUS
    <3>. QED
      BY <3>2, <3>3
  <2>2. {ToRole(r, m) : r \in {"CUSTOMER", "DISTRIBUTOR"}}
            = {ToRole("CUSTOMER", m), ToRole("DISTRIBUTOR", m)}
    OBVIOUS
  <2>3. IsFiniteSet({ToRole(dto.role, m)}) /\ IsFiniteSet({ToUser(u, m) : u \in dto.uuids})
    BY <1>1, FS_Singleton, NamedAreFinite
  <2>. QED
    BY <2>1, <2>2, <2>3 DEF AdminEvents
<1>5. message[m] = NoMessage /\ message' = [message EXCEPT ![m] = row]
  BY DEF CreateAdminBroadcast, Write, Written
<1>6. message'[m] = row
  BY <1>5 DEF PushInv, RowTypes
<1>7. row.by = None /\ row.kind # "none" /\ Written(m)'
  BY <1>2, <1>6 DEF AdminRow, Written, NoMessage
<1>8. ASSUME NEW e \in events PROVE Fits(e)'
  <2>1. CASE kind = "ANNOUNCEMENT" \/ (dto.role \in {"ALL", "none"} /\ dto.uuids = {})
    <3>1. row.role = "none" /\ row.uuids = {}
      BY <1>1, <2>1 DEF AdminRow, Roles
    <3>2. PICK r \in {"CUSTOMER", "DISTRIBUTOR"} : e = ToRole(r, m)
      BY <2>1 DEF AdminEvents
    <3>3. \A u \in Users : IsVisible(m, u, r)'
      BY <1>6, <1>7, <3>1 DEF IsVisible, ByAdmin
    <3>. QED
      BY <1>7, <3>2, <3>3 DEF Fits, ToRole
  <2>2. CASE kind # "ANNOUNCEMENT" /\ dto.role \in {"ALL", "none"} /\ dto.uuids # {}
    <3>1. row.role = "none" /\ row.uuids # {}
      BY <2>2 DEF AdminRow
    <3>2. e.message = m
      BY <2>2 DEF AdminEvents, ToRole
    <3>. QED
      BY <1>6, <1>7, <3>1, <3>2 DEF Fits, Unlisted, ByAdmin
  <2>3. CASE kind # "ANNOUNCEMENT" /\ dto.role \in Roles
    <3>1. row.role = dto.role /\ row.uuids = dto.uuids /\ dto.role \notin {"ALL", "none"}
      BY <2>3 DEF AdminRow, Roles
    <3>2. CASE dto.uuids # {}
      <4>1. PICK u \in dto.uuids : e = ToUser(u, m)
        BY <2>3, <3>1, <3>2 DEF AdminEvents
      <4>2. \A r \in Roles : IsVisible(m, u, r)'
        BY <1>6, <1>7, <3>1 DEF IsVisible, ByAdmin
      <4>. QED
        BY <1>7, <4>1, <4>2 DEF Fits, ToUser
    <3>3. CASE dto.uuids = {}
      <4>1. e = ToRole(dto.role, m)
        BY <2>3, <3>1, <3>3 DEF AdminEvents
      <4>2. \A u \in Users : IsVisible(m, u, dto.role)'
        BY <1>6, <1>7, <3>1, <3>3 DEF IsVisible, ByAdmin
      <4>. QED
        BY <1>7, <4>1, <4>2 DEF Fits, ToRole
    <3>. QED
      BY <3>2, <3>3
  <2>. QED
    BY <1>1, <2>1, <2>2, <2>3
<1>9. Write(m, row, events)
  BY DEF CreateAdminBroadcast
<1>. HIDE DEF row, events
<1>. QED
  BY <1>2, <1>3, <1>4, <1>8, <1>9, WritePushes

LEMMA DistributorPushes ==
    ASSUME PushInv, NEW m \in Messages, NEW d \in Users, NEW uuids \in SUBSET Users,
           CreateDistributorBroadcast(m, d, uuids)
    PROVE  PushInv'
<1>. DEFINE named == uuids \cap LeadsOf(d)
            told == IF named # {} THEN named ELSE LeadsOf(d)
            row == [by |-> d, kind |-> "BROADCAST", role |-> "none", uuids |-> named,
                    active |-> TRUE]
            events == {ToUser(u, m) : u \in told}
<1>1. named \in SUBSET Users /\ told \in SUBSET Users
  BY DEF LeadsOf
<1>2. row \in Message
  BY <1>1 DEF Message
<1>3. events \in SUBSET Events
  BY <1>1, EventsTyped
<1>4. IsFiniteSet(events)
  BY <1>1, NamedAreFinite
<1>5. Write(m, row, events)
  BY DEF CreateDistributorBroadcast
<1>6. message'[m] = row
  BY <1>5 DEF Write, PushInv, RowTypes
<1>7. Written(m)'
  BY <1>6 DEF Written, NoMessage
<1>8. ASSUME NEW e \in events PROVE Fits(e)'
  <2>1. PICK u \in told : e = ToUser(u, m)
    OBVIOUS
  <2>2. message'[m].by = d /\ d # None /\ message'[m].uuids = named
    BY <1>6, LiveAssumption
  <2>3. u \in named \/ (named = {} /\ Referrer[u] = d)
    BY DEF LeadsOf
  <2>. HIDE DEF named, told, row, events
  <2>4. \A r \in Roles : IsVisible(m, u, r)'
    BY <2>2, <2>3 DEF IsVisible, ByAdmin
  <2>. QED
    BY <1>7, <2>1, <2>4 DEF Fits, ToUser
<1>. HIDE DEF named, told, row, events
<1>. QED
  BY <1>2, <1>3, <1>4, <1>5, <1>8, WritePushes

LEMMA PushPushes ==
    ASSUME PushInv, NEW p \in unsent, Push(p) PROVE PushInv'
<1>. DEFINE s == SetToSeq(p[2])
<1>1. p \in Messages \X SUBSET Events /\ IsFiniteSet(p[2])
  BY DEF PushInv, RowTypes
<1>2. s \in Seq(p[2]) /\ p[2] \in SUBSET Events
  BY <1>1, SetToSeqTyped
<1>3. s \in Seq(Events)
  BY <1>2, SeqMonotonic
<1>4. /\ unsent' = unsent \ {p} /\ Publish(p[2])
      /\ UNCHANGED <<conn, message, reads, delivered, requests, disturbances>>
  BY DEF Push, streams
<1>11. PICK listening \in SUBSET Instances :
          queue' = [i \in Instances |-> IF i \in listening THEN queue[i] \o s ELSE queue[i]]
  BY <1>4 DEF Publish
<1>5. \A i \in Instances : queue[i] \in Seq(Events)
  BY DEF PushInv, RowTypes
<1>. HIDE DEF s
<1>6. RowTypes'
  <2>1. \A i \in Instances : queue[i] \o s \in Seq(Events)
    BY <1>3, <1>5, ConcatProperties
  <2>2. queue' \in [Instances -> Seq(Events)]
    BY <1>5, <1>11, <2>1
  <2>. QED
    BY <1>4, <2>2 DEF PushInv, RowTypes
<1>7. ASSUME NEW i \in Instances, NEW k \in DOMAIN queue'[i]
      PROVE  queue'[i][k] \in p[2] \/ \E j \in DOMAIN queue[i] : queue[i][j] = queue'[i][k]
  <2>. DEFINE q == queue[i]
  <2>8. CASE i \notin listening
    BY <1>7, <1>11, <2>8
  <2>. SUFFICES ASSUME i \in listening
                PROVE  queue'[i][k] \in p[2] \/ \E j \in DOMAIN q : q[j] = queue'[i][k]
    BY <2>8
  <2>1. queue'[i] = q \o s /\ q \in Seq(Events)
    BY <1>5, <1>11
  <2>. HIDE DEF q
  <2>2. /\ q \o s \in Seq(Events) /\ Len(q \o s) = Len(q) + Len(s)
        /\ \A j \in 1 .. Len(q) + Len(s) :
               (q \o s)[j] = IF j <= Len(q) THEN q[j] ELSE s[j - Len(q)]
    BY <1>3, <2>1, ConcatProperties
  <2>3. /\ DOMAIN q = 1..Len(q) /\ Len(q) \in Nat /\ Len(s) \in Nat
        /\ DOMAIN (q \o s) = 1..Len(q \o s)
    BY <1>3, <2>1, <2>2, LenProperties
  <2>4. \A j \in 1..Len(s) : s[j] \in p[2]
    BY <1>2, ElementOfSeq
  <2>5. k \in 1..(Len(q) + Len(s))
    BY <2>1, <2>2, <2>3
  <2>6. CASE k <= Len(q)
    BY <2>1, <2>2, <2>3, <2>5, <2>6 DEF q
  <2>7. CASE k > Len(q)
    <3>1. k - Len(q) \in 1..Len(s) /\ queue'[i][k] = s[k - Len(q)]
      BY <2>1, <2>2, <2>3, <2>5, <2>7
    <3>. QED
      BY <2>4, <3>1
  <2>. QED
    BY <2>3, <2>5, <2>6, <2>7
<1>8. \A e \in Events : Queued(e)' => Queued(e) \/ e \in p[2]
  BY <1>7 DEF Queued
<1>9. \A e \in Events : Pending(e)' => Pending(e)
  BY <1>4, <1>8 DEF Pending
<1>10. Kept
  BY <1>4 DEF Kept, Written
<1>. QED
  BY <1>4, <1>6, <1>9, <1>10, PushFromStep

LEMMA SendPushes ==
    ASSUME PushInv, Send PROVE PushInv'
<1>1. ASSUME NEW m \in Messages, DeactivateBroadcast(m) PROVE PushInv'
  <2>1. /\ message[m] \in Message /\ message' = [message EXCEPT ![m].active = FALSE] /\ Ask
        /\ UNCHANGED <<conn, unsent, reads, queue, delivered, disturbances>>
    BY <1>1 DEF DeactivateBroadcast, PushInv, RowTypes, Written, streams
  <2>2. message'[m] = [message[m] EXCEPT !.active = FALSE] /\ message'[m] \in Message
        /\ \A n \in Messages : n # m => message'[n] = message[n]
    BY <2>1 DEF PushInv, RowTypes, Message
  <2>3. Kept
    BY <2>1, <2>2 DEF Kept, Written, Message, NoMessage
  <2>4. RowTypes'
    BY <2>1, <2>2, AskTyped DEF PushInv, RowTypes
  <2>. QED
    BY <2>1, <2>3, <2>4, PushFromStep DEF Pending, Queued
<1>2. ASSUME NEW m \in Messages, NEW u \in Users, DismissBroadcast(m, u) PROVE PushInv'
  <2>1. reads' = reads \cup {<<m, u>>} /\ Ask
        /\ UNCHANGED <<conn, message, unsent, queue, delivered, disturbances>>
    BY <1>2 DEF DismissBroadcast, streams
  <2>2. Kept
    BY <2>1 DEF Kept, Written
  <2>3. RowTypes'
    BY <2>1, AskTyped DEF PushInv, RowTypes
  <2>. QED
    BY <2>1, <2>2, <2>3, PushFromStep DEF Pending, Queued
<1>. QED
  BY <1>1, <1>2, AdminPushes, DistributorPushes, PushPushes DEF Send

LEMMA DeliverPushes ==
    ASSUME Inv, PushInv, NEW i \in Instances, DeliverLocally(i) PROVE PushInv'
<1>. DEFINE q == queue[i]
            e == Head(q)
<1>1. /\ q # <<>> /\ queue' = [queue EXCEPT ![i] = Tail(q)]
      /\ delivered' = delivered \cup {<<clients[i][u], e.message>> : u \in Receivers(i, e)}
      /\ UNCHANGED <<conn, message, unsent, reads, requests, disturbances>>
  BY DEF DeliverLocally, streams, rows
<1>2. q \in Seq(Events)
  BY DEF PushInv, RowTypes
<1>. HIDE DEF q
<1>3. /\ Len(q) \in Nat /\ Len(q) # 0 /\ DOMAIN q = 1..Len(q) /\ e = q[1]
      /\ Tail(q) \in Seq(Events) /\ DOMAIN Tail(q) = 1..(Len(q) - 1)
      /\ \A k \in 1..(Len(q) - 1) : Tail(q)[k] = q[k + 1]
  BY <1>1, <1>2, EmptySeq, LenProperties, HeadTailProperties
<1>. HIDE DEF e
<1>4. e \in Events /\ Fits(e)
  <2>1. e \in Events
    BY <1>2, <1>3, ElementOfSeq
  <2>2. Queued(e)
    BY <1>3 DEF Queued, q
  <2>. QED
    BY <2>1, <2>2 DEF PushInv, Pending
<1>5. Kept
  BY <1>1 DEF Kept, Written
<1>6. ASSUME NEW u \in Receivers(i, e)
      PROVE  <<clients[i][u], e.message>> \in Conns \X Messages /\ Told(<<clients[i][u], e.message>>)
  <2>. DEFINE c == clients[i][u]
  <2>1. /\ u \in Users /\ c # None
        /\ \/ e.to = "user" /\ e.target = u
           \/ e.to = "role" /\ e.target = conn[c].role
    BY <1>6, Zenon DEF Receivers
  <2>2. c \in Conns /\ conn[c].user = u /\ conn[c].state = "open"
    BY <2>1 DEF Inv, StreamTypes, EntryIsCurrent
  <2>3. conn[c] # NoConn
    BY <2>2 DEF NoConn
  <2>4. conn[c] \in Conn /\ conn[c].role \in Roles
    BY <2>2, <2>3 DEF Inv, StreamTypes, Conn
  <2>. HIDE DEF c
  <2>5. e.message \in Messages /\ Written(e.message)
    BY <1>4, EventShape DEF Fits
  <2>6. IsVisible(e.message, u, conn[c].role) \/ Unlisted(e.message)
    BY <1>4, <2>1, <2>4 DEF Fits
  <2>7. Told(<<c, e.message>>)
    BY <2>2, <2>3, <2>5, <2>6 DEF Told
  <2>. QED
    BY <2>2, <2>5, <2>7 DEF c
<1>7. RowTypes'
  <2>1. queue' \in [Instances -> Seq(Events)]
    BY <1>1, <1>3 DEF PushInv, RowTypes
  <2>2. delivered' \in SUBSET (Conns \X Messages)
    BY <1>1, <1>6 DEF PushInv, RowTypes
  <2>. QED
    BY <1>1, <2>1, <2>2 DEF PushInv, RowTypes
<1>8. \A f \in Events : Pending(f)' => Pending(f)
  <2>1. \A j \in Instances : j # i => queue'[j] = queue[j]
    BY <1>1 DEF PushInv, RowTypes
  <2>2. queue'[i] = Tail(q)
    BY <1>1 DEF PushInv, RowTypes
  <2>3. ASSUME NEW f \in Events, Queued(f)' PROVE Queued(f)
    <3>1. PICK j \in Instances : \E k \in DOMAIN queue'[j] : queue'[j][k] = f
      BY <2>3 DEF Queued
    <3>2. CASE j # i
      BY <2>1, <3>1, <3>2 DEF Queued
    <3>3. CASE j = i
      <4>1. PICK k \in 1..(Len(q) - 1) : q[k + 1] = f
        BY <1>3, <2>2, <3>1, <3>3
      <4>2. k + 1 \in DOMAIN q
        BY <1>3, <4>1
      <4>. QED
        BY <4>1, <4>2 DEF Queued, q
    <3>. QED
      BY <3>2, <3>3
  <2>. QED
    BY <1>1, <2>3 DEF Pending
<1>9. \A p \in delivered' : p \in delivered \/ Told(p)'
  <2>1. \A p \in delivered' : p \in delivered \/ Told(p)
    BY <1>1, <1>6
  <2>. QED
    BY <1>5, <1>7, <2>1, KeptTold DEF RowTypes
<1>. QED
  BY <1>1, <1>5, <1>7, <1>8, <1>9, PushFromStep

LEMMA RestartPushes ==
    ASSUME Inv, PushInv, NEW i \in Instances, Restart(i) PROVE PushInv'
<1>1. /\ conn' = [c \in Conns |-> IF conn[c] # NoConn /\ conn[c].instance = i
                                  THEN [conn[c] EXCEPT !.state = "gone"] ELSE conn[c]]
      /\ queue' = [queue EXCEPT ![i] = <<>>] /\ Disturb
      /\ UNCHANGED <<message, unsent, reads, delivered, requests>>
  BY DEF Restart, rows
<1>2. Kept
  <2>1. ASSUME NEW c \in Conns, conn[c] # NoConn
        PROVE  conn'[c] # NoConn /\ conn'[c].user = conn[c].user /\ conn'[c].role = conn[c].role
    <3>1. conn[c] \in Conn
      BY <2>1 DEF Inv, StreamTypes
    <3>2. [conn[c] EXCEPT !.state = "gone"] \in Conn
          /\ [conn[c] EXCEPT !.state = "gone"].user = conn[c].user
      BY <3>1, ConnShape
    <3>3. [conn[c] EXCEPT !.state = "gone"].role = conn[c].role
          /\ [conn[c] EXCEPT !.state = "gone"] # NoConn
      BY <3>1, <3>2, ConnShape DEF Conn
    <3>4. conn'[c] \in {conn[c], [conn[c] EXCEPT !.state = "gone"]}
      BY <1>1
    <3>. QED
      BY <2>1, <3>2, <3>3, <3>4
  <2>. QED
    BY <1>1, <2>1 DEF Kept, Written
<1>3. \A j \in Instances : queue'[j] = IF j = i THEN <<>> ELSE queue[j]
  BY <1>1 DEF PushInv, RowTypes
<1>4. RowTypes'
  <2>1. queue' \in [Instances -> Seq(Events)]
    BY <1>1, EmptySeq DEF PushInv, RowTypes
  <2>. QED
    BY <1>1, <2>1, DisturbTyped DEF PushInv, RowTypes
<1>5. \A e \in Events : Pending(e)' => Pending(e)
  BY <1>1, <1>3 DEF Pending, Queued
<1>. QED
  BY <1>1, <1>2, <1>4, <1>5, PushFromStep

LEMMA NextPushes == Inv /\ PushInv /\ [Next]_vars => PushInv'
<1>. SUFFICES ASSUME Inv, PushInv, [Next]_vars PROVE PushInv'
  OBVIOUS
<1>1. ASSUME NEW u \in Users, NEW r \in Roles, ChangeRole(u, r) PROVE PushInv'
  BY <1>1, StreamsPush, DisturbTyped
     DEF ChangeRole, streams, rows, Kept, Written, PushInv, RowTypes
<1>2. ASSUME NEW u \in Users, RenewToken(u) PROVE PushInv'
  BY <1>2, StreamsPush DEF RenewToken, streams, rows, Kept, Written, PushInv, RowTypes
<1>3. CASE UNCHANGED vars
  BY <1>3, StreamsPush DEF vars, streams, rows, Kept, Written, PushInv, RowTypes
<1>. QED
  BY <1>1, <1>2, <1>3, ConnectPushes, SendPushes, DeliverPushes, RestartPushes DEF Next

LEMMA InitPushes == Init => PushInv
<1>. SUFFICES ASSUME Init PROVE PushInv
  OBVIOUS
<1>1. RowTypes
  BY EmptySeq, LiveAssumption DEF Init, RowTypes
<1>2. \A e \in Events : ~Pending(e)
  BY DEF Init, Pending, Queued
<1>. QED
  BY <1>1, <1>2 DEF Init, PushInv

\* Whoever is told of a message at once, over whatever connection and after whatever
\* restarts and changes of role, would be shown it by the list with the role the
\* connection was opened with; the administrator's messages to named users without a
\* role are the exception the property names.
THEOREM PushedMaySee == Spec => []MessagesSound
<1>1. ASSUME Inv, PushInv PROVE MessagesSound
  <2>1. TypeOK
    BY <1>1 DEF Inv, StreamTypes, PushInv, RowTypes, TypeOK
  <2>2. PushedIsVisible
    BY <1>1 DEF PushInv, Told, Unlisted, PushedIsVisible
  <2>. QED
    BY <2>1, <2>2 DEF MessagesSound
<1>. QED
  BY <1>1, InitInv, NextInv, InitPushes, NextPushes, PTL DEF Spec
=============================================================================

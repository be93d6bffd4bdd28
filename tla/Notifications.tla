--------------------------- MODULE Notifications ---------------------------
(***************************************************************************)
(* NotificationsService (src/modules/notifications/                        *)
(* notifications.service.ts): notifications are stored and then sent       *)
(* through the gateway of the replica that runs the handler.  A handler is *)
(* a record in calls with the queries and calls still ahead of it.  Only   *)
(* the column read changes, so that the two queries of save amount to one. *)
(***************************************************************************)
EXTENDS Gateway, Sequences, TypeOrm

CONSTANTS
    NoteIds,        \* primary keys
    Handlers,       \* requests that can be in progress at the same time
    NoId,           \* no notification yet
    MaxRequests     \* bound on the requests that clients send

VARIABLES
    notes,      \* the table of notifications: id -> row
    calls,      \* the handlers
    written,    \* history: id -> the recipient of the row that was inserted
    requests    \* requests accepted so far

noteVars == <<notes, calls, written, requests>>
vars == <<gateVars, noteVars>>

ASSUME NoteConstants == NoId \notin NoteIds /\ Absent \notin Users /\ MaxRequests \in Nat

Notification == [user : Users, read : BOOLEAN]
Steps == {"insert", "emit", "put", "readAll", "delete"}

Idle == [todo |-> <<>>, at |-> NoReplica, note |-> NoId, entity |-> Absent]

----------------------------------------------------------------------------
(* Faulty variants of definitions below, each a slip that a change of the  *)
(* code could bring; the properties at the end must notice them.           *)

CreateSteps_EmitFirst == <<"emit", "insert">>
MarkedRead_OnlyTheColumn(row) == [read |-> TRUE]

----------------------------------------------------------------------------
\* A request reaches an idle handler of replica r.
Accept(h, r, c) ==
    /\ calls[h] = Idle
    /\ requests < MaxRequests
    /\ requests' = requests + 1
    /\ calls' = [calls EXCEPT ![h] = [c EXCEPT !.at = r]]
    /\ UNCHANGED <<gateVars, notes, written>>

At(h, s) == calls[h].todo # <<>> /\ Head(calls[h].todo) = s

Advance(h, c) ==
    calls' = [calls EXCEPT ![h] = IF Len(c.todo) = 1 THEN Idle ELSE [c EXCEPT !.todo = Tail(@)]]

Throw(h) == calls' = [calls EXCEPT ![h] = Idle]

CreateSteps == <<"insert", "emit">>

\* Bound: every insert in progress can still be given a key.
KeysLeft ==
    Cardinality({g \in Handlers : \E i \in DOMAIN calls[g].todo : calls[g].todo[i] = "insert"})
        < Cardinality({n \in NoteIds : written[n] = Absent})

\* create, for a user whom some service has something to tell.
Create(h, r, u) ==
    /\ KeysLeft
    /\ Accept(h, r, [Idle EXCEPT !.todo = CreateSteps, !.entity = [user |-> u, read |-> FALSE]])

MarkedRead(row) == [row EXCEPT !.read = TRUE]

\* markAsRead through update, by the recipient, provided that the driver can
\* join notificationData, which has no join column (as size in Parkings).
MarkAsRead(h, r, n) ==
    /\ notes[n] # Absent
    /\ Accept(h, r, [Idle EXCEPT !.todo = <<"put">>, !.note = n, !.entity = MarkedRead(notes[n])])

MarkAllAsRead(h, r, u) ==
    Accept(h, r, [Idle EXCEPT !.todo = <<"readAll">>, !.entity = [user |-> u, read |-> TRUE]])

\* remove, by the recipient.
Remove(h, r, n) ==
    /\ notes[n] # Absent
    /\ Accept(h, r, [Idle EXCEPT !.todo = <<"delete">>, !.note = n])

\* userId is a foreign key.
Insert(h, n) ==
    /\ At(h, "insert")
    /\ written[n] = Absent
    /\ LET row == calls[h].entity
       IN  \/ /\ row.user \in accounts
              /\ notes' = [notes EXCEPT ![n] = row]
              /\ written' = [written EXCEPT ![n] = row.user]
              /\ Advance(h, [calls[h] EXCEPT !.note = n])
           \/ /\ row.user \notin accounts
              /\ Throw(h)
              /\ UNCHANGED <<notes, written>>
    /\ UNCHANGED <<gateVars, requests>>

\* sendNotificationToUser, by the gateway of the same replica.
Emit(h) ==
    /\ At(h, "emit")
    /\ ToRoom(calls[h].at, calls[h].entity.user,
              [kind |-> "notification", of |-> calls[h].entity.user, id |-> calls[h].note])
    /\ Advance(h, calls[h])
    /\ UNCHANGED <<accounts, sockets, clients, entered, early, chats, crashes, notes, written,
                   requests>>

\* save: a row removed meanwhile is inserted again, unless its user is gone.
Put(h) ==
    /\ At(h, "put")
    /\ LET row == calls[h].entity
       IN  \/ /\ row.user \in accounts
              /\ notes' = [notes EXCEPT ![calls[h].note] = row]
              /\ Advance(h, calls[h])
           \/ /\ row.user \notin accounts
              /\ Throw(h)
              /\ UNCHANGED notes
    /\ UNCHANGED <<gateVars, written, requests>>

ReadAll(h) ==
    /\ At(h, "readAll")
    /\ notes' = [n \in NoteIds |->
            IF notes[n] # Absent /\ notes[n].user = calls[h].entity.user
            THEN [notes[n] EXCEPT !.read = TRUE] ELSE notes[n]]
    /\ Advance(h, calls[h])
    /\ UNCHANGED <<gateVars, written, requests>>

Delete(h) ==
    /\ At(h, "delete")
    /\ notes' = [notes EXCEPT ![calls[h].note] = Absent]
    /\ Advance(h, calls[h])
    /\ UNCHANGED <<gateVars, written, requests>>

\* The row of a user is removed, and by cascade the notifications; tokens and
\* sockets of the user stay what they are.
RemoveUser(u) ==
    /\ u \in accounts
    /\ accounts' = accounts \ {u}
    /\ notes' = [n \in NoteIds |->
            IF notes[n] # Absent /\ notes[n].user = u THEN Absent ELSE notes[n]]
    /\ UNCHANGED <<sockets, clients, inbox, entered, early, chats, crashes, calls, written,
                   requests>>

\* The handlers of a replica die with it.
CrashReplica(r) ==
    /\ Crash(r)
    /\ calls' = [h \in Handlers |-> IF calls[h].at = r THEN Idle ELSE calls[h]]
    /\ UNCHANGED <<notes, written, requests>>

----------------------------------------------------------------------------
Init ==
    /\ GateInit
    /\ notes = [n \in NoteIds |-> Absent]
    /\ calls = [h \in Handlers |-> Idle]
    /\ written = [n \in NoteIds |-> Absent]
    /\ requests = 0

Request(h, r) ==
    \/ \E u \in Users : Create(h, r, u) \/ MarkAllAsRead(h, r, u)
    \/ \E n \in NoteIds : MarkAsRead(h, r, n) \/ Remove(h, r, n)

Step(h) ==
    \/ \E n \in NoteIds : Insert(h, n)
    \/ Emit(h)
    \/ Put(h)
    \/ ReadAll(h)
    \/ Delete(h)

Next ==
    \/ GateStep /\ UNCHANGED noteVars
    \/ \E h \in Handlers : \/ \E r \in Replicas : Request(h, r)
                           \/ Step(h)
    \/ \E u \in Users : RemoveUser(u)
    \/ \E r \in Replicas : CrashReplica(r)

Spec == Init /\ [][Next]_vars

\* A handler goes on while its replica lives; emit follows insert in the same
\* continuation.  Nothing makes clients connect, or connections last.
FairSpec == Spec /\ \A h \in Handlers : WF_vars(Step(h))

----------------------------------------------------------------------------
\* Every variable has its type: connections, maps and rows are what
\* events.gateway.ts and notifications.service.ts can build.
GatewayTypeOK ==
    /\ accounts \subseteq Users
    /\ sockets \in [Sockets -> Connection]
    /\ clients \in [Replicas -> [Users -> Sockets \cup {NoSocket}]]
    /\ notes \in [NoteIds -> Notification \cup {Absent}]
    /\ \A h \in Handlers :
        /\ calls[h].todo \in Seq(Steps)
        /\ calls[h].at \in Replicas \cup {NoReplica}
        /\ calls[h].note \in NoteIds \cup {NoId}
        /\ calls[h].entity \in Notification \cup {Absent}

\* What a socket was sent is true: a notification was stored for the user the
\* socket belongs to before it was sent, and a chat message names the user
\* whose token the sending socket was opened with.
InboxIsTrue ==
    \A s \in Sockets : \A m \in inbox[s] :
        IF m.kind = "notification"
        THEN m.of = sockets[s].user /\ m.id \in NoteIds /\ written[m.id] = m.of
        ELSE m.of = sockets[m.id].user

\* A notification about to be sent at a replica reaches every socket of its
\* user that is open there, not only the one in the map, unless it closes.
HeardByEverySocket ==
    \A h \in Handlers, s \in Sockets, n \in NoteIds :
        (/\ At(h, "emit") /\ calls[h].note = n
         /\ s \in Room(calls[h].at, calls[h].entity.user))
            ~> (~sockets[s].open \/ \E m \in inbox[s] : m.kind = "notification" /\ m.id = n)
=============================================================================

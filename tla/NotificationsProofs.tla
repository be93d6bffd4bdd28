------------------------- MODULE NotificationsProofs -------------------------
(***************************************************************************)
(* Proofs about Gateway and Notifications for any number of users,         *)
(* sockets, replicas, notifications and handlers: types, that the map of   *)
(* every replica is up to date, and that what a socket was sent is true.   *)
(*                                                                         *)
(* The map is right because a socket is entered once, at one replica and   *)
(* for one user: the handler that enters it ends its check, and no socket  *)
(* is checked again.  What was sent stays true because neither the user of *)
(* an opened socket nor the recipient of a stored notification changes.    *)
(***************************************************************************)
EXTENDS Notifications, TLAPS

Lists == {<<>>, <<"insert", "emit">>, <<"emit">>, <<"put">>, <<"readAll">>, <<"delete">>}
Call == [todo : Lists, at : Replicas \cup {NoReplica}, note : NoteIds \cup {NoId},
         entity : Notification \cup {Absent}]

Typed ==
    /\ accounts \subseteq Users
    /\ sockets \in [Sockets -> Connection]
    /\ clients \in [Replicas -> [Users -> Sockets \cup {NoSocket}]]
    /\ entered \in [Replicas -> [Users -> Sockets \cup {NoSocket}]]
    /\ DOMAIN inbox = Sockets /\ early \subseteq Sockets
    /\ notes \in [NoteIds -> Notification \cup {Absent}]
    /\ written \in [NoteIds -> Users \cup {Absent}]
    /\ calls \in [Handlers -> Call]

\* A socket that was opened belongs to a user at a replica.
Opened(c) == c.at \in Replicas /\ c.user \in Users

\* Every socket is in one state of its life: it was never opened; it is being
\* authenticated, perhaps closed already; it was entered, or refused.
SocketsLive ==
    \A s \in Sockets :
        LET c == sockets[s]
        IN  /\ c.open \/ c.checking \/ c.joined \/ s \in early => Opened(c)
            /\ c.checking /\ ~c.open => s \in early
            /\ s \in early => ~c.open

\* A socket is entered for its own user, at its own replica, after its check.
EnteredOnce ==
    \A r \in Replicas, u \in Users :
        LET s == entered[r][u]
        IN  s # NoSocket => sockets[s].at = r /\ sockets[s].user = u /\ ~sockets[s].checking

\* A message that tells the truth to socket s.
MessageTrue(s, m) ==
    IF m.kind = "notification"
    THEN /\ m.of \in Users /\ m.of = sockets[s].user
         /\ m.id \in NoteIds /\ written[m.id] = m.of
    ELSE m.of \in Users /\ m.id \in Sockets /\ m.of = sockets[m.id].user

InboxTrue == \A s \in Sockets : \A m \in inbox[s] : MessageTrue(s, m)

\* What a handler knows at each point of its way.
CallBacked(c, recipients) ==
    /\ c.todo # <<>> /\ c.todo # <<"delete">> => c.entity \in Notification
    /\ c.todo \in {<<"put">>, <<"delete">>, <<"emit">>} => c.note \in NoteIds
    /\ c.todo = <<"emit">> => recipients[c.note] = c.entity.user

CallsBacked == \A h \in Handlers : CallBacked(calls[h], written)

GateInv == SocketsLive /\ EnteredOnce /\ MapIsUpToDate
NoteInv == Typed /\ GateInv /\ InboxTrue /\ CallsBacked

----------------------------------------------------------------------------
(* Lists of steps                                                          *)

\* The lists of steps are lists of steps, and what is left of each is one.
LEMMA ListsLeft ==
    /\ Lists \subseteq Seq(Steps)
    /\ \A todo \in Lists : todo # <<>> => Head(todo) \in Steps
    /\ \A todo \in Lists :
          /\ todo # <<>> /\ Head(todo) = "insert" => todo = <<"insert", "emit">>
          /\ todo # <<>> /\ Head(todo) = "emit" => todo = <<"emit">>
          /\ todo # <<>> /\ Head(todo) = "put" => todo = <<"put">>
          /\ todo # <<>> /\ Head(todo) = "readAll" => todo = <<"readAll">>
          /\ todo # <<>> /\ Head(todo) = "delete" => todo = <<"delete">>
    /\ Len(<<"insert", "emit">>) # 1 /\ Tail(<<"insert", "emit">>) = <<"emit">>
    /\ Len(<<"emit">>) = 1 /\ Len(<<"put">>) = 1 /\ Len(<<"readAll">>) = 1
    /\ Len(<<"delete">>) = 1
BY DEF Lists, Steps

----------------------------------------------------------------------------
(* What was sent stays true                                                *)

\* Neither the user of an opened socket nor the recipient of a stored
\* notification changes.
Kept == /\ \A s \in Sockets : sockets[s].user \in Users => sockets'[s].user = sockets[s].user
        /\ \A n \in NoteIds : written[n] \in Users => written'[n] = written[n]

LEMMA TruthKept ==
    ASSUME Kept, NEW s \in Sockets, NEW m, MessageTrue(s, m)
    PROVE  MessageTrue(s, m)'
BY DEF Kept, MessageTrue

LEMMA InboxKept ==
    ASSUME InboxTrue, Kept, inbox' = inbox
    PROVE  InboxTrue'
BY TruthKept DEF InboxTrue

\* A message that is true for everybody in the room may be sent to it.
LEMMA RoomTold ==
    ASSUME Typed, InboxTrue, NEW r, NEW u, NEW what, ToRoom(r, u, what),
           \A s \in Room(r, u) : MessageTrue(s, what),
           UNCHANGED <<sockets, written>>
    PROVE  InboxTrue' /\ DOMAIN inbox' = Sockets
<1>1. Kept
  BY DEF Kept
<1>2. ASSUME NEW s \in Sockets, NEW m \in inbox'[s] PROVE MessageTrue(s, m)'
  <2>1. m \in inbox[s] \/ (s \in Room(r, u) /\ m = what)
    BY <1>2 DEF ToRoom
  <2> QED BY <1>1, <2>1, TruthKept DEF InboxTrue
<1> QED BY <1>2 DEF InboxTrue, ToRoom

----------------------------------------------------------------------------
(* The gateway                                                             *)

LEMMA ConnectInv ==
    ASSUME NoteInv, NEW s \in Sockets, NEW r \in Replicas, NEW u \in Users,
           Connect(s, r, u), UNCHANGED noteVars
    PROVE  NoteInv'
<1> DEFINE c == [at |-> r, user |-> u, open |-> TRUE, checking |-> TRUE, joined |-> FALSE]
<1>1. /\ sockets[s] = Unopened /\ sockets' = [sockets EXCEPT ![s] = c]
      /\ UNCHANGED <<accounts, clients, inbox, entered, early>>
      /\ UNCHANGED <<notes, calls, written, requests>>
  BY DEF Connect, noteVars
<1>2. Typed /\ SocketsLive /\ EnteredOnce /\ MapIsUpToDate /\ InboxTrue /\ CallsBacked
  BY DEF NoteInv, GateInv
<1>3. sockets \in [Sockets -> Connection] /\ c \in Connection
  BY <1>2 DEF Typed, Connection
<1>4. /\ Unopened.user = NoUser /\ Unopened.at = NoReplica /\ ~Unopened.open
      /\ c.at = r /\ c.user = u /\ c.open /\ c.checking
  BY DEF Unopened
<1> HIDE DEF c
<1>5. Typed'
  BY <1>1, <1>2, <1>3 DEF Typed
<1>6. s \notin early
  BY <1>1, <1>2, <1>4, GateConstants DEF SocketsLive, Opened
<1>7. \A q \in Replicas, v \in Users : entered[q][v] # s
  BY <1>1, <1>2, <1>4, GateConstants DEF EnteredOnce
<1>8. SocketsLive'
  BY <1>1, <1>2, <1>3, <1>4, <1>6 DEF SocketsLive, Opened
<1>9. EnteredOnce' /\ MapIsUpToDate'
  BY <1>1, <1>2, <1>3, <1>7 DEF EnteredOnce, MapIsUpToDate, Typed
<1>10. Kept
  BY <1>1, <1>3, <1>4, GateConstants DEF Kept
<1>11. InboxTrue' /\ CallsBacked'
  BY <1>1, <1>2, <1>10, InboxKept DEF CallsBacked, CallBacked
<1> QED BY <1>5, <1>8, <1>9, <1>11 DEF NoteInv, GateInv

LEMMA EnterInv ==
    ASSUME NoteInv, NEW s \in Sockets, Enter(s), UNCHANGED noteVars
    PROVE  NoteInv'
<1> DEFINE c == sockets[s]
           in == Admitted(s)
           d == [c EXCEPT !.checking = FALSE, !.joined = in, !.open = c.open /\ in]
<1>1. Typed /\ SocketsLive /\ EnteredOnce /\ MapIsUpToDate /\ InboxTrue /\ CallsBacked
  BY DEF NoteInv, GateInv
<1>2. /\ sockets \in [Sockets -> Connection] /\ c \in Connection /\ in \in BOOLEAN
      /\ clients \in [Replicas -> [Users -> Sockets \cup {NoSocket}]]
      /\ entered \in [Replicas -> [Users -> Sockets \cup {NoSocket}]]
  BY <1>1 DEF Typed, Admitted
<1>3. /\ c.checking /\ sockets' = [sockets EXCEPT ![s] = d]
      /\ clients' = IF in THEN [clients EXCEPT ![c.at][c.user] = s] ELSE clients
      /\ entered' = IF in THEN [entered EXCEPT ![c.at][c.user] = s] ELSE entered
      /\ UNCHANGED <<accounts, inbox, early>>
      /\ UNCHANGED <<notes, calls, written, requests>>
  BY <1>2 DEF Enter, noteVars
<1>4. c.at \in Replicas /\ c.user \in Users
  BY <1>1, <1>3 DEF SocketsLive, Opened
<1>5. /\ d \in Connection /\ d.at = c.at /\ d.user = c.user /\ ~d.checking
      /\ d.open = (c.open /\ in)
  BY <1>2 DEF Connection
<1> HIDE DEF d, in
<1>6. Typed'
  BY <1>1, <1>2, <1>3, <1>4, <1>5 DEF Typed
<1>7. \A q \in Replicas, v \in Users : entered[q][v] # s
  BY <1>1, <1>3, GateConstants DEF EnteredOnce
<1>8. SocketsLive'
  BY <1>1, <1>2, <1>3, <1>4, <1>5 DEF SocketsLive, Opened
<1>9. ASSUME NEW q \in Replicas, NEW v \in Users
      PROVE  LET t == entered'[q][v]
             IN  /\ t # NoSocket => /\ sockets'[t].at = q /\ sockets'[t].user = v
                                    /\ ~sockets'[t].checking
                 /\ clients'[q][v] = IF t = NoSocket \/ ~(sockets'[t].open \/ t \in early')
                                     THEN NoSocket ELSE t
  <2>1. CASE in /\ q = c.at /\ v = c.user
    <3>1. entered'[q][v] = s /\ clients'[q][v] = s
      BY <1>2, <1>3, <1>4, <2>1
    <3>2. c.open \/ s \in early
      BY <1>1, <1>3 DEF SocketsLive
    <3> QED BY <1>2, <1>3, <1>5, <2>1, <3>1, <3>2, GateConstants
  <2>2. CASE ~(in /\ q = c.at /\ v = c.user)
    <3>1. entered'[q][v] = entered[q][v] /\ clients'[q][v] = clients[q][v]
      BY <1>2, <1>3, <1>4, <2>2
    <3>2. entered[q][v] \in Sockets \cup {NoSocket} /\ entered[q][v] # s
      BY <1>2, <1>7
    <3>3. entered[q][v] # NoSocket => sockets'[entered[q][v]] = sockets[entered[q][v]]
      BY <1>2, <1>3, <3>2
    <3> QED BY <1>1, <1>3, <3>1, <3>3 DEF EnteredOnce, MapIsUpToDate
  <2> QED BY <2>1, <2>2
<1>10. EnteredOnce' /\ MapIsUpToDate'
  BY <1>9 DEF EnteredOnce, MapIsUpToDate
<1>11. Kept
  BY <1>2, <1>3, <1>5 DEF Kept
<1>12. InboxTrue' /\ CallsBacked'
  BY <1>1, <1>3, <1>11, InboxKept DEF CallsBacked, CallBacked
<1> QED BY <1>6, <1>8, <1>10, <1>12 DEF NoteInv, GateInv

LEMMA LeaveInv ==
    ASSUME NoteInv, NEW s \in Sockets, Leave(s), UNCHANGED noteVars
    PROVE  NoteInv'
<1> DEFINE c == sockets[s]
           d == [c EXCEPT !.open = FALSE]
<1>1. Typed /\ SocketsLive /\ EnteredOnce /\ MapIsUpToDate /\ InboxTrue /\ CallsBacked
  BY DEF NoteInv, GateInv
<1>2. /\ sockets \in [Sockets -> Connection] /\ c \in Connection
      /\ clients \in [Replicas -> [Users -> Sockets \cup {NoSocket}]]
      /\ entered \in [Replicas -> [Users -> Sockets \cup {NoSocket}]]
      /\ early \subseteq Sockets
  BY <1>1 DEF Typed
<1>3. /\ c.open /\ sockets' = [sockets EXCEPT ![s] = d]
      /\ clients' = [clients EXCEPT ![c.at] =
              [u \in Users |-> IF u \in UsersOf(s) THEN NoSocket ELSE clients[c.at][u]]]
      /\ early' = IF c.checking THEN early \cup {s} ELSE early
      /\ UNCHANGED <<accounts, inbox, entered>>
      /\ UNCHANGED <<notes, calls, written, requests>>
  BY <1>2 DEF Leave, noteVars
<1>4. c.at \in Replicas /\ c.user \in Users /\ s \notin early
  BY <1>1, <1>3 DEF SocketsLive, Opened
<1>5. /\ d \in Connection /\ d.at = c.at /\ d.user = c.user /\ ~d.open
      /\ d.checking = c.checking
  BY <1>2 DEF Connection
<1> HIDE DEF d
<1>6. Typed'
  BY <1>1, <1>2, <1>3, <1>4, <1>5 DEF Typed
<1>7. SocketsLive'
  BY <1>1, <1>2, <1>3, <1>4, <1>5 DEF SocketsLive, Opened
<1>8. EnteredOnce'
  BY <1>1, <1>2, <1>3, <1>5 DEF EnteredOnce
<1>9. ASSUME NEW q \in Replicas, NEW v \in Users
      PROVE  LET t == entered[q][v]
             IN  clients'[q][v] = IF t = NoSocket \/ ~(sockets'[t].open \/ t \in early')
                                  THEN NoSocket ELSE t
  <2> DEFINE t == entered[q][v]
  <2>1. clients[q][v] = IF t = NoSocket \/ ~(sockets[t].open \/ t \in early)
                        THEN NoSocket ELSE t
    BY <1>1 DEF MapIsUpToDate
  <2>2. t \in Sockets \cup {NoSocket}
    BY <1>2
  <2>3. CASE t = s
    <3>1. q = c.at /\ v = c.user /\ ~c.checking
      BY <1>1, <2>3, GateConstants DEF EnteredOnce
    <3>2. clients[q][v] = s
      BY <1>3, <2>1, <2>3, GateConstants
    <3>3. v \in UsersOf(s)
      BY <3>1, <3>2 DEF UsersOf
    <3>4. clients'[q][v] = NoSocket
      BY <1>2, <1>3, <1>4, <3>1, <3>3
    <3>5. ~sockets'[t].open /\ t \notin early'
      BY <1>2, <1>3, <1>4, <1>5, <2>3, <3>1
    <3> QED BY <3>4, <3>5
  <2>4. CASE t # s
    <3>1. clients[q][v] # s
      BY <2>1, <2>4, GateConstants
    <3>2. clients'[q][v] = clients[q][v]
      BY <1>2, <1>3, <1>4, <3>1 DEF UsersOf
    <3>3. t # NoSocket => sockets'[t] = sockets[t]
      BY <1>2, <1>3, <2>2, <2>4
    <3>4. t \in early' <=> t \in early
      BY <1>3, <2>4
    <3> QED BY <2>1, <3>2, <3>3, <3>4
  <2> QED BY <2>3, <2>4
<1>10. MapIsUpToDate'
  BY <1>3, <1>9 DEF MapIsUpToDate
<1>11. Kept
  BY <1>2, <1>3, <1>5 DEF Kept
<1>12. InboxTrue' /\ CallsBacked'
  BY <1>1, <1>3, <1>11, InboxKept DEF CallsBacked, CallBacked
<1> QED BY <1>6, <1>7, <1>8, <1>10, <1>12 DEF NoteInv, GateInv

\* Who the map says sent a message is the user of the socket.
LEMMA SenderKnown ==
    ASSUME NoteInv, NEW s \in Sockets, sockets[s].open
    PROVE  \A u \in UsersOf(s) : u = sockets[s].user /\ u \in Users
<1>1. sockets[s].at \in Replicas
  BY DEF NoteInv, GateInv, SocketsLive, Opened
<1>2. SUFFICES ASSUME NEW u \in Users, clients[sockets[s].at][u] = s
               PROVE  u = sockets[s].user
  BY DEF UsersOf
<1>3. entered[sockets[s].at][u] = s
  BY <1>1, <1>2, GateConstants DEF NoteInv, GateInv, MapIsUpToDate
<1> QED BY <1>1, <1>3, GateConstants DEF NoteInv, GateInv, EnteredOnce

LEMMA SendMessageInv ==
    ASSUME NoteInv, NEW s \in Sockets, NEW to \in Users, SendMessage(s, to),
           UNCHANGED noteVars
    PROVE  NoteInv'
<1> DEFINE u == CHOOSE u \in UsersOf(s) : TRUE
           what == [kind |-> "chat", of |-> u, id |-> s]
<1>1. /\ ToRoom(sockets[s].at, to, what) /\ sockets[s].open /\ UsersOf(s) # {}
      /\ UNCHANGED <<accounts, sockets, clients, entered, early>>
      /\ UNCHANGED <<notes, calls, written, requests>>
  BY DEF SendMessage, noteVars
<1>2. u \in UsersOf(s)
  BY <1>1
<1>3. u = sockets[s].user /\ u \in Users
  BY <1>1, <1>2, SenderKnown
<1> HIDE DEF u
<1>4. \A x : MessageTrue(x, what)
  BY <1>3 DEF MessageTrue
<1> HIDE DEF what
<1>5. InboxTrue' /\ DOMAIN inbox' = Sockets
  BY <1>1, <1>4, RoomTold DEF NoteInv
<1> QED BY <1>1, <1>5
        DEF NoteInv, Typed, GateInv, SocketsLive, EnteredOnce, MapIsUpToDate, CallsBacked,
            CallBacked

\* Handlers of a replica that dies are idle afterwards, and backed.
LEMMA IdleBacked ==
    /\ Idle \in Call /\ Idle.todo = <<>>
    /\ \A recipients : CallBacked(Idle, recipients)
BY DEF Idle, Call, Lists, CallBacked

LEMMA CrashInv ==
    ASSUME NoteInv, NEW r \in Replicas, CrashReplica(r)
    PROVE  NoteInv'
<1>1. Typed /\ SocketsLive /\ EnteredOnce /\ MapIsUpToDate /\ InboxTrue /\ CallsBacked
  BY DEF NoteInv, GateInv
<1> DEFINE after(c) == IF c.at = r THEN [c EXCEPT !.open = FALSE, !.checking = FALSE] ELSE c
<1>2. /\ sockets \in [Sockets -> Connection]
      /\ clients \in [Replicas -> [Users -> Sockets \cup {NoSocket}]]
      /\ entered \in [Replicas -> [Users -> Sockets \cup {NoSocket}]]
      /\ calls \in [Handlers -> Call]
  BY <1>1 DEF Typed
<1>3. /\ sockets' = [s \in Sockets |-> after(sockets[s])]
      /\ clients' = [clients EXCEPT ![r] = [u \in Users |-> NoSocket]]
      /\ entered' = [entered EXCEPT ![r] = [u \in Users |-> NoSocket]]
      /\ calls' = [h \in Handlers |-> IF calls[h].at = r THEN Idle ELSE calls[h]]
      /\ UNCHANGED <<accounts, inbox, early, notes, written>>
  BY DEF CrashReplica, Crash
<1>4. \A c \in Connection :
        /\ after(c) \in Connection /\ after(c).at = c.at /\ after(c).user = c.user
        /\ after(c).joined = c.joined
        /\ after(c).open => c.open
        /\ after(c).checking => c.checking /\ c.at # r
        /\ c.at # r => after(c) = c
  BY DEF Connection
<1> HIDE DEF after
<1>5. Typed'
  BY <1>1, <1>2, <1>3, <1>4, IdleBacked DEF Typed
<1>6. SocketsLive'
  BY <1>1, <1>2, <1>3, <1>4 DEF SocketsLive, Opened
<1>7. ASSUME NEW q \in Replicas, NEW v \in Users
      PROVE  LET t == entered'[q][v]
             IN  /\ t # NoSocket => /\ sockets'[t].at = q /\ sockets'[t].user = v
                                    /\ ~sockets'[t].checking
                 /\ clients'[q][v] = IF t = NoSocket \/ ~(sockets'[t].open \/ t \in early')
                                     THEN NoSocket ELSE t
  <2>1. CASE q = r
    BY <1>2, <1>3, <2>1
  <2>2. CASE q # r
    <3>1. entered'[q][v] = entered[q][v] /\ clients'[q][v] = clients[q][v]
      BY <1>2, <1>3, <2>2
    <3>2. entered[q][v] # NoSocket => /\ entered[q][v] \in Sockets
                                      /\ sockets[entered[q][v]].at = q
      BY <1>1, <1>2 DEF EnteredOnce
    <3>3. entered[q][v] # NoSocket => sockets'[entered[q][v]] = sockets[entered[q][v]]
      BY <1>2, <1>3, <1>4, <2>2, <3>2
    <3> QED BY <1>1, <1>3, <3>1, <3>3 DEF EnteredOnce, MapIsUpToDate
  <2> QED BY <2>1, <2>2
<1>8. EnteredOnce' /\ MapIsUpToDate'
  BY <1>7 DEF EnteredOnce, MapIsUpToDate
<1>9. Kept
  BY <1>2, <1>3, <1>4 DEF Kept
<1>10. InboxTrue'
  BY <1>1, <1>3, <1>9, InboxKept
<1>11. CallsBacked'
  BY <1>1, <1>2, <1>3, IdleBacked DEF CallsBacked, CallBacked
<1> QED BY <1>5, <1>6, <1>8, <1>10, <1>11 DEF NoteInv, GateInv

----------------------------------------------------------------------------
(* The handlers                                                            *)

\* A handler moves on, the gateway and the recipients of notifications stay.
LEMMA HandlerMoves ==
    ASSUME NoteInv, NEW h \in Handlers, NEW c \in Call, CallBacked(c, written),
           calls' = [calls EXCEPT ![h] = c],
           notes' \in [NoteIds -> Notification \cup {Absent}],
           UNCHANGED <<accounts, sockets, clients, entered, early, written>>,
           InboxTrue', DOMAIN inbox' = Sockets
    PROVE  NoteInv'
<1>1. Typed /\ SocketsLive /\ EnteredOnce /\ MapIsUpToDate /\ CallsBacked
  BY DEF NoteInv, GateInv
<1>2. Typed'
  BY <1>1 DEF Typed
<1>3. SocketsLive' /\ EnteredOnce' /\ MapIsUpToDate'
  BY <1>1 DEF SocketsLive, EnteredOnce, MapIsUpToDate
<1>4. CallsBacked'
  BY <1>1 DEF Typed, CallsBacked, CallBacked
<1> QED BY <1>2, <1>3, <1>4 DEF NoteInv, GateInv

LEMMA RequestInv ==
    ASSUME NoteInv, NEW h \in Handlers, NEW r \in Replicas, Request(h, r)
    PROVE  NoteInv'
<1>0. Typed /\ InboxTrue /\ notes \in [NoteIds -> Notification \cup {Absent}]
  BY DEF NoteInv, Typed
<1>1. ASSUME NEW c \in Call, CallBacked(c, written), Accept(h, r, c) PROVE NoteInv'
  <2> DEFINE d == [c EXCEPT !.at = r]
  <2>1. /\ calls' = [calls EXCEPT ![h] = d] /\ UNCHANGED <<notes, written>>
        /\ UNCHANGED <<accounts, sockets, clients, entered, early, inbox>>
    BY <1>1 DEF Accept, gateVars
  <2>2. d \in Call /\ CallBacked(d, written)
    BY <1>1 DEF Call, CallBacked
  <2> HIDE DEF d
  <2>3. InboxTrue' /\ DOMAIN inbox' = Sockets
    BY <1>0, <2>1, InboxKept DEF Kept, Typed
  <2> QED BY <1>0, <2>1, <2>2, <2>3, HandlerMoves
<1>2. ASSUME NEW u \in Users, Create(h, r, u) PROVE NoteInv'
  <2> DEFINE c == [Idle EXCEPT !.todo = CreateSteps, !.entity = [user |-> u, read |-> FALSE]]
  <2>1. c \in Call /\ CallBacked(c, written)
    BY DEF Idle, CreateSteps, Call, Lists, Notification, CallBacked
  <2>2. Accept(h, r, c)
    BY <1>2 DEF Create
  <2> HIDE DEF c
  <2> QED BY <1>1, <2>1, <2>2
<1>3. ASSUME NEW u \in Users, MarkAllAsRead(h, r, u) PROVE NoteInv'
  <2> DEFINE c == [Idle EXCEPT !.todo = <<"readAll">>, !.entity = [user |-> u, read |-> TRUE]]
  <2>1. c \in Call /\ CallBacked(c, written)
    BY DEF Idle, Call, Lists, Notification, CallBacked
  <2>2. Accept(h, r, c)
    BY <1>3 DEF MarkAllAsRead
  <2> HIDE DEF c
  <2> QED BY <1>1, <2>1, <2>2
<1>4. ASSUME NEW n \in NoteIds, MarkAsRead(h, r, n) PROVE NoteInv'
  <2> DEFINE entity == MarkedRead(notes[n])
             c == [Idle EXCEPT !.todo = <<"put">>, !.note = n, !.entity = entity]
  <2>1. entity \in Notification
    BY <1>0, <1>4 DEF MarkAsRead, MarkedRead, Notification
  <2> HIDE DEF entity
  <2>2. c \in Call /\ CallBacked(c, written)
    BY <2>1 DEF Idle, Call, Lists, CallBacked
  <2>3. Accept(h, r, c)
    BY <1>4 DEF MarkAsRead, entity
  <2> HIDE DEF c
  <2> QED BY <1>1, <2>2, <2>3
<1>5. ASSUME NEW n \in NoteIds, Remove(h, r, n) PROVE NoteInv'
  <2> DEFINE c == [Idle EXCEPT !.todo = <<"delete">>, !.note = n]
  <2>1. c \in Call /\ CallBacked(c, written)
    BY DEF Idle, Call, Lists, CallBacked
  <2>2. Accept(h, r, c)
    BY <1>5 DEF Remove
  <2> HIDE DEF c
  <2> QED BY <1>1, <2>1, <2>2
<1> QED BY <1>2, <1>3, <1>4, <1>5 DEF Request

\* What the invariant says of a handler at its next step.
LEMMA TheCall ==
    ASSUME NoteInv, NEW h \in Handlers, NEW s, At(h, s)
    PROVE  /\ calls[h] \in Call /\ CallBacked(calls[h], written) /\ calls[h].todo \in Lists
           /\ calls[h].todo # <<>> /\ Head(calls[h].todo) = s
BY DEF NoteInv, Typed, CallsBacked, Call, At

LEMMA InsertInv ==
    ASSUME NoteInv, NEW h \in Handlers, NEW n \in NoteIds, Insert(h, n)
    PROVE  NoteInv'
<1> DEFINE c == calls[h]
           row == c.entity
<1>0. /\ Typed /\ SocketsLive /\ EnteredOnce /\ MapIsUpToDate /\ InboxTrue /\ CallsBacked
      /\ notes \in [NoteIds -> Notification \cup {Absent}]
      /\ written \in [NoteIds -> Users \cup {Absent}] /\ calls \in [Handlers -> Call]
  BY DEF NoteInv, GateInv, Typed
<1>1. c \in Call /\ c.todo = <<"insert", "emit">> /\ row \in Notification
  BY TheCall, ListsLeft DEF Insert, CallBacked
<1>2. UNCHANGED <<accounts, sockets, clients, entered, early, inbox>> /\ written[n] = Absent
  BY DEF Insert, gateVars
<1>3. CASE Throw(h) /\ UNCHANGED <<notes, written>>
  <2>1. InboxTrue' /\ DOMAIN inbox' = Sockets
    BY <1>0, <1>2, <1>3, InboxKept DEF Kept, Typed
  <2> QED BY <1>0, <1>2, <1>3, <2>1, IdleBacked, HandlerMoves DEF Throw
<1>4. CASE /\ notes' = [notes EXCEPT ![n] = row]
           /\ written' = [written EXCEPT ![n] = row.user]
           /\ Advance(h, [c EXCEPT !.note = n])
  <2> DEFINE d == [c EXCEPT !.note = n, !.todo = <<"emit">>]
  <2>1. row.user \in Users
    BY <1>1 DEF Notification
  <2>2. calls' = [calls EXCEPT ![h] = d]
    <3> DEFINE e == [c EXCEPT !.note = n]
    <3>1. e.todo = <<"insert", "emit">> /\ [e EXCEPT !.todo = <<"emit">>] = d
      BY <1>1 DEF Call
    <3> HIDE DEF e
    <3>2. calls' = [calls EXCEPT ![h] = [e EXCEPT !.todo = <<"emit">>]]
      BY <1>4, <3>1, ListsLeft DEF Advance, e
    <3> QED BY <3>1, <3>2
  <2>3. d \in Call /\ d.todo = <<"emit">> /\ d.note = n /\ d.entity = row
    BY <1>1 DEF Call, Lists
  <2> HIDE DEF d
  <2>4. Kept
    BY <1>0, <1>2, <1>4, NoteConstants DEF Kept
  <2>5. InboxTrue'
    BY <1>0, <1>2, <2>4, InboxKept
  <2>6. CallBacked(d, written')
    BY <1>0, <1>1, <1>4, <2>3 DEF CallBacked
  <2>7. ASSUME NEW g \in Handlers PROVE CallBacked(calls'[g], written')
    <3>1. CASE g = h
      BY <1>0, <2>2, <2>6, <3>1
    <3>2. CASE g # h
      <4>1. calls'[g] = calls[g] /\ CallBacked(calls[g], written) /\ calls[g] \in Call
        BY <1>0, <2>2, <3>2 DEF CallsBacked
      <4>2. calls[g].todo = <<"emit">> => /\ calls[g].note \in NoteIds
                                          /\ calls[g].entity.user \in Users
        BY <4>1 DEF CallBacked, Notification
      <4> QED BY <4>1, <4>2, <2>4 DEF Kept, CallBacked
    <3> QED BY <3>1, <3>2
  <2>8. CallsBacked'
    BY <2>7 DEF CallsBacked
  <2>9. Typed'
    BY <1>0, <1>1, <1>2, <1>4, <2>1, <2>2, <2>3 DEF Typed
  <2>10. SocketsLive' /\ EnteredOnce' /\ MapIsUpToDate'
    BY <1>0, <1>2 DEF SocketsLive, EnteredOnce, MapIsUpToDate
  <2> QED BY <2>5, <2>8, <2>9, <2>10 DEF NoteInv, GateInv
<1> QED BY <1>3, <1>4 DEF Insert

\* The last step of a handler.
LEMMA LastStep ==
    ASSUME NEW h, NEW c, Len(c.todo) = 1, Advance(h, c)
    PROVE  calls' = [calls EXCEPT ![h] = Idle]
BY DEF Advance

LEMMA EmitInv ==
    ASSUME NoteInv, NEW h \in Handlers, Emit(h)
    PROVE  NoteInv'
<1> DEFINE c == calls[h]
           what == [kind |-> "notification", of |-> c.entity.user, id |-> c.note]
<1>1. Typed /\ InboxTrue /\ notes \in [NoteIds -> Notification \cup {Absent}]
  BY DEF NoteInv, Typed
<1>2. c \in Call /\ CallBacked(c, written) /\ c.todo = <<"emit">>
  BY TheCall, ListsLeft DEF Emit
<1>3. /\ c.entity.user \in Users /\ c.note \in NoteIds /\ written[c.note] = c.entity.user
  BY <1>2 DEF CallBacked, Notification
<1>4. /\ ToRoom(c.at, c.entity.user, what) /\ Advance(h, c)
      /\ UNCHANGED <<accounts, sockets, clients, entered, early, notes, written>>
  BY DEF Emit
<1>5. \A s \in Room(c.at, c.entity.user) : MessageTrue(s, what)
  BY <1>3 DEF Room, MessageTrue
<1> HIDE DEF what
<1>6. InboxTrue' /\ DOMAIN inbox' = Sockets
  BY <1>1, <1>4, <1>5, RoomTold
<1>7. calls' = [calls EXCEPT ![h] = Idle]
  BY <1>2, <1>4, LastStep, ListsLeft
<1> QED BY <1>1, <1>4, <1>6, <1>7, IdleBacked, HandlerMoves

LEMMA WriteInv ==
    ASSUME NoteInv, NEW h \in Handlers, Put(h) \/ ReadAll(h) \/ Delete(h)
    PROVE  NoteInv'
<1> DEFINE c == calls[h]
<1>1. /\ Typed /\ InboxTrue /\ notes \in [NoteIds -> Notification \cup {Absent}]
  BY DEF NoteInv, Typed
<1>2. UNCHANGED <<accounts, sockets, clients, entered, early, inbox, written>>
  BY DEF Put, ReadAll, Delete, gateVars
<1>3. InboxTrue' /\ DOMAIN inbox' = Sockets
  BY <1>1, <1>2, InboxKept DEF Kept, Typed
<1>4. CASE Put(h)
  <2>1. c \in Call /\ CallBacked(c, written) /\ c.todo = <<"put">>
    BY <1>4, TheCall, ListsLeft DEF Put
  <2>2. c.entity \in Notification /\ c.note \in NoteIds
    BY <2>1 DEF CallBacked
  <2>3. calls' = [calls EXCEPT ![h] = Idle]
    BY <1>4, <2>1, LastStep, ListsLeft DEF Put, Throw
  <2>4. notes' \in [NoteIds -> Notification \cup {Absent}]
    BY <1>1, <1>4, <2>2 DEF Put
  <2> QED BY <1>2, <1>3, <2>3, <2>4, IdleBacked, HandlerMoves
<1>5. CASE ReadAll(h)
  <2>1. c \in Call /\ c.todo = <<"readAll">>
    BY <1>5, TheCall, ListsLeft DEF ReadAll
  <2>2. calls' = [calls EXCEPT ![h] = Idle]
    BY <1>5, <2>1, LastStep, ListsLeft DEF ReadAll
  <2>3. \A n \in NoteIds : notes[n] # Absent => [notes[n] EXCEPT !.read = TRUE] \in Notification
    BY <1>1 DEF Notification
  <2>4. notes' \in [NoteIds -> Notification \cup {Absent}]
    BY <1>1, <1>5, <2>3 DEF ReadAll
  <2> QED BY <1>2, <1>3, <2>2, <2>4, IdleBacked, HandlerMoves
<1>6. CASE Delete(h)
  <2>1. c \in Call /\ c.todo = <<"delete">>
    BY <1>6, TheCall, ListsLeft DEF Delete
  <2>2. calls' = [calls EXCEPT ![h] = Idle]
    BY <1>6, <2>1, LastStep, ListsLeft DEF Delete
  <2>3. notes' \in [NoteIds -> Notification \cup {Absent}]
    BY <1>1, <1>6 DEF Delete
  <2> QED BY <1>2, <1>3, <2>2, <2>3, IdleBacked, HandlerMoves
<1> QED BY <1>4, <1>5, <1>6

----------------------------------------------------------------------------
(* The invariant                                                           *)

LEMMA NoteInvInit == Init => NoteInv
<1> SUFFICES ASSUME Init PROVE NoteInv
  OBVIOUS
<1>1. Typed
  BY IdleBacked DEF Init, GateInit, Typed, Unopened, Connection
<1>2. SocketsLive /\ EnteredOnce /\ MapIsUpToDate
  BY DEF Init, GateInit, SocketsLive, EnteredOnce, MapIsUpToDate, Unopened
<1>3. InboxTrue /\ CallsBacked
  BY IdleBacked DEF Init, GateInit, InboxTrue, CallsBacked
<1> QED BY <1>1, <1>2, <1>3 DEF NoteInv, GateInv

LEMMA NoteInvStep == NoteInv /\ [Next]_vars => NoteInv'
<1> SUFFICES ASSUME NoteInv, [Next]_vars PROVE NoteInv'
  OBVIOUS
<1>1. ASSUME GateStep, UNCHANGED noteVars PROVE NoteInv'
  BY <1>1, ConnectInv, EnterInv, LeaveInv, SendMessageInv DEF GateStep
<1>2. ASSUME NEW h \in Handlers, NEW r \in Replicas, Request(h, r) PROVE NoteInv'
  BY <1>2, RequestInv
<1>3. ASSUME NEW h \in Handlers, Step(h) PROVE NoteInv'
  BY <1>3, InsertInv, EmitInv, WriteInv DEF Step
<1>4. ASSUME NEW u \in Users, RemoveUser(u) PROVE NoteInv'
  <2>1. /\ Typed /\ SocketsLive /\ EnteredOnce /\ MapIsUpToDate /\ InboxTrue /\ CallsBacked
    BY DEF NoteInv, GateInv
  <2>2. UNCHANGED <<sockets, clients, inbox, entered, early, calls, written>>
    BY <1>4 DEF RemoveUser
  <2>3. Typed'
    BY <1>4, <2>1, <2>2 DEF Typed, RemoveUser
  <2>4. SocketsLive' /\ EnteredOnce' /\ MapIsUpToDate'
    BY <2>1, <2>2 DEF SocketsLive, EnteredOnce, MapIsUpToDate
  <2>5. InboxTrue' /\ CallsBacked'
    BY <2>1, <2>2, InboxKept DEF Kept, CallsBacked, CallBacked
  <2> QED BY <2>3, <2>4, <2>5 DEF NoteInv, GateInv
<1>5. ASSUME NEW r \in Replicas, CrashReplica(r) PROVE NoteInv'
  BY <1>5, CrashInv
<1>6. CASE UNCHANGED vars
  BY <1>6 DEF vars, gateVars, noteVars, NoteInv, Typed, GateInv, SocketsLive, EnteredOnce,
              MapIsUpToDate, InboxTrue, MessageTrue, CallsBacked, CallBacked
<1> QED BY <1>1, <1>2, <1>3, <1>4, <1>5, <1>6 DEF Next

----------------------------------------------------------------------------
(* The theorems                                                            *)

\* The strengthened invariant holds in every reachable state.
THEOREM NoteInvariance == Spec => []NoteInv
BY NoteInvInit, NoteInvStep, PTL DEF Spec

\* Connections, maps, rows and handlers always have their types.
THEOREM GatewayTypes == Spec => []GatewayTypeOK
<1>1. NoteInv => GatewayTypeOK
  BY ListsLeft DEF NoteInv, Typed, GatewayTypeOK, Call
<1> QED BY <1>1, NoteInvariance, PTL

\* However sockets open, close and are authenticated, and whatever replicas
\* crash, the map of each replica has for every user the socket entered last,
\* unless that has left after it was entered.
THEOREM MapsAreUpToDate == Spec => []MapIsUpToDate
<1>1. NoteInv => MapIsUpToDate
  BY DEF NoteInv, GateInv
<1> QED BY <1>1, NoteInvariance, PTL

\* No socket ever holds a notification that was not stored for its user, or a
\* chat message in the name of anybody but its sender.
THEOREM InboxesAreTrue == Spec => []InboxIsTrue
<1>1. NoteInv => InboxIsTrue
  BY DEF NoteInv, InboxTrue, InboxIsTrue, MessageTrue
<1> QED BY <1>1, NoteInvariance, PTL
=============================================================================

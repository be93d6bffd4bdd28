------------------------------ MODULE Gateway ------------------------------
(***************************************************************************)
(* EventsGateway (src/websockets/events.gateway.ts): the WebSockets of the *)
(* clients.  Every replica of the application has a gateway of its own,    *)
(* with the map connectedClients from users to sockets and with the rooms  *)
(* of socket.io, one for each user; nothing connects the replicas.  A      *)
(* socket is opened once: a client that comes back opens another one.      *)
(***************************************************************************)
EXTENDS Naturals, FiniteSets

CONSTANTS
    Users,
    Sockets,
    Replicas,
    NoSocket,       \* a user the map does not have
    NoUser,         \* whose a socket is that was never opened
    NoReplica,      \* where a socket is that was never opened
    MaxChats,       \* bound on the chat messages
    MaxCrashes      \* bound on the replicas that are killed

VARIABLES
    accounts,   \* the users in the database
    sockets,    \* socket -> its connection
    clients,    \* replica -> connectedClients
    inbox,      \* socket -> what was sent to it
    entered,    \* history: replica -> user -> the socket entered last
    early,      \* history: sockets closed while they were being authenticated
    chats,      \* chat messages sent so far
    crashes     \* replicas killed so far

gateVars == <<accounts, sockets, clients, inbox, entered, early, chats, crashes>>

ASSUME GateConstants ==
    /\ NoSocket \notin Sockets /\ NoUser \notin Users /\ NoReplica \notin Replicas
    /\ MaxChats \in Nat /\ MaxCrashes \in Nat

\* checking: handleConnection waits for the user; joined: the socket is in
\* the room of its user.
Connection == [at : Replicas \cup {NoReplica}, user : Users \cup {NoUser},
               open : BOOLEAN, checking : BOOLEAN, joined : BOOLEAN]
Unopened == [at |-> NoReplica, user |-> NoUser, open |-> FALSE, checking |-> FALSE,
             joined |-> FALSE]

----------------------------------------------------------------------------
(* Faulty variants of definitions below, each a slip that a change of the  *)
(* code could bring; the properties must notice them.                      *)

UsersOf_SameUser(s) == {u \in Users : u = sockets[s].user}
Room_FromMap(r, u) == {clients[r][u]} \cap {s \in Sockets : sockets[s].open}

----------------------------------------------------------------------------
\* The members of the room of u at r that are still there to hear.
Room(r, u) == {s \in Sockets : /\ sockets[s].at = r /\ sockets[s].user = u
                               /\ sockets[s].joined /\ sockets[s].open}

\* getUserIdFromSocketId
UsersOf(s) == {u \in Users : clients[sockets[s].at][u] = s}

ToRoom(r, u, what) ==
    inbox' = [s \in Sockets |-> inbox[s] \cup (IF s \in Room(r, u) THEN {what} ELSE {})]

\* A client opens a socket to some replica, with a token of u.  Without a token
\* that verifies it is disconnected at once, and nothing is left of it.
Connect(s, r, u) ==
    /\ sockets[s] = Unopened
    /\ sockets' = [sockets EXCEPT ![s] =
            [at |-> r, user |-> u, open |-> TRUE, checking |-> TRUE, joined |-> FALSE]]
    /\ UNCHANGED <<accounts, clients, inbox, entered, early, chats, crashes>>

\* The user of a token may have been removed since it was signed.
Admitted(s) == sockets[s].user \in accounts

\* handleConnection after the await: it enters the socket, which may have been
\* closed meanwhile, or disconnects it.
Enter(s) ==
    LET c == sockets[s]
    IN  /\ c.checking
        /\ sockets' = [sockets EXCEPT ![s].checking = FALSE,
                                      ![s].joined = Admitted(s),
                                      ![s].open = @ /\ Admitted(s)]
        /\ clients' = IF Admitted(s) THEN [clients EXCEPT ![c.at][c.user] = s] ELSE clients
        /\ entered' = IF Admitted(s) THEN [entered EXCEPT ![c.at][c.user] = s] ELSE entered
        /\ UNCHANGED <<accounts, inbox, early, chats, crashes>>

\* The socket closes, and handleDisconnect takes it out of the map.
Leave(s) ==
    /\ sockets[s].open
    /\ sockets' = [sockets EXCEPT ![s].open = FALSE]
    /\ clients' = [clients EXCEPT ![sockets[s].at] =
            [u \in Users |-> IF u \in UsersOf(s) THEN NoSocket ELSE @[u]]]
    /\ early' = IF sockets[s].checking THEN early \cup {s} ELSE early
    /\ UNCHANGED <<accounts, inbox, entered, chats, crashes>>

\* handleMessage: who is not in the map is answered "Unauthorized".
SendMessage(s, to) ==
    /\ sockets[s].open
    /\ UsersOf(s) # {}
    /\ chats < MaxChats
    /\ chats' = chats + 1
    /\ ToRoom(sockets[s].at, to, [kind |-> "chat", of |-> CHOOSE u \in UsersOf(s) : TRUE,
                                  id |-> s])
    /\ UNCHANGED <<accounts, sockets, clients, entered, early, crashes>>

\* A replica is killed and started again, without its sockets and its map.
Crash(r) ==
    /\ crashes < MaxCrashes
    /\ crashes' = crashes + 1
    /\ sockets' = [s \in Sockets |->
            IF sockets[s].at = r
            THEN [sockets[s] EXCEPT !.open = FALSE, !.checking = FALSE] ELSE sockets[s]]
    /\ clients' = [clients EXCEPT ![r] = [u \in Users |-> NoSocket]]
    /\ entered' = [entered EXCEPT ![r] = [u \in Users |-> NoSocket]]
    /\ UNCHANGED <<accounts, inbox, early, chats>>

GateInit ==
    /\ accounts = Users
    /\ sockets = [s \in Sockets |-> Unopened]
    /\ clients = [r \in Replicas |-> [u \in Users |-> NoSocket]]
    /\ inbox = [s \in Sockets |-> {}]
    /\ entered = clients
    /\ early = {}
    /\ chats = 0
    /\ crashes = 0

GateStep ==
    \E s \in Sockets :
        \/ \E r \in Replicas, u \in Users : Connect(s, r, u)
        \/ Enter(s)
        \/ Leave(s)
        \/ \E to \in Users : SendMessage(s, to)

----------------------------------------------------------------------------
\* The map of a replica is its clients as the sockets would tell: for every
\* user the socket entered last, unless that has left since.  One that left
\* while it was being authenticated is entered nevertheless, and stays.
MapIsUpToDate ==
    \A r \in Replicas, u \in Users :
        LET s == entered[r][u]
        IN  clients[r][u] = IF s = NoSocket \/ ~(sockets[s].open \/ s \in early)
                            THEN NoSocket ELSE s

=============================================================================

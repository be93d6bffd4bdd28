SPECIFICATION FairSpec
CONSTANTS
    Users = {ann, bob}
    Sockets = {s1, s2}
    Replicas = {r1, r2}
    NoSocket = NoSocket
    NoUser = NoUser
    NoReplica = NoReplica
    NoteIds = {n1}
    Handlers = {h1}
    NoId = NoId
    Absent = Absent
    MaxChats = 1
    MaxCrashes = 1
    MaxRequests = 2
INVARIANTS GatewayTypeOK MapIsUpToDate InboxIsTrue
PROPERTY HeardByEverySocket
CHECK_DEADLOCK FALSE

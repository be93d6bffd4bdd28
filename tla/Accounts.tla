------------------------------ MODULE Accounts ------------------------------
(***************************************************************************)
(* The table of users and all who write it: UsersService                   *)
(* (src/modules/users/users.service.ts), AuthService                       *)
(* (src/modules/auth/auth.service.ts), VerificationService                 *)
(* (src/modules/verification/verification.service.ts), and the requests    *)
(* for deletion of GdprService (src/modules/gdpr/gdpr.service.ts).         *)
(*                                                                         *)
(* Some handlers save a whole row they have loaded before, others update   *)
(* single columns; a handler is a record in calls with the awaits it still *)
(* has ahead (todo, in program order), the account and the request it      *)
(* works on, the entity it will save and the columns save found dirty.     *)
(*                                                                         *)
(* Passwords and tokens are abstracted: a client who logs in knows the     *)
(* password, and the column refreshToken is a session that is set or not,  *)
(* because bcrypt compares the first 72 bytes, in which all refresh tokens *)
(* of a user agree.  A code sent by SMS is the phone it was sent to.  Codes *)
(* that have run out are refused, which is as if they were not presented.  *)
(***************************************************************************)
EXTENDS Naturals, Sequences, FiniteSetsExt, TypeOrm

CONSTANTS
    AccountIds, RequestIds,     \* primary keys of users and deletion requests
    Emails, Phones,
    Erased,         \* the address an anonymised account is given
    NoCode,         \* no code sent to a phone
    NoId,           \* no account or request
    Handlers,       \* requests that can be in progress at the same time
    StartLevels,    \* levels of the account that there is at the start
    StartDocuments, \* documents it has given
    MaxRequests,    \* bound on the requests that clients send
    MaxFailures     \* bound on the handlers that die, or whose query fails

IdDocuments == {"idDocumentFront", "idDocumentBack", "selfieImage"}
Documents == IdDocuments \cup {"addressProofDocument"}
VerificationLevel == 0..4
DeletionStatus == {"PENDING", "APPROVED", "PROCESSING", "COMPLETED", "REJECTED"}

ASSUME AccountConstants ==
    /\ Erased \notin Emails /\ NoCode \notin Phones
    /\ NoId \notin AccountIds \cup RequestIds
    /\ StartLevels \subseteq VerificationLevel
    /\ StartDocuments \subseteq SUBSET Documents
    /\ MaxRequests \in Nat /\ MaxFailures \in Nat

VARIABLES
    users,      \* the table of users: id -> row
    deletions,  \* the table of deletion requests: id -> row
    calls,      \* the handlers
    told,       \* the levels users were congratulated on
    facts,      \* history: id -> what the user has done to earn a level
    was,        \* history: id -> the statuses a deletion request has had
    clean,      \* history: no two requests overlapped
    requests,   \* requests accepted so far
    failures    \* failures so far

vars == <<users, deletions, calls, told, facts, was, clean, requests, failures>>
tables == <<users, deletions, facts, was>>

User == [email: Emails \cup {Erased}, phone: Phones,
         verified: BOOLEAN, verificationLevel: VerificationLevel,
         refreshToken: BOOLEAN, emailVerificationToken: BOOLEAN,
         phoneVerificationCode: Phones \cup {NoCode}, phoneVerified: BOOLEAN,
         idDocumentFront: BOOLEAN, idDocumentBack: BOOLEAN,
         addressProofDocument: BOOLEAN, selfieImage: BOOLEAN,
         idVerified: BOOLEAN, advancedVerified: BOOLEAN]
DataDeletionRequest == [user: AccountIds, status: DeletionStatus]
ASSUME AbsentIsNoRow == Absent \notin User \cup DataDeletionRequest

Facts == {"registered", "email", "phone", "id", "advanced", "renamed"} \cup Documents

Steps == {"insertNew", "setSession", "renewSession", "askMail", "setMailToken",
          "selectUser", "insertUser", "updateUser", "congratulate", "deleteUser",
          "insertRequest", "processing", "anonymise", "complete", "reject"}

Idle == [todo |-> <<>>, user |-> NoId, request |-> NoId, entity |-> Absent, cols |-> {}]

\* The row of a user who has come to a level, with some documents given.
UserAt(email, phone, level, given) ==
    [email |-> email, phone |-> phone,
     verified |-> level >= 1, verificationLevel |-> level, refreshToken |-> FALSE,
     emailVerificationToken |-> FALSE, phoneVerificationCode |-> NoCode,
     phoneVerified |-> level >= 2,
     idDocumentFront |-> "idDocumentFront" \in given,
     idDocumentBack |-> "idDocumentBack" \in given,
     addressProofDocument |-> "addressProofDocument" \in given,
     selfieImage |-> "selfieImage" \in given,
     idVerified |-> level >= 3, advancedVerified |-> level = 4]

Goto(h, c) == calls' = [calls EXCEPT ![h] = c]

\* A client's request reaches an idle handler.
Accept(h) ==
    /\ calls[h] = Idle
    /\ requests < MaxRequests
    /\ requests' = requests + 1
    /\ clean' = (clean /\ \A g \in Handlers : calls[g] = Idle)
    /\ UNCHANGED <<told, failures>>

\* The next await of handler h is s.
At(h, s) == calls[h].todo # <<>> /\ Head(calls[h].todo) = s

\* It is over, and c is what the handler has become: on to the next one.
Advance(h, c) ==
    Goto(h, IF Len(c.todo) = 1 THEN Idle ELSE [c EXCEPT !.todo = Tail(@)])

Working(u, todo) == [Idle EXCEPT !.user = u, !.todo = todo]
Saving(u, entity, todo) == [Working(u, todo) EXCEPT !.entity = entity]

\* What user u has done by now.
Record(u, done) == facts' = [facts EXCEPT ![u] = @ \cup done]

\* The unique constraint on e-mail; that of an erased account has its id in it.
Taken(email, u) ==
    email # Erased /\ \E v \in AccountIds \ {u} : users[v] # Absent /\ users[v].email = email

\* An update of some columns of one user, which may be gone.
SetColumns(u, new) ==
    users' = [users EXCEPT ![u] = Updated(@, new, DOMAIN new)]

FreeIds == {u \in AccountIds : facts[u] = {}}
FreeRequests == {r \in RequestIds : was[r] = {}}

\* Bound: every insert in progress can still be given a key.
KeysLeft(free, s) ==
    Cardinality({g \in Handlers : \E i \in 1..Len(calls[g].todo) : calls[g].todo[i] = s})
        < Cardinality(free)

----------------------------------------------------------------------------
(* Faulty variants of definitions below, each a slip that a change of the  *)
(* code could bring; the properties at the end must notice them.           *)

Raised_Set(user, level) == [user EXCEPT !.verificationLevel = level]
Raised_TooFar(user, level) ==
    [user EXCEPT !.verificationLevel = IF @ < level THEN level ELSE @ + 1]
IdComplete_OneSide(user) == user.idDocumentFront /\ user.selfieImage
AsVerified_OldFlag(user) ==
    [user EXCEPT !.phoneVerificationCode = NoCode,
                 !.verificationLevel = IF @ < 2 THEN 2 ELSE @]
Executable_Open(request) == request.status # "REJECTED"
Execution_MarkFirst == <<"processing", "complete", "anonymise">>
Signed_Any(user) == TRUE

----------------------------------------------------------------------------
(* Requests: users                                                         *)

EmailFree(email) == \A u \in AccountIds : users[u] # Absent => users[u].email # email

\* create, without a session
Create(h, email, phone) ==
    /\ Accept(h)
    /\ KeysLeft(FreeIds, "insertNew")
    /\ EmailFree(email)
    /\ Goto(h, Saving(NoId, UserAt(email, phone, 0, {}), <<"insertNew">>))
    /\ UNCHANGED tables

\* update of the profile: the phone is set as the client says, and stays as
\* verified as the one before.  The e-mail is not held against those in use; a
\* request that leaves it alone keeps also the address of an erased account.
Update(h, u, email, phone) ==
    /\ Accept(h)
    /\ users[u] # Absent
    /\ email \in Emails \cup {users[u].email}
    /\ Goto(h, Saving(u, [users[u] EXCEPT !.email = email, !.phone = phone],
                      <<"selectUser">>))
    /\ Record(u, IF email # users[u].email THEN {"renamed"} ELSE {})
    /\ UNCHANGED <<users, deletions, was>>

Remove(h, u) ==
    /\ Accept(h)
    /\ users[u] # Absent
    /\ Goto(h, Working(u, <<"deleteUser">>))
    /\ UNCHANGED tables

----------------------------------------------------------------------------
(* Requests: authentication                                                *)

Register(h, email, phone) ==
    /\ Accept(h)
    /\ KeysLeft(FreeIds, "insertNew")
    /\ EmailFree(email)
    /\ Goto(h, Saving(NoId, UserAt(email, phone, 0, {}),
                      <<"insertNew", "setSession", "askMail", "setMailToken">>))
    /\ UNCHANGED tables

\* An anonymised user can still log in, with the address it was given.
Login(h, u) ==
    /\ Accept(h)
    /\ users[u] # Absent
    /\ Goto(h, Working(u, <<"setSession">>))
    /\ UNCHANGED tables

Signed(user) == user.refreshToken

RefreshTokens(h, u) ==
    /\ Accept(h)
    /\ users[u] # Absent
    /\ Signed(users[u])
    /\ Goto(h, Working(u, <<"renewSession">>))
    /\ UNCHANGED tables

Logout(h, u) ==
    /\ Accept(h)
    /\ SetColumns(u, [refreshToken |-> FALSE])
    /\ UNCHANGED <<deletions, facts, was, calls>>

----------------------------------------------------------------------------
(* Requests: verification                                                  *)

Raised(user, level) ==
    [user EXCEPT !.verificationLevel = IF @ < level THEN level ELSE @]

\* The steps of a handler that saves entity over user and then emits an
\* event, which a listener turns into a notification.
SaveAndTell(user, entity) ==
    IF entity.verificationLevel = user.verificationLevel THEN <<"selectUser">>
    ELSE <<"selectUser", "congratulate">>

SendEmailVerification(h, u) ==
    /\ Accept(h)
    /\ Goto(h, Working(u, <<"askMail", "setMailToken">>))
    /\ UNCHANGED tables

VerifyEmail(h, u) ==
    /\ Accept(h)
    /\ users[u] # Absent
    /\ users[u].emailVerificationToken
    /\ LET entity == Raised([users[u] EXCEPT !.verified = TRUE,
                                             !.emailVerificationToken = FALSE], 1)
       IN  Goto(h, Saving(u, entity, SaveAndTell(users[u], entity)))
    /\ Record(u, {"email"})
    /\ UNCHANGED <<users, deletions, was>>

\* requestPhoneVerification: another phone is not verified any more.  The code
\* is sent after the row was saved.
RequestPhoneVerification(h, u, phone) ==
    /\ Accept(h)
    /\ users[u] # Absent
    /\ users[u].verificationLevel < 2
    /\ Goto(h, Saving(u, [users[u] EXCEPT
                              !.phone = phone,
                              !.phoneVerified = @ /\ users[u].phone = phone,
                              !.phoneVerificationCode = phone], <<"selectUser">>))
    /\ UNCHANGED tables

AsVerified(user) ==
    Raised([user EXCEPT !.phoneVerified = TRUE, !.phoneVerificationCode = NoCode], 2)

\* verifyPhone: the code is compared, not the phone it was sent to.
VerifyPhone(h, u) ==
    /\ Accept(h)
    /\ users[u] # Absent
    /\ users[u].phoneVerificationCode # NoCode
    /\ Goto(h, Saving(u, AsVerified(users[u]), SaveAndTell(users[u], AsVerified(users[u]))))
    /\ Record(u, {"phone"})
    /\ UNCHANGED <<users, deletions, was>>

MayUpload(user) == user.verificationLevel >= 2

\* uploadIdDocument: the file is stored between the load and the save.
UploadIdDocument(h, u, document) ==
    /\ Accept(h)
    /\ users[u] # Absent
    /\ MayUpload(users[u])
    /\ Goto(h, Saving(u, [users[u] EXCEPT ![document] = TRUE], <<"selectUser">>))
    /\ Record(u, {document})
    /\ UNCHANGED <<users, deletions, was>>

IdComplete(user) == user.idDocumentFront /\ user.idDocumentBack /\ user.selfieImage

\* approveIdVerification, by an admin
ApproveIdVerification(h, u) ==
    /\ Accept(h)
    /\ users[u] # Absent
    /\ IdComplete(users[u])
    /\ LET entity == Raised([users[u] EXCEPT !.idVerified = TRUE], 3)
       IN  Goto(h, Saving(u, entity, SaveAndTell(users[u], entity)))
    /\ Record(u, {"id"})
    /\ UNCHANGED <<users, deletions, was>>

\* approveAdvancedVerification, by an admin
ApproveAdvancedVerification(h, u) ==
    /\ Accept(h)
    /\ users[u] # Absent
    /\ users[u].idVerified
    /\ users[u].addressProofDocument
    /\ LET entity == [users[u] EXCEPT !.advancedVerified = TRUE, !.verificationLevel = 4]
       IN  Goto(h, Saving(u, entity, SaveAndTell(users[u], entity)))
    /\ Record(u, {"advanced"})
    /\ UNCHANGED <<users, deletions, was>>

----------------------------------------------------------------------------
(* Requests: deletion                                                      *)

StoreRequest(r, row) ==
    /\ deletions' = [deletions EXCEPT ![r] = row]
    /\ was' = [was EXCEPT ![r] = @ \cup {row.status}]

SetStatus(r, status) == StoreRequest(r, [deletions[r] EXCEPT !.status = status])

RequestDataDeletion(h, u) ==
    /\ Accept(h)
    /\ KeysLeft(FreeRequests, "insertRequest")
    /\ \A r \in RequestIds :
          ~ (deletions[r] # Absent /\ deletions[r].user = u /\ deletions[r].status = "PENDING")
    /\ Goto(h, Working(u, <<"insertRequest">>))
    /\ UNCHANGED tables

\* approveDeletionRequest and rejectDeletionRequest, by an admin and whatever
\* the status is.
Review(h, r, status) ==
    /\ Accept(h)
    /\ deletions[r] # Absent
    /\ SetStatus(r, status)
    /\ UNCHANGED <<users, facts, calls>>

Executable(request) == request.status = "APPROVED"
Execution == <<"processing", "anonymise", "complete">>

ExecuteDeletion(h, r) ==
    /\ Accept(h)
    /\ deletions[r] # Absent
    /\ Executable(deletions[r])
    /\ Goto(h, [Working(deletions[r].user, Execution) EXCEPT !.request = r])
    /\ UNCHANGED tables

----------------------------------------------------------------------------
(* Steps of a handler after an await.                                      *)

Unrequested == <<told, clean, requests, failures>>

\* The insert of a new account fails when its e-mail has been taken meanwhile.
InsertNew(h, u) ==
    /\ At(h, "insertNew")
    /\ u \in FreeIds
    /\ LET c == calls[h]
       IN  IF Taken(c.entity.email, u) THEN Goto(h, Idle) /\ UNCHANGED <<users, facts>>
           ELSE /\ users' = [users EXCEPT ![u] = c.entity]
                /\ Record(u, {"registered"})
                /\ Advance(h, [c EXCEPT !.user = u, !.entity = Absent])
    /\ UNCHANGED <<deletions, was, Unrequested>>

\* setRefreshToken of login, registration and refreshing
SetSession(h) ==
    /\ At(h, "setSession") \/ At(h, "renewSession")
    /\ SetColumns(calls[h].user, [refreshToken |-> TRUE])
    /\ Advance(h, calls[h])
    /\ UNCHANGED <<deletions, facts, was, Unrequested>>

\* sendEmailVerification refuses whoever has a level.
AskMail(h) ==
    /\ At(h, "askMail")
    /\ LET user == users[calls[h].user]
       IN  IF user = Absent THEN Goto(h, Idle)
           ELSE IF user.verificationLevel >= 1 THEN Goto(h, Idle)
           ELSE Advance(h, calls[h])
    /\ UNCHANGED <<tables, Unrequested>>

SetMailToken(h) ==
    /\ At(h, "setMailToken")
    /\ SetColumns(calls[h].user, [emailVerificationToken |-> TRUE])
    /\ Advance(h, calls[h])
    /\ UNCHANGED <<deletions, facts, was, Unrequested>>

\* First query of save: an UPDATE or, when the row is gone, an INSERT follows.
SelectUser(h) ==
    /\ At(h, "selectUser")
    /\ LET c == calls[h]
           row == users[c.user]
           then(s) == <<s>> \o Tail(c.todo)
       IN  Goto(h, IF row = Absent THEN [c EXCEPT !.todo = then("insertUser")]
                   ELSE [c EXCEPT !.todo = then("updateUser"),
                                  !.cols = Dirty(c.entity, row)])
    /\ UNCHANGED <<tables, Unrequested>>

\* Second query of save, which fails on an e-mail or an id in use.
Refused(c) ==
    \/ Taken(c.entity.email, c.user) /\ (Head(c.todo) = "insertUser" \/ "email" \in c.cols)
    \/ Head(c.todo) = "insertUser" /\ users[c.user] # Absent

WriteUser(h) ==
    /\ At(h, "updateUser") \/ At(h, "insertUser")
    /\ LET c == calls[h]
       IN  IF Refused(c) THEN Goto(h, Idle) /\ UNCHANGED users
           ELSE /\ users' = [users EXCEPT ![c.user] =
                       IF At(h, "insertUser") THEN c.entity ELSE Updated(@, c.entity, c.cols)]
                /\ Advance(h, [c EXCEPT !.cols = {}])
    /\ UNCHANGED <<deletions, facts, was, Unrequested>>

\* handleVerificationLevelChanged, which nobody awaits: it runs some time after
\* the save, and may die with its replica.  The notification needs its user.
Congratulate(h) ==
    /\ At(h, "congratulate")
    /\ LET c == calls[h]
       IN  told' = IF users[c.user] = Absent THEN told
                   ELSE told \cup {<<c.user, c.entity.verificationLevel>>}
    /\ Advance(h, calls[h])
    /\ UNCHANGED <<tables, clean, requests, failures>>

\* A deletion request of the user may not lose its userId: the delete fails.
DeleteUser(h) ==
    /\ At(h, "deleteUser")
    /\ LET u == calls[h].user
       IN  users' = IF \E r \in RequestIds : deletions[r] # Absent /\ deletions[r].user = u
                    THEN users ELSE [users EXCEPT ![u] = Absent]
    /\ Advance(h, calls[h])
    /\ UNCHANGED <<deletions, facts, was, Unrequested>>

InsertRequest(h, r) ==
    /\ At(h, "insertRequest")
    /\ r \in FreeRequests
    /\ LET u == calls[h].user
       IN  IF users[u] = Absent THEN UNCHANGED <<deletions, was>>
           ELSE StoreRequest(r, [user |-> u, status |-> "PENDING"])
    /\ Advance(h, calls[h])
    /\ UNCHANGED <<users, facts, Unrequested>>

\* The steps of executeDeletion that mark the request.
Mark(h, s, status) ==
    /\ At(h, s)
    /\ SetStatus(calls[h].request, status)
    /\ Advance(h, calls[h])
    /\ UNCHANGED <<users, facts, Unrequested>>

Anonymise(h) ==
    /\ At(h, "anonymise")
    /\ SetColumns(calls[h].user, [email |-> Erased])
    /\ facts' = [facts EXCEPT ![calls[h].user] = @ \ {"renamed"}]
    /\ Advance(h, calls[h])
    /\ UNCHANGED <<deletions, was, Unrequested>>

\* The replica is killed, or a query fails where nothing catches the error.
Fail(h) ==
    /\ calls[h] # Idle
    /\ failures < MaxFailures
    /\ failures' = failures + 1
    /\ Goto(h, Idle)
    /\ UNCHANGED <<tables, told, clean, requests>>

\* A query of executeDeletion fails after it was begun.
ExecutionFails(h) ==
    /\ At(h, "anonymise") \/ At(h, "complete")
    /\ failures < MaxFailures
    /\ failures' = failures + 1
    /\ Goto(h, [calls[h] EXCEPT !.todo = <<"reject">>])
    /\ UNCHANGED <<tables, told, clean, requests>>

----------------------------------------------------------------------------
\* What a user at a level, with some documents given, has done to get there.
Done(level, given) ==
    {"registered"} \cup given
        \cup (IF level >= 1 THEN {"email"} ELSE {}) \cup (IF level >= 2 THEN {"phone"} ELSE {})
        \cup (IF level >= 3 THEN {"id"} ELSE {}) \cup (IF level = 4 THEN {"advanced"} ELSE {})

\* One user, at some level that its documents allow, and room for others.
Init ==
    /\ \E u \in AccountIds, email \in Emails, phone \in Phones, level \in StartLevels,
          given \in StartDocuments :
          /\ given # {} => level >= 2
          /\ level >= 3 => IdDocuments \subseteq given
          /\ level = 4 => Documents \subseteq given
          /\ users = [v \in AccountIds |-> IF v # u THEN Absent
                 ELSE UserAt(email, phone, level, given)]
          /\ facts = [v \in AccountIds |-> IF v # u THEN {} ELSE Done(level, given)]
    /\ deletions = [r \in RequestIds |-> Absent]
    /\ calls = [h \in Handlers |-> Idle]
    /\ told = {}
    /\ was = [r \in RequestIds |-> {}]
    /\ clean = TRUE
    /\ requests = 0
    /\ failures = 0

Request(h) ==
    \/ \E email \in Emails, phone \in Phones : \/ Create(h, email, phone)
                                                \/ Register(h, email, phone)
    \/ \E u \in AccountIds :
        \/ \E email \in Emails \cup {Erased}, phone \in Phones : Update(h, u, email, phone)
        \/ Remove(h, u)
        \/ Login(h, u)
        \/ RefreshTokens(h, u)
        \/ Logout(h, u)
        \/ SendEmailVerification(h, u)
        \/ VerifyEmail(h, u)
        \/ \E phone \in Phones : RequestPhoneVerification(h, u, phone)
        \/ VerifyPhone(h, u)
        \/ \E document \in Documents : UploadIdDocument(h, u, document)
        \/ ApproveIdVerification(h, u)
        \/ ApproveAdvancedVerification(h, u)
        \/ RequestDataDeletion(h, u)
    \/ \E r \in RequestIds :
        \/ \E status \in {"APPROVED", "REJECTED"} : Review(h, r, status)
        \/ ExecuteDeletion(h, r)

Step(h) ==
    \/ \E u \in AccountIds : InsertNew(h, u)
    \/ SetSession(h)
    \/ AskMail(h)
    \/ SetMailToken(h)
    \/ SelectUser(h)
    \/ WriteUser(h)
    \/ Congratulate(h)
    \/ DeleteUser(h)
    \/ \E r \in RequestIds : InsertRequest(h, r)
    \/ Mark(h, "processing", "PROCESSING")
    \/ Anonymise(h)
    \/ Mark(h, "complete", "COMPLETED")
    \/ Mark(h, "reject", "REJECTED")

Next == \E h \in Handlers : Request(h) \/ Step(h) \/ Fail(h) \/ ExecutionFails(h)

Spec == Init /\ [][Next]_vars

----------------------------------------------------------------------------
(* What accounts promise, however requests interleave and fail.            *)

\* Every variable has its type: rows, handlers and history are what the
\* entities and the handlers of the four services can build.
AccTypeOK ==
    /\ users \in [AccountIds -> User \cup {Absent}]
    /\ deletions \in [RequestIds -> DataDeletionRequest \cup {Absent}]
    /\ \A h \in Handlers :
        /\ calls[h].todo \in Seq(Steps)
        /\ calls[h].user \in AccountIds \cup {NoId}
        /\ calls[h].request \in RequestIds \cup {NoId}
        /\ calls[h].entity \in User \cup {Absent}
        /\ calls[h].cols # {} => calls[h].cols \subseteq DOMAIN calls[h].entity
    /\ told \subseteq AccountIds \X VerificationLevel
    /\ facts \in [AccountIds -> SUBSET Facts]
    /\ was \in [RequestIds -> SUBSET DeletionStatus]

Earned(u, level) ==
    /\ level >= 1 => facts[u] \cap {"email", "phone"} # {}
    /\ level >= 2 => "phone" \in facts[u]
    /\ level >= 3 => {"id"} \cup IdDocuments \subseteq facts[u]
    /\ level = 4 => {"advanced", "addressProofDocument"} \subseteq facts[u]

\* Nobody is at a level, or is congratulated on one, without having taken
\* every step of verification.service.ts on the way to it, whatever stale
\* copies of the row were saved: a code was presented for level 2, and for
\* level 3 it was before the documents that an admin approved.
LevelsAreEarned ==
    /\ \A u \in AccountIds : users[u] # Absent => Earned(u, users[u].verificationLevel)
    /\ \A t \in told : Earned(t[1], t[2])

\* An account is anonymised only if an admin approved a request of its user,
\* and a request is COMPLETED only by way of every status before it, also when
\* reviews and executions overlap or fail half way (executeDeletion).
ErasedWasApproved ==
    /\ \A u \in AccountIds : (users[u] # Absent /\ users[u].email = Erased) =>
        \E r \in RequestIds :
            deletions[r] # Absent /\ deletions[r].user = u /\ "APPROVED" \in was[r]
    /\ \A r \in RequestIds :
        "COMPLETED" \in was[r] => {"PENDING", "APPROVED", "PROCESSING"} \subseteq was[r]

----------------------------------------------------------------------------
(* What they promise as long as requests come one at a time, although they *)
(* may fail half way: a handler that saves a stale row can undo any of it. *)

\* The flags of a user are those of the level, whichever way of verifying and
\* of changing the profile led to it: guards elsewhere look at either.
FlagsMatchLevel ==
    clean => \A u \in AccountIds : users[u] # Absent =>
        LET user == users[u]
        IN  /\ user.verified => user.verificationLevel >= 1
            /\ user.phoneVerified <=> user.verificationLevel >= 2
            /\ user.idVerified <=> user.verificationLevel >= 3
            /\ user.advancedVerified <=> user.verificationLevel = 4

\* A level is never taken back, also when steps are taken out of their order.
LevelNeverFalls ==
    [][\A u \in AccountIds :
          (users[u] # Absent /\ users'[u] # Absent /\ clean')
              => users'[u].verificationLevel >= users[u].verificationLevel]_vars

\* A request that is COMPLETED was carried out: its user is anonymous, unless
\* the profile was given another e-mail since.
CompletedMeansErased ==
    clean => \A r \in RequestIds :
        (deletions[r] # Absent /\ deletions[r].status = "COMPLETED") =>
            LET u == deletions[r].user
            IN  /\ users[u] # Absent
                /\ users[u].email = Erased \/ "renamed" \in facts[u]

\* A user who has logged out has no session before logging in again; a
\* refresh token from before does not bring it back.
LoggedOutStaysOut ==
    [][\A u \in AccountIds :
          (users[u] # Absent /\ users'[u] # Absent /\ clean'
            /\ ~ users[u].refreshToken /\ users'[u].refreshToken)
              => \E h \in Handlers : At(h, "setSession") /\ calls[h].user = u]_vars
=============================================================================

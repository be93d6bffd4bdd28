--------------------------- MODULE AccountsProofs ---------------------------
(***************************************************************************)
(* Proofs about Accounts for any number of accounts, deletion requests and *)
(* concurrent handlers: types, that levels are earned, and that whoever is *)
(* erased was approved for deletion.                                       *)
(*                                                                         *)
(* A level may be saved from a copy that is stale, together with some of   *)
(* the columns of that copy.  The strengthening therefore says column by   *)
(* column what the user has done for it, of every row and of every copy:   *)
(* a mix of two rows of one user is then as true as both, because what a   *)
(* user has done stays done (only a change of the e-mail is forgotten).    *)
(*                                                                         *)
(* As long as no two requests overlap (CleanInv) a handler moreover finds  *)
(* the row it loaded as it left it, so that a save takes over what it      *)
(* loaded and nothing else: flags, levels, sessions and erasures are then  *)
(* right, also when requests fail half way.                                *)
(***************************************************************************)
EXTENDS Accounts, TLAPS, SequenceTheorems

UserColumns == {"email", "phone", "verified", "verificationLevel", "refreshToken",
                "emailVerificationToken", "phoneVerificationCode", "phoneVerified",
                "idDocumentFront", "idDocumentBack", "addressProofDocument", "selfieImage",
                "idVerified", "advancedVerified"}

\* The awaits a handler can have ahead of it.
Lists ==
    {<<>>, <<"insertNew">>, <<"insertNew", "setSession", "askMail", "setMailToken">>,
     <<"setSession", "askMail", "setMailToken">>, <<"askMail", "setMailToken">>,
     <<"setMailToken">>, <<"setSession">>, <<"renewSession">>,
     <<"selectUser">>, <<"selectUser", "congratulate">>,
     <<"updateUser">>, <<"updateUser", "congratulate">>,
     <<"insertUser">>, <<"insertUser", "congratulate">>, <<"congratulate">>,
     <<"deleteUser">>, <<"insertRequest">>,
     <<"processing", "anonymise", "complete">>, <<"anonymise", "complete">>,
     <<"complete">>, <<"reject">>}

Call == [todo : Lists, user : AccountIds \cup {NoId}, request : RequestIds \cup {NoId},
         entity : User \cup {Absent}, cols : SUBSET UserColumns]

Typed ==
    /\ users \in [AccountIds -> User \cup {Absent}]
    /\ deletions \in [RequestIds -> DataDeletionRequest \cup {Absent}]
    /\ calls \in [Handlers -> Call]
    /\ told \subseteq AccountIds \X VerificationLevel
    /\ facts \in [AccountIds -> SUBSET Facts]
    /\ was \in [RequestIds -> SUBSET DeletionStatus]

\* What a level takes, of what was done.
LevelEarned(level, done) ==
    /\ level >= 1 => done \cap {"email", "phone"} # {}
    /\ level >= 2 => "phone" \in done
    /\ level >= 3 => {"id"} \cup IdDocuments \subseteq done
    /\ level = 4 => {"advanced", "addressProofDocument"} \subseteq done

\* What the columns of a user rest on.
RowEarned(row, done) ==
    /\ LevelEarned(row.verificationLevel, done)
    /\ row.idDocumentFront => {"idDocumentFront", "phone"} \subseteq done
    /\ row.idDocumentBack => {"idDocumentBack", "phone"} \subseteq done
    /\ row.selfieImage => {"selfieImage", "phone"} \subseteq done
    /\ row.addressProofDocument => {"addressProofDocument", "phone"} \subseteq done
    /\ row.idVerified => {"id", "phone"} \cup IdDocuments \subseteq done

\* Who has the address of an erased account was approved for deletion.
EmailApproved(email, u, ds, ws) ==
    email = Erased =>
        \E r \in RequestIds : ds[r] # Absent /\ ds[r].user = u /\ "APPROVED" \in ws[r]

\* The history of a request knows its status, and begins with PENDING.
RequestBacked(row, statuses) ==
    /\ row # Absent => row.status \in statuses /\ "PENDING" \in statuses
    /\ "COMPLETED" \in statuses => {"PENDING", "APPROVED", "PROCESSING"} \subseteq statuses

Ahead(c, S) == c.todo # <<>> /\ Head(c.todo) \in S

Saves == {"selectUser", "updateUser", "insertUser", "congratulate"}

\* What a handler knows at each of its awaits.
CallBacked(c, fs, ds, ws) ==
    /\ Ahead(c, {"insertNew"}) =>
            /\ c.entity \in User /\ c.entity.email \in Emails /\ c.cols = {}
            /\ RowEarned(c.entity, {})
    /\ Ahead(c, Steps \ {"insertNew"}) => c.user \in AccountIds
    /\ Ahead(c, Saves) => /\ c.entity \in User /\ RowEarned(c.entity, fs[c.user])
                          /\ EmailApproved(c.entity.email, c.user, ds, ws)
    /\ Ahead(c, {"processing", "anonymise", "complete", "reject"}) =>
            c.request \in RequestIds /\ ds[c.request] # Absent
    /\ Ahead(c, {"processing", "anonymise", "complete"}) =>
            ds[c.request].user = c.user /\ {"PENDING", "APPROVED"} \subseteq ws[c.request]
    /\ Ahead(c, {"anonymise", "complete"}) => "PROCESSING" \in ws[c.request]
    /\ c.cols # {} => c.entity \in User

UsersBacked ==
    \A u \in AccountIds :
        users[u] # Absent => /\ RowEarned(users[u], facts[u])
                             /\ EmailApproved(users[u].email, u, deletions, was)
RequestsBacked == \A r \in RequestIds : RequestBacked(deletions[r], was[r])
CallsBacked == \A h \in Handlers : CallBacked(calls[h], facts, deletions, was)
ToldBacked == \A t \in told : LevelEarned(t[2], facts[t[1]])

AccInv == Typed /\ UsersBacked /\ RequestsBacked /\ CallsBacked /\ ToldBacked

----------------------------------------------------------------------------
(* Lists of awaits                                                         *)

\* What is left of a list after its first await.
LEMMA Tails ==
    /\ \A a : Len(<<a>>) = 1 /\ Head(<<a>>) = a
    /\ \A a, b : Len(<<a, b>>) = 2 /\ Head(<<a, b>>) = a /\ Tail(<<a, b>>) = <<b>>
    /\ \A a, b, c : /\ Len(<<a, b, c>>) = 3 /\ Head(<<a, b, c>>) = a
                    /\ Tail(<<a, b, c>>) = <<b, c>>
    /\ \A a, b, c, d : /\ Len(<<a, b, c, d>>) = 4 /\ Head(<<a, b, c, d>>) = a
                       /\ Tail(<<a, b, c, d>>) = <<b, c, d>>
OBVIOUS

LEMMA ListsAreSteps ==
    /\ Lists \subseteq Seq(Steps)
    /\ \A todo \in Lists : todo # <<>> => Head(todo) \in Steps
BY DEF Lists, Steps

\* What follows what.
LEMMA ListsLeft ==
    ASSUME NEW todo \in Lists, todo # <<>>, Len(todo) # 1
    PROVE  /\ Tail(todo) \in Lists /\ Tail(todo) # <<>>
           /\ Head(todo) = "insertNew" => Head(Tail(todo)) = "setSession"
           /\ Head(todo) \in {"selectUser", "updateUser", "insertUser"}
                => Head(Tail(todo)) = "congratulate"
           /\ Head(todo) = "processing" => Head(Tail(todo)) = "anonymise"
           /\ Head(todo) = "anonymise" => Head(Tail(todo)) = "complete"
           /\ Head(todo) = "setSession" => Head(Tail(todo)) = "askMail"
           /\ Head(todo) = "askMail" => Head(Tail(todo)) = "setMailToken"
           /\ Head(todo) \in {"insertNew", "selectUser", "updateUser", "insertUser",
                              "processing", "anonymise", "setSession", "askMail"}
<1>1. \/ todo = <<"insertNew", "setSession", "askMail", "setMailToken">>
      \/ todo = <<"setSession", "askMail", "setMailToken">>
      \/ todo = <<"askMail", "setMailToken">>
      \/ \E s \in {"selectUser", "updateUser", "insertUser"} : todo = <<s, "congratulate">>
      \/ todo = <<"processing", "anonymise", "complete">>
      \/ todo = <<"anonymise", "complete">>
  BY Tails DEF Lists
<1>2. CASE todo = <<"insertNew", "setSession", "askMail", "setMailToken">>
  BY <1>2, Tails DEF Lists
<1>3. CASE todo = <<"setSession", "askMail", "setMailToken">>
  BY <1>3, Tails DEF Lists
<1>4. CASE todo = <<"askMail", "setMailToken">>
  BY <1>4, Tails DEF Lists
<1>5. ASSUME NEW s \in {"selectUser", "updateUser", "insertUser"},
             todo = <<s, "congratulate">>
      PROVE  /\ Head(todo) = s /\ Tail(todo) = <<"congratulate">>
             /\ Head(Tail(todo)) = "congratulate" /\ Tail(todo) \in Lists
             /\ Tail(todo) # <<>>
  BY <1>5, Tails DEF Lists
<1>6. CASE todo = <<"processing", "anonymise", "complete">>
  BY <1>6, Tails DEF Lists
<1>7. CASE todo = <<"anonymise", "complete">>
  BY <1>7, Tails DEF Lists
<1> QED BY <1>1, <1>2, <1>3, <1>4, <1>5, <1>6, <1>7

\* save goes on with its second query in the place of the first.
LEMMA ListsSave ==
    ASSUME NEW todo \in Lists, todo # <<>>, Head(todo) = "selectUser",
           NEW s \in {"updateUser", "insertUser"}
    PROVE  /\ <<s>> \o Tail(todo) \in Lists
           /\ <<s>> \o Tail(todo) # <<>>
           /\ Head(<<s>> \o Tail(todo)) = s
<1>1. todo = <<"selectUser">> \/ todo = <<"selectUser", "congratulate">>
  BY Tails DEF Lists
<1>2. CASE todo = <<"selectUser">>
  <2>1. Tail(todo) = <<>>
    BY <1>2
  <2>2. <<s>> \o <<>> = <<s>>
    BY <<s>> \in Seq({s}), ConcatEmptySeq
  <2>3. <<s>> \in Lists /\ <<s>> # <<>> /\ Head(<<s>>) = s
    BY Tails DEF Lists
  <2> QED BY <2>1, <2>2, <2>3
<1>3. CASE todo = <<"selectUser", "congratulate">>
  <2> DEFINE both == <<s>> \o <<"congratulate">>
  <2>1. Tail(todo) = <<"congratulate">>
    BY <1>3
  <2>2. <<s>> \in Seq(Steps) /\ <<"congratulate">> \in Seq(Steps)
    BY DEF Steps
  <2>3. /\ both \in Seq(Steps) /\ Len(both) = 2
        /\ both[1] = s /\ both[2] = "congratulate"
    BY <2>2, ConcatProperties
  <2> HIDE DEF both
  <2>4. both = <<s, "congratulate">>
    BY <2>3
  <2>5. /\ <<s, "congratulate">> \in Lists /\ Head(<<s, "congratulate">>) = s
        /\ <<s, "congratulate">> # <<>>
    BY Tails DEF Lists
  <2>6. both = <<s>> \o Tail(todo)
    BY <2>1 DEF both
  <2> QED BY <2>4, <2>5, <2>6
<1> QED BY <1>1, <1>2, <1>3

----------------------------------------------------------------------------
(* Rows and what save makes of them                                        *)

\* The fields of a user have their types.
LEMMA UserFields ==
    ASSUME NEW row \in User
    PROVE  /\ DOMAIN row = UserColumns
           /\ row.email \in Emails \cup {Erased} /\ row.phone \in Phones
           /\ row.verified \in BOOLEAN /\ row.verificationLevel \in VerificationLevel
           /\ row.refreshToken \in BOOLEAN /\ row.emailVerificationToken \in BOOLEAN
           /\ row.phoneVerificationCode \in Phones \cup {NoCode} /\ row.phoneVerified \in BOOLEAN
           /\ row.idDocumentFront \in BOOLEAN /\ row.idDocumentBack \in BOOLEAN
           /\ row.addressProofDocument \in BOOLEAN /\ row.selfieImage \in BOOLEAN
           /\ row.idVerified \in BOOLEAN /\ row.advancedVerified \in BOOLEAN
BY DEF User, UserColumns

\* Mixing columns of two users gives a user.
LEMMA PatchedUser ==
    ASSUME NEW row \in User, NEW entity \in User, NEW cols \in SUBSET UserColumns
    PROVE  LET p == Patched(row, entity, cols)
           IN  /\ p \in User
               /\ \A c \in UserColumns : p[c] = IF c \in cols THEN entity[c] ELSE row[c]
<1> DEFINE p == Patched(row, entity, cols)
<1>1. p = [c \in UserColumns |-> IF c \in cols THEN entity[c] ELSE row[c]]
  BY UserFields DEF Patched
<1> HIDE DEF p
<1>2. p = [email |-> p["email"], phone |-> p["phone"],
           verified |-> p["verified"], verificationLevel |-> p["verificationLevel"],
           refreshToken |-> p["refreshToken"],
           emailVerificationToken |-> p["emailVerificationToken"],
           phoneVerificationCode |-> p["phoneVerificationCode"],
           phoneVerified |-> p["phoneVerified"],
           idDocumentFront |-> p["idDocumentFront"],
           idDocumentBack |-> p["idDocumentBack"],
           addressProofDocument |-> p["addressProofDocument"],
           selfieImage |-> p["selfieImage"],
           idVerified |-> p["idVerified"], advancedVerified |-> p["advancedVerified"]]
  BY <1>1 DEF UserColumns
<1>3. /\ p["email"] \in Emails \cup {Erased} /\ p["phone"] \in Phones
      /\ p["verified"] \in BOOLEAN /\ p["verificationLevel"] \in VerificationLevel
      /\ p["refreshToken"] \in BOOLEAN /\ p["emailVerificationToken"] \in BOOLEAN
      /\ p["phoneVerificationCode"] \in Phones \cup {NoCode} /\ p["phoneVerified"] \in BOOLEAN
      /\ p["idDocumentFront"] \in BOOLEAN /\ p["idDocumentBack"] \in BOOLEAN
      /\ p["addressProofDocument"] \in BOOLEAN /\ p["selfieImage"] \in BOOLEAN
      /\ p["idVerified"] \in BOOLEAN /\ p["advancedVerified"] \in BOOLEAN
  BY <1>1, UserFields DEF UserColumns
<1>4. p \in User
  BY <1>2, <1>3 DEF User
<1> QED BY <1>1, <1>4 DEF p

\* If both rows are earned, so is their mix.
LEMMA PatchedEarned ==
    ASSUME NEW row \in User, NEW entity \in User, NEW cols \in SUBSET UserColumns,
           NEW done, RowEarned(row, done), RowEarned(entity, done)
    PROVE  RowEarned(Patched(row, entity, cols), done)
<1> DEFINE p == Patched(row, entity, cols)
<1>1. /\ p.verificationLevel = IF "verificationLevel" \in cols THEN entity.verificationLevel
                               ELSE row.verificationLevel
      /\ p.idDocumentFront = IF "idDocumentFront" \in cols THEN entity.idDocumentFront
                             ELSE row.idDocumentFront
      /\ p.idDocumentBack = IF "idDocumentBack" \in cols THEN entity.idDocumentBack
                            ELSE row.idDocumentBack
      /\ p.addressProofDocument = IF "addressProofDocument" \in cols
                                  THEN entity.addressProofDocument ELSE row.addressProofDocument
      /\ p.selfieImage = IF "selfieImage" \in cols THEN entity.selfieImage ELSE row.selfieImage
      /\ p.idVerified = IF "idVerified" \in cols THEN entity.idVerified ELSE row.idVerified
  BY PatchedUser DEF UserColumns
<1> HIDE DEF p
<1>2. LevelEarned(p.verificationLevel, done)
  BY <1>1 DEF RowEarned
<1> QED BY <1>1, <1>2 DEF RowEarned, p

\* An update of the column c alone.
LEMMA OneColumn ==
    ASSUME NEW row \in User, NEW c \in UserColumns, NEW new, DOMAIN new = {c},
           [row EXCEPT ![c] = new[c]] \in User
    PROVE  Updated(row, new, DOMAIN new) \in {Absent, [row EXCEPT ![c] = new[c]]}
<1>1. Patched(row, new, {c}) = [row EXCEPT ![c] = new[c]]
  BY UserFields DEF Patched, User
<1> QED BY <1>1 DEF Updated

\* What was done stays done, except for a change of the e-mail, on which
\* nothing rests.
LEMMA DoneStays ==
    ASSUME NEW done, NEW later, done \ {"renamed"} \subseteq later
    PROVE  /\ \A level : LevelEarned(level, done) => LevelEarned(level, later)
           /\ \A row : RowEarned(row, done) => RowEarned(row, later)
<1>1. \A level : LevelEarned(level, done) => LevelEarned(level, later)
  BY DEF LevelEarned, IdDocuments
<1>2. \A row : RowEarned(row, done) => RowEarned(row, later)
  BY <1>1 DEF RowEarned, IdDocuments
<1> QED BY <1>1, <1>2

----------------------------------------------------------------------------
(* How a step moves the invariant                                          *)

\* No fact is taken back that a row may rest on, and requests for deletion
\* keep their user and what they have been.
Grown ==
    /\ \A u \in AccountIds : facts[u] \ {"renamed"} \subseteq facts'[u]
    /\ \A r \in RequestIds :
          /\ deletions[r] # Absent =>
                deletions'[r] # Absent /\ deletions'[r].user = deletions[r].user
          /\ was[r] \subseteq was'[r]

LEMMA BackingLasts ==
    ASSUME AccInv, Grown
    PROVE  /\ \A c \in Call : CallBacked(c, facts, deletions, was)
                                 => CallBacked(c, facts', deletions', was')
           /\ \A email, u : EmailApproved(email, u, deletions, was)
                                 => EmailApproved(email, u, deletions', was')
           /\ \A u \in AccountIds : users[u] # Absent =>
                 /\ RowEarned(users[u], facts'[u])
                 /\ EmailApproved(users[u].email, u, deletions', was')
           /\ \A t \in told : LevelEarned(t[2], facts'[t[1]])
<1>1. \A email, u : EmailApproved(email, u, deletions, was)
                       => EmailApproved(email, u, deletions', was')
  BY DEF EmailApproved, Grown
<1>2. ASSUME NEW c \in Call, CallBacked(c, facts, deletions, was)
      PROVE  CallBacked(c, facts', deletions', was')
  <2>1. Ahead(c, Saves) => Ahead(c, Steps \ {"insertNew"})
    BY DEF Ahead, Saves, Steps
  <2>2. Ahead(c, Saves) => RowEarned(c.entity, facts'[c.user])
    BY <1>2, <2>1, DoneStays DEF CallBacked, Grown
  <2>3. Ahead(c, {"processing", "anonymise", "complete"}) =>
            Ahead(c, {"processing", "anonymise", "complete", "reject"})
    BY DEF Ahead
  <2>4. Ahead(c, {"anonymise", "complete"}) => Ahead(c, {"processing", "anonymise", "complete"})
    BY DEF Ahead
  <2> QED BY <1>1, <1>2, <2>1, <2>2, <2>3, <2>4 DEF CallBacked, Grown
<1>3. \A u \in AccountIds : users[u] # Absent =>
         RowEarned(users[u], facts'[u]) /\ EmailApproved(users[u].email, u, deletions', was')
  BY <1>1, DoneStays DEF AccInv, UsersBacked, Grown
<1>4. \A t \in told : t[1] \in AccountIds
  BY DEF AccInv, Typed
<1>5. \A t \in told : LevelEarned(t[2], facts'[t[1]])
  BY <1>4, DoneStays DEF AccInv, ToldBacked, Grown
<1> QED BY <1>1, <1>2, <1>3, <1>5

\* A handler moves on and some rows change, for the better.
LEMMA Assembled ==
    ASSUME AccInv, Grown, NEW h \in Handlers, NEW c \in Call,
           CallBacked(c, facts', deletions', was'), calls' = [calls EXCEPT ![h] = c],
           users' \in [AccountIds -> User \cup {Absent}],
           \A u \in AccountIds : users'[u] # Absent =>
              \/ users'[u] = users[u]
              \/ /\ RowEarned(users'[u], facts'[u])
                 /\ EmailApproved(users'[u].email, u, deletions', was'),
           deletions' \in [RequestIds -> DataDeletionRequest \cup {Absent}],
           was' \in [RequestIds -> SUBSET DeletionStatus],
           RequestsBacked',
           facts' \in [AccountIds -> SUBSET Facts],
           told' \subseteq AccountIds \X VerificationLevel,
           \A t \in told' \ told : LevelEarned(t[2], facts'[t[1]])
    PROVE  AccInv'
<1>1. calls \in [Handlers -> Call] /\ CallsBacked
  BY DEF AccInv, Typed
<1>2. Typed'
  BY <1>1 DEF Typed
<1>3. UsersBacked'
  <2> SUFFICES ASSUME NEW u \in AccountIds, users'[u] # Absent
               PROVE  /\ RowEarned(users'[u], facts'[u])
                      /\ EmailApproved(users'[u].email, u, deletions', was')
    BY DEF UsersBacked
  <2> QED BY BackingLasts
<1>4. CallsBacked'
  <2> SUFFICES ASSUME NEW g \in Handlers
               PROVE  CallBacked(calls'[g], facts', deletions', was')
    BY DEF CallsBacked
  <2>1. CASE g = h
    BY <1>1, <2>1
  <2>2. CASE g # h
    <3>1. calls'[g] = calls[g] /\ calls[g] \in Call
      BY <1>1, <2>2
    <3> QED BY <1>1, <3>1, BackingLasts DEF CallsBacked
  <2> QED BY <2>1, <2>2
<1>5. ToldBacked'
  BY BackingLasts DEF ToldBacked
<1> QED BY <1>2, <1>3, <1>4, <1>5 DEF AccInv

\* A handler moves on and the tables stay; it may have done something.
LEMMA HandlerMoves ==
    ASSUME AccInv, NEW h \in Handlers, NEW c \in Call,
           CallBacked(c, facts', deletions', was'), calls' = [calls EXCEPT ![h] = c],
           UNCHANGED <<users, deletions, was, told>>,
           \/ UNCHANGED facts
           \/ \E u \in AccountIds, done \in SUBSET Facts : Record(u, done)
    PROVE  AccInv'
<1>1. /\ facts \in [AccountIds -> SUBSET Facts]
      /\ users \in [AccountIds -> User \cup {Absent}]
      /\ deletions \in [RequestIds -> DataDeletionRequest \cup {Absent}]
      /\ was \in [RequestIds -> SUBSET DeletionStatus]
      /\ told \subseteq AccountIds \X VerificationLevel /\ RequestsBacked
  BY DEF AccInv, Typed
<1>2. facts' \in [AccountIds -> SUBSET Facts] /\ \A u \in AccountIds : facts[u] \subseteq facts'[u]
  BY <1>1 DEF Record
<1>3. Grown
  BY <1>2 DEF Grown
<1>4. RequestsBacked'
  BY <1>1 DEF RequestsBacked
<1> QED BY <1>1, <1>2, <1>3, <1>4, Assembled

\* One user's row changes, for the better, and the handler moves on.
LEMMA UserChanges ==
    ASSUME AccInv, NEW h \in Handlers, NEW c \in Call,
           CallBacked(c, facts', deletions, was), calls' = [calls EXCEPT ![h] = c],
           NEW u \in AccountIds, NEW row \in User \cup {Absent},
           users' = [users EXCEPT ![u] = row],
           row # Absent => \/ row = users[u]
                           \/ /\ RowEarned(row, facts'[u])
                              /\ EmailApproved(row.email, u, deletions, was),
           \/ UNCHANGED facts
           \/ \E v \in AccountIds, done \in SUBSET Facts : Record(v, done)
           \/ facts' = [facts EXCEPT ![u] = @ \ {"renamed"}],
           UNCHANGED <<deletions, was, told>>
    PROVE  AccInv'
<1>1. /\ facts \in [AccountIds -> SUBSET Facts]
      /\ users \in [AccountIds -> User \cup {Absent}]
      /\ deletions \in [RequestIds -> DataDeletionRequest \cup {Absent}]
      /\ was \in [RequestIds -> SUBSET DeletionStatus]
      /\ told \subseteq AccountIds \X VerificationLevel /\ RequestsBacked
  BY DEF AccInv, Typed
<1>2. /\ facts' \in [AccountIds -> SUBSET Facts]
      /\ \A v \in AccountIds : facts[v] \ {"renamed"} \subseteq facts'[v]
  BY <1>1 DEF Record
<1>3. Grown
  BY <1>2 DEF Grown
<1>4. RequestsBacked'
  BY <1>1 DEF RequestsBacked
<1>5. users' \in [AccountIds -> User \cup {Absent}]
  BY <1>1
<1>6. \A v \in AccountIds : users'[v] # Absent =>
              \/ users'[v] = users[v]
              \/ /\ RowEarned(users'[v], facts'[v])
                 /\ EmailApproved(users'[v].email, v, deletions', was')
  BY <1>1
<1> QED BY <1>1, <1>2, <1>3, <1>4, <1>5, <1>6, Assembled

\* A request for deletion is stored: a new one, or one that changes status.
LEMMA RequestStored ==
    ASSUME AccInv, NEW h \in Handlers, NEW c \in Call,
           CallBacked(c, facts', deletions', was'), calls' = [calls EXCEPT ![h] = c],
           NEW r \in RequestIds, NEW row \in DataDeletionRequest, StoreRequest(r, row),
           row # Absent,
           deletions[r] # Absent => row.user = deletions[r].user,
           deletions[r] = Absent => row.status = "PENDING",
           row.status = "COMPLETED" => {"PENDING", "APPROVED", "PROCESSING"} \subseteq was[r],
           UNCHANGED <<users, facts, told>>
    PROVE  AccInv'
<1>1. /\ facts \in [AccountIds -> SUBSET Facts]
      /\ users \in [AccountIds -> User \cup {Absent}]
      /\ deletions \in [RequestIds -> DataDeletionRequest \cup {Absent}]
      /\ was \in [RequestIds -> SUBSET DeletionStatus]
      /\ told \subseteq AccountIds \X VerificationLevel /\ RequestsBacked
  BY DEF AccInv, Typed
<1>2. /\ deletions' = [deletions EXCEPT ![r] = row]
      /\ was' = [was EXCEPT ![r] = was[r] \cup {row.status}]
      /\ row.status \in DeletionStatus
  BY <1>1 DEF StoreRequest, DataDeletionRequest
<1>3. Grown
  BY <1>1, <1>2 DEF Grown
<1>4. RequestsBacked'
  <2> SUFFICES ASSUME NEW q \in RequestIds PROVE RequestBacked(deletions'[q], was'[q])
    BY DEF RequestsBacked
  <2>1. CASE q = r
    <3>1. deletions'[q] = row /\ was'[q] = was[q] \cup {row.status}
      BY <1>1, <1>2, <2>1
    <3>2. RequestBacked(deletions[q], was[q])
      BY <1>1 DEF RequestsBacked
    <3>3. row.status = "PENDING" \/ deletions[q] # Absent
      BY <2>1
    <3> QED BY <2>1, <3>1, <3>2, <3>3 DEF RequestBacked
  <2>2. CASE q # r
    <3>1. deletions'[q] = deletions[q] /\ was'[q] = was[q]
      BY <1>1, <1>2, <2>2
    <3> QED BY <1>1, <3>1 DEF RequestsBacked
  <2> QED BY <2>1, <2>2
<1>5. /\ deletions' \in [RequestIds -> DataDeletionRequest \cup {Absent}]
      /\ was' \in [RequestIds -> SUBSET DeletionStatus]
  BY <1>1, <1>2
<1> QED BY <1>1, <1>3, <1>4, <1>5, Assembled

----------------------------------------------------------------------------
(* Handlers that start and that go on                                      *)

\* A handler with nothing to do is backed.
LEMMA Idling ==
    /\ Idle \in Call /\ Idle.todo = <<>> /\ Idle.cols = {}
    /\ \A fs, ds, ws : CallBacked(Idle, fs, ds, ws)
BY DEF Idle, Call, Lists, CallBacked, Ahead

\* What the invariant says of one handler.
LEMMA TheCall ==
    ASSUME AccInv, NEW h \in Handlers
    PROVE  /\ calls[h] \in Call /\ CallBacked(calls[h], facts, deletions, was)
           /\ calls[h].todo \in Lists
BY DEF AccInv, Typed, CallsBacked, Call

\* What a handler becomes when its await is over.
Rest(c) == IF Len(c.todo) = 1 THEN Idle ELSE [c EXCEPT !.todo = Tail(@)]

LEMMA RestBacked ==
    ASSUME NEW c \in Call, c.todo # <<>>, c.user \in AccountIds, NEW fs, NEW ds, NEW ws,
           Head(c.todo) \in {"updateUser", "insertUser"} =>
              /\ c.entity \in User /\ RowEarned(c.entity, fs[c.user])
              /\ EmailApproved(c.entity.email, c.user, ds, ws),
           Head(c.todo) \in {"processing", "anonymise"} =>
              /\ c.request \in RequestIds /\ ds[c.request] # Absent
              /\ ds[c.request].user = c.user
              /\ {"PENDING", "APPROVED", "PROCESSING"} \subseteq ws[c.request],
           Head(c.todo) # "selectUser", c.cols # {} => c.entity \in User
    PROVE  Rest(c) \in Call /\ CallBacked(Rest(c), fs, ds, ws)
<1>1. CASE Len(c.todo) = 1
  BY <1>1, Idling DEF Rest
<1>2. CASE Len(c.todo) # 1
  <2> DEFINE d == [c EXCEPT !.todo = Tail(c.todo)]
  <2>1. c.todo \in Lists
    BY DEF Call
  <2>2. Rest(c) = d
    BY <1>2 DEF Rest
  <2>3. /\ d \in Call /\ d.todo = Tail(c.todo) /\ d.todo # <<>>
        /\ d.user = c.user /\ d.entity = c.entity /\ d.request = c.request
        /\ d.cols = c.cols
    BY <1>2, <2>1, ListsLeft DEF Call
  <2> HIDE DEF d
  <2>4. CASE Head(c.todo) \in {"updateUser", "insertUser"}
    <3>1. Head(d.todo) = "congratulate"
      BY <1>2, <2>1, <2>3, <2>4, ListsLeft
    <3> QED BY <2>2, <2>3, <2>4, <3>1 DEF CallBacked, Ahead, Saves
  <2>5. CASE Head(c.todo) \in {"processing", "anonymise"}
    <3>1. Head(d.todo) \in {"anonymise", "complete"}
      BY <1>2, <2>1, <2>3, <2>5, ListsLeft
    <3> QED BY <2>2, <2>3, <2>5, <3>1 DEF CallBacked, Ahead, Saves
  <2>6. CASE Head(c.todo) \in {"insertNew", "setSession", "askMail"}
    <3>1. Head(d.todo) \in {"setSession", "askMail", "setMailToken"}
      BY <1>2, <2>1, <2>3, <2>6, ListsLeft
    <3> QED BY <2>2, <2>3, <3>1 DEF CallBacked, Ahead, Saves
  <2> QED BY <1>2, <2>1, <2>4, <2>5, <2>6, ListsLeft
<1> QED BY <1>1, <1>2

\* A handler that has only a user to go on with.
LEMMA WorkingBacked ==
    ASSUME NEW u \in AccountIds, NEW todo \in Lists, todo # <<>>,
           Head(todo) \notin Saves \cup {"insertNew", "processing", "anonymise",
                                         "complete", "reject"},
           NEW fs, NEW ds, NEW ws
    PROVE  Working(u, todo) \in Call /\ CallBacked(Working(u, todo), fs, ds, ws)
<1> DEFINE c == Working(u, todo)
<1>1. c \in Call /\ c.todo = todo /\ c.user = u /\ c.cols = {}
  BY Idling DEF Working, Call
<1> HIDE DEF c
<1>2. CallBacked(c, fs, ds, ws)
  BY <1>1 DEF CallBacked, Ahead
<1> QED BY <1>1, <1>2 DEF c

\* A handler that has an entity to save.
LEMMA SavingBacked ==
    ASSUME NEW u \in AccountIds, NEW entity \in User, NEW row, NEW fs, NEW ds, NEW ws,
           RowEarned(entity, fs[u]), EmailApproved(entity.email, u, ds, ws)
    PROVE  /\ Saving(u, entity, SaveAndTell(row, entity)) \in Call
           /\ CallBacked(Saving(u, entity, SaveAndTell(row, entity)), fs, ds, ws)
           /\ Saving(u, entity, <<"selectUser">>) \in Call
           /\ CallBacked(Saving(u, entity, <<"selectUser">>), fs, ds, ws)
<1>1. ASSUME NEW todo \in {<<"selectUser">>, <<"selectUser", "congratulate">>}
      PROVE  /\ Saving(u, entity, todo) \in Call
             /\ CallBacked(Saving(u, entity, todo), fs, ds, ws)
  <2> DEFINE c == Saving(u, entity, todo)
  <2>1. todo \in Lists /\ Head(todo) = "selectUser"
    BY Tails DEF Lists
  <2>2. Working(u, todo) \in Call /\ Working(u, todo).todo = todo /\ Working(u, todo).user = u
    BY <2>1, Idling DEF Working, Call
  <2>3. c \in Call /\ c.todo = todo /\ c.user = u /\ c.entity = entity
    BY <2>2 DEF Saving, Call
  <2> HIDE DEF c
  <2>4. CallBacked(c, fs, ds, ws)
    BY <2>1, <2>3 DEF CallBacked, Ahead
  <2> QED BY <2>3, <2>4 DEF c
<1> QED BY <1>1 DEF SaveAndTell

\* A new handler that has an entity to save, whose user has just done
\* something or nothing.
LEMMA SaveStarts ==
    ASSUME AccInv, NEW h \in Handlers, NEW u \in AccountIds, NEW entity \in User, NEW row,
           NEW todo \in {SaveAndTell(row, entity), <<"selectUser">>},
           Goto(h, Saving(u, entity, todo)),
           NEW done \in SUBSET Facts, Record(u, done) \/ UNCHANGED facts,
           RowEarned(entity, facts'[u]),
           EmailApproved(entity.email, u, deletions, was),
           UNCHANGED <<users, deletions, was, told>>
    PROVE  AccInv'
<1> DEFINE c == Saving(u, entity, todo)
<1>1. c \in Call /\ CallBacked(c, facts', deletions', was')
  BY SavingBacked
<1>2. calls' = [calls EXCEPT ![h] = c]
  BY DEF Goto
<1> HIDE DEF c
<1> QED BY <1>1, <1>2, HandlerMoves

\* A new handler that works for a user.
LEMMA WorkStarts ==
    ASSUME AccInv, NEW h \in Handlers, NEW u \in AccountIds, NEW todo \in Lists, todo # <<>>,
           Head(todo) \notin Saves \cup {"insertNew", "processing", "anonymise",
                                         "complete", "reject"},
           Goto(h, Working(u, todo)), UNCHANGED <<tables, told>>
    PROVE  AccInv'
<1> DEFINE c == Working(u, todo)
<1>1. c \in Call /\ CallBacked(c, facts', deletions', was')
  BY WorkingBacked
<1>2. calls' = [calls EXCEPT ![h] = c]
  BY DEF Goto
<1> HIDE DEF c
<1> QED BY <1>1, <1>2, HandlerMoves DEF tables

\* What the invariant says of a user that there is.
LEMMA TheUser ==
    ASSUME AccInv, NEW u \in AccountIds, users[u] # Absent
    PROVE  /\ users[u] \in User /\ RowEarned(users[u], facts[u])
           /\ EmailApproved(users[u].email, u, deletions, was)
           /\ facts[u] \subseteq Facts
BY DEF AccInv, Typed, UsersBacked

\* What was recorded of a user is known from now on.
LEMMA Recorded ==
    ASSUME AccInv, NEW u \in AccountIds, NEW done, Record(u, done)
    PROVE  facts'[u] = facts[u] \cup done
BY DEF AccInv, Typed, Record

\* Raising a level that is earned.
LEMMA RaisedEarned ==
    ASSUME NEW row \in User, NEW level \in VerificationLevel, NEW done,
           RowEarned(row, done), LevelEarned(level, done)
    PROVE  /\ Raised(row, level) \in User /\ Raised(row, level).email = row.email
           /\ RowEarned(Raised(row, level), done)
<1> DEFINE to == IF row.verificationLevel < level THEN level ELSE row.verificationLevel
<1>1. to \in VerificationLevel /\ LevelEarned(to, done)
  BY UserFields DEF RowEarned
<1>2. Raised(row, level) = [row EXCEPT !.verificationLevel = to]
  BY DEF Raised
<1> HIDE DEF to
<1> QED BY <1>1, <1>2 DEF RowEarned, User

----------------------------------------------------------------------------
(* Requests                                                                *)

\* Who registers has done nothing yet.
LEMMA NobodyEarned ==
    ASSUME NEW email \in Emails, NEW phone \in Phones
    PROVE  LET row == UserAt(email, phone, 0, {})
           IN  row \in User /\ row.email = email /\ RowEarned(row, {})
<1>1. UserAt(email, phone, 0, {}) \in User /\ UserAt(email, phone, 0, {}).email = email
  BY DEF UserAt, User, VerificationLevel
<1>2. /\ UserAt(email, phone, 0, {}).verificationLevel = 0
      /\ UserAt(email, phone, 0, {}).idDocumentFront = FALSE
      /\ UserAt(email, phone, 0, {}).idDocumentBack = FALSE
      /\ UserAt(email, phone, 0, {}).selfieImage = FALSE
      /\ UserAt(email, phone, 0, {}).addressProofDocument = FALSE
      /\ UserAt(email, phone, 0, {}).idVerified = FALSE
  <2>1. /\ \A d : (d \in {}) = FALSE
        /\ (0 >= 3) = FALSE
    OBVIOUS
  <2> QED BY <2>1 DEF UserAt
<1>3. LevelEarned(0, {})
  BY DEF LevelEarned
<1>4. RowEarned(UserAt(email, phone, 0, {}), {})
  BY <1>2, <1>3 DEF RowEarned
<1> QED BY <1>1, <1>4

LEMMA NewcomerInv ==
    ASSUME AccInv, NEW h \in Handlers, NEW email \in Emails, NEW phone \in Phones,
           NEW todo \in {<<"insertNew">>,
                         <<"insertNew", "setSession", "askMail", "setMailToken">>},
           Goto(h, Saving(NoId, UserAt(email, phone, 0, {}), todo)), UNCHANGED <<tables, told>>
    PROVE  AccInv'
<1> DEFINE row == UserAt(email, phone, 0, {})
           w == Working(NoId, todo)
           c == Saving(NoId, row, todo)
<1>1. row \in User /\ row.email = email /\ RowEarned(row, {})
  BY NobodyEarned
<1> HIDE DEF row
<1>2. todo \in Lists /\ Head(todo) = "insertNew"
  BY Tails DEF Lists
<1>3. w \in Call /\ w.todo = todo /\ w.cols = {}
  BY <1>2, Idling DEF Working, Call
<1>4. c = [w EXCEPT !.entity = row]
  BY DEF Saving
<1>5. calls' = [calls EXCEPT ![h] = c]
  BY DEF Goto, row
<1> HIDE DEF w, c
<1>6. c \in Call /\ c.todo = todo /\ c.entity = row /\ c.cols = {}
  BY <1>1, <1>3, <1>4 DEF Call
<1>7. CallBacked(c, facts', deletions', was')
  BY <1>1, <1>2, <1>6 DEF CallBacked, Ahead, Saves
<1> QED BY <1>5, <1>6, <1>7, HandlerMoves DEF tables

LEMMA UpdateInv ==
    ASSUME AccInv, NEW h \in Handlers, NEW u \in AccountIds,
           NEW email \in Emails \cup {Erased}, NEW phone \in Phones, Update(h, u, email, phone)
    PROVE  AccInv'
<1> DEFINE row == users[u]
           entity == [users[u] EXCEPT !.email = email, !.phone = phone]
           renamed == IF email # users[u].email THEN {"renamed"} ELSE {}
<1>1. /\ users[u] # Absent /\ Record(u, renamed) /\ renamed \in SUBSET Facts
      /\ email \in Emails \cup {row.email}
  BY DEF Update, Facts
<1>2. Goto(h, Saving(u, entity, <<"selectUser">>)) /\ UNCHANGED <<users, deletions, was, told>>
  BY DEF Update, Accept
<1>3. row \in User /\ RowEarned(row, facts[u]) /\ EmailApproved(row.email, u, deletions, was)
  BY <1>1, TheUser
<1>4. row.email \in Emails \cup {Erased} /\ row.phone \in Phones
  BY <1>3 DEF User
<1>5. entity \in User /\ entity.email = email
  BY <1>3, <1>4 DEF User
<1>6. RowEarned(entity, facts[u])
  BY <1>3 DEF RowEarned, User
<1>7. EmailApproved(entity.email, u, deletions, was)
  BY <1>1, <1>3, <1>5, AccountConstants DEF EmailApproved
<1>8. facts'[u] = facts[u] \cup renamed
  BY <1>1, Recorded
<1> HIDE DEF entity, renamed
<1>9. RowEarned(entity, facts'[u])
  BY <1>6, <1>8, DoneStays
<1> QED BY <1>1, <1>2, <1>5, <1>7, <1>9, SaveStarts

\* Where a handler stays as it is.
LEMMA Staying ==
    ASSUME AccInv, UNCHANGED calls, NEW h \in Handlers
    PROVE  calls' = [calls EXCEPT ![h] = calls[h]]
BY DEF AccInv, Typed

\* One column of one user is set, and nothing rests on it.
LEMMA ColumnSet ==
    ASSUME AccInv, NEW u \in AccountIds,
           NEW c \in {"refreshToken", "emailVerificationToken"}, NEW on \in BOOLEAN,
           NEW new, DOMAIN new = {c}, new[c] = on, SetColumns(u, new)
    PROVE  \E row \in User \cup {Absent} :
              /\ users' = [users EXCEPT ![u] = row]
              /\ row # Absent => /\ RowEarned(row, facts[u])
                                 /\ EmailApproved(row.email, u, deletions, was)
<1> DEFINE row == Updated(users[u], new, DOMAIN new)
<1>1. users' = [users EXCEPT ![u] = row]
  BY DEF SetColumns
<1>2. CASE users[u] = Absent
  BY <1>1, <1>2 DEF Updated
<1>3. CASE users[u] # Absent
  <2> DEFINE old == users[u]
             set == [users[u] EXCEPT ![c] = new[c]]
  <2>1. old \in User /\ RowEarned(old, facts[u]) /\ EmailApproved(old.email, u, deletions, was)
    BY <1>3, TheUser
  <2>2. set \in User /\ set.email = old.email
    BY <2>1 DEF User
  <2>3. RowEarned(set, facts[u])
    BY <2>1 DEF RowEarned, User
  <2>4. row \in {Absent, set}
    BY <2>1, <2>2, OneColumn DEF UserColumns
  <2> HIDE DEF row, set
  <2> QED BY <1>1, <2>1, <2>2, <2>3, <2>4
<1> QED BY <1>2, <1>3

LEMMA LogoutInv ==
    ASSUME AccInv, NEW h \in Handlers, NEW u \in AccountIds, Logout(h, u)
    PROVE  AccInv'
<1>1. SetColumns(u, [refreshToken |-> FALSE]) /\ UNCHANGED <<deletions, facts, was, calls, told>>
  BY DEF Logout, Accept
<1>2. PICK row \in User \cup {Absent} :
         /\ users' = [users EXCEPT ![u] = row]
         /\ row # Absent => /\ RowEarned(row, facts[u])
                            /\ EmailApproved(row.email, u, deletions, was)
  <2> DEFINE new == [refreshToken |-> FALSE]
  <2>1. DOMAIN new = {"refreshToken"} /\ new["refreshToken"] = FALSE
    OBVIOUS
  <2>2. SetColumns(u, new)
    BY <1>1
  <2> HIDE DEF new
  <2> QED BY <2>1, <2>2, ColumnSet
<1>3. /\ calls' = [calls EXCEPT ![h] = calls[h]] /\ calls[h] \in Call
      /\ CallBacked(calls[h], facts', deletions, was)
  BY <1>1, Staying, TheCall
<1> QED BY <1>1, <1>2, <1>3, UserChanges

LEMMA VerifyEmailInv ==
    ASSUME AccInv, NEW h \in Handlers, NEW u \in AccountIds, VerifyEmail(h, u)
    PROVE  AccInv'
<1> DEFINE base == [users[u] EXCEPT !.verified = TRUE, !.emailVerificationToken = FALSE]
           entity == Raised(base, 1)
<1>1. /\ users[u] # Absent /\ Record(u, {"email"}) /\ {"email"} \in SUBSET Facts
      /\ Goto(h, Saving(u, entity, SaveAndTell(users[u], entity)))
      /\ UNCHANGED <<users, deletions, was, told>>
  BY DEF VerifyEmail, Accept, Facts
<1>2. /\ users[u] \in User /\ RowEarned(users[u], facts[u])
      /\ EmailApproved(users[u].email, u, deletions, was)
  BY <1>1, TheUser
<1>3. facts'[u] = facts[u] \cup {"email"}
  BY <1>1, Recorded
<1>4. base \in User /\ base.email = users[u].email
  BY <1>2 DEF User
<1>5. RowEarned(base, facts[u])
  BY <1>2 DEF RowEarned, User
<1> HIDE DEF base
<1>6. RowEarned(base, facts'[u])
  BY <1>3, <1>5, DoneStays
<1>7. 1 \in VerificationLevel /\ LevelEarned(1, facts'[u])
  BY <1>3 DEF VerificationLevel, LevelEarned
<1>8. entity \in User /\ entity.email = users[u].email /\ RowEarned(entity, facts'[u])
  BY <1>4, <1>6, <1>7, RaisedEarned
<1> HIDE DEF entity
<1> QED BY <1>1, <1>2, <1>8, SaveStarts

LEMMA RequestPhoneVerificationInv ==
    ASSUME AccInv, NEW h \in Handlers, NEW u \in AccountIds, NEW phone \in Phones,
           RequestPhoneVerification(h, u, phone)
    PROVE  AccInv'
<1> DEFINE same == users[u].phoneVerified /\ users[u].phone = phone
           entity == [users[u] EXCEPT !.phone = phone, !.phoneVerified = same,
                                      !.phoneVerificationCode = phone]
<1>1. /\ users[u] # Absent
      /\ Goto(h, Saving(u, entity, <<"selectUser">>))
      /\ UNCHANGED <<users, deletions, was, told, facts>>
  BY DEF RequestPhoneVerification, Accept, tables
<1>2. /\ users[u] \in User /\ RowEarned(users[u], facts[u])
      /\ EmailApproved(users[u].email, u, deletions, was)
  BY <1>1, TheUser
<1>3. same \in BOOLEAN
  OBVIOUS
<1> HIDE DEF same
<1>4. entity \in User /\ entity.email = users[u].email
  BY <1>2, <1>3 DEF User
<1>5. RowEarned(entity, facts[u])
  BY <1>2 DEF RowEarned, User
<1> HIDE DEF entity
<1>6. {} \in SUBSET Facts
  OBVIOUS
<1> QED BY <1>1, <1>2, <1>4, <1>5, <1>6, SaveStarts

LEMMA VerifyPhoneInv ==
    ASSUME AccInv, NEW h \in Handlers, NEW u \in AccountIds, VerifyPhone(h, u)
    PROVE  AccInv'
<1> DEFINE base == [users[u] EXCEPT !.phoneVerified = TRUE, !.phoneVerificationCode = NoCode]
           entity == AsVerified(users[u])
<1>1. /\ users[u] # Absent /\ Record(u, {"phone"}) /\ {"phone"} \in SUBSET Facts
      /\ Goto(h, Saving(u, entity, SaveAndTell(users[u], entity)))
      /\ UNCHANGED <<users, deletions, was, told>>
  BY DEF VerifyPhone, Accept, Facts
<1>2. /\ users[u] \in User /\ RowEarned(users[u], facts[u])
      /\ EmailApproved(users[u].email, u, deletions, was)
  BY <1>1, TheUser
<1>3. facts'[u] = facts[u] \cup {"phone"}
  BY <1>1, Recorded
<1>4. base \in User /\ base.email = users[u].email
  BY <1>2 DEF User
<1>5. RowEarned(base, facts[u])
  BY <1>2 DEF RowEarned, User
<1>6. entity = Raised(base, 2)
  BY DEF AsVerified
<1> HIDE DEF base
<1>7. RowEarned(base, facts'[u])
  BY <1>3, <1>5, DoneStays
<1>8. 2 \in VerificationLevel /\ LevelEarned(2, facts'[u])
  BY <1>3 DEF VerificationLevel, LevelEarned
<1>9. entity \in User /\ entity.email = users[u].email /\ RowEarned(entity, facts'[u])
  BY <1>4, <1>6, <1>7, <1>8, RaisedEarned
<1> HIDE DEF entity
<1> QED BY <1>1, <1>2, <1>9, SaveStarts

LEMMA UploadIdDocumentInv ==
    ASSUME AccInv, NEW h \in Handlers, NEW u \in AccountIds, NEW document \in Documents,
           UploadIdDocument(h, u, document)
    PROVE  AccInv'
<1> DEFINE entity == [users[u] EXCEPT ![document] = TRUE]
<1>1. /\ users[u] # Absent /\ Record(u, {document}) /\ {document} \in SUBSET Facts
      /\ users[u].verificationLevel >= 2
      /\ Goto(h, Saving(u, entity, <<"selectUser">>))
      /\ UNCHANGED <<users, deletions, was, told>>
  BY DEF UploadIdDocument, Accept, Facts, MayUpload
<1>2. /\ users[u] \in User /\ RowEarned(users[u], facts[u])
      /\ EmailApproved(users[u].email, u, deletions, was)
  BY <1>1, TheUser
<1>3. facts'[u] = facts[u] \cup {document}
  BY <1>1, Recorded
<1>4. "phone" \in facts[u]
  BY <1>1, <1>2 DEF RowEarned, LevelEarned
<1>5. RowEarned(users[u], facts'[u])
  BY <1>2, <1>3, DoneStays
<1>6. \/ document = "idDocumentFront" \/ document = "idDocumentBack"
      \/ document = "selfieImage" \/ document = "addressProofDocument"
  BY DEF Documents, IdDocuments
<1>7. entity \in User /\ entity.email = users[u].email
  BY <1>2, <1>6 DEF User
<1>8. /\ entity.verificationLevel = users[u].verificationLevel
      /\ entity.idVerified = users[u].idVerified
      /\ \A d \in Documents : entity[d] = IF d = document THEN TRUE ELSE users[u][d]
  BY <1>2, <1>6 DEF User, Documents, IdDocuments
<1> HIDE DEF entity
<1>9. RowEarned(entity, facts'[u])
  BY <1>3, <1>4, <1>5, <1>8 DEF RowEarned, Documents, IdDocuments
<1> QED BY <1>1, <1>2, <1>7, <1>9, SaveStarts

LEMMA ApproveIdVerificationInv ==
    ASSUME AccInv, NEW h \in Handlers, NEW u \in AccountIds, ApproveIdVerification(h, u)
    PROVE  AccInv'
<1> DEFINE base == [users[u] EXCEPT !.idVerified = TRUE]
           entity == Raised(base, 3)
<1>1. /\ users[u] # Absent /\ Record(u, {"id"}) /\ {"id"} \in SUBSET Facts
      /\ IdComplete(users[u])
      /\ Goto(h, Saving(u, entity, SaveAndTell(users[u], entity)))
      /\ UNCHANGED <<users, deletions, was, told>>
  BY DEF ApproveIdVerification, Accept, Facts
<1>2. /\ users[u] \in User /\ RowEarned(users[u], facts[u])
      /\ EmailApproved(users[u].email, u, deletions, was)
  BY <1>1, TheUser
<1>3. facts'[u] = facts[u] \cup {"id"}
  BY <1>1, Recorded
<1>4. {"phone"} \cup IdDocuments \subseteq facts[u]
  BY <1>1, <1>2 DEF RowEarned, IdComplete, IdDocuments
<1>5. base \in User /\ base.email = users[u].email
  BY <1>2 DEF User
<1>6. RowEarned(users[u], facts'[u])
  BY <1>2, <1>3, DoneStays
<1>7. RowEarned(base, facts'[u])
  BY <1>2, <1>3, <1>4, <1>6 DEF RowEarned, User
<1> HIDE DEF base
<1>8. 3 \in VerificationLevel /\ LevelEarned(3, facts'[u])
  BY <1>3, <1>4 DEF VerificationLevel, LevelEarned
<1>9. entity \in User /\ entity.email = users[u].email /\ RowEarned(entity, facts'[u])
  BY <1>5, <1>7, <1>8, RaisedEarned
<1> HIDE DEF entity
<1> QED BY <1>1, <1>2, <1>9, SaveStarts

LEMMA ApproveAdvancedVerificationInv ==
    ASSUME AccInv, NEW h \in Handlers, NEW u \in AccountIds, ApproveAdvancedVerification(h, u)
    PROVE  AccInv'
<1> DEFINE entity == [users[u] EXCEPT !.advancedVerified = TRUE, !.verificationLevel = 4]
<1>1. /\ users[u] # Absent /\ Record(u, {"advanced"}) /\ {"advanced"} \in SUBSET Facts
      /\ users[u].idVerified /\ users[u].addressProofDocument
      /\ Goto(h, Saving(u, entity, SaveAndTell(users[u], entity)))
      /\ UNCHANGED <<users, deletions, was, told>>
  BY DEF ApproveAdvancedVerification, Accept, Facts
<1>2. /\ users[u] \in User /\ RowEarned(users[u], facts[u])
      /\ EmailApproved(users[u].email, u, deletions, was)
  BY <1>1, TheUser
<1>3. facts'[u] = facts[u] \cup {"advanced"}
  BY <1>1, Recorded
<1>4. {"id", "phone", "addressProofDocument"} \cup IdDocuments \subseteq facts[u]
  BY <1>1, <1>2 DEF RowEarned
<1>5. entity \in User /\ entity.email = users[u].email
  <2>1. 4 \in VerificationLevel
    BY DEF VerificationLevel
  <2> QED BY <1>2, <2>1 DEF User
<1>6. RowEarned(users[u], facts'[u])
  BY <1>2, <1>3, DoneStays
<1>7. LevelEarned(4, facts'[u])
  BY <1>3, <1>4 DEF LevelEarned
<1>8. RowEarned(entity, facts'[u])
  BY <1>2, <1>6, <1>7 DEF RowEarned, User
<1> HIDE DEF entity
<1> QED BY <1>1, <1>2, <1>5, <1>8, SaveStarts

LEMMA ReviewInv ==
    ASSUME AccInv, NEW h \in Handlers, NEW r \in RequestIds,
           NEW status \in {"APPROVED", "REJECTED"}, Review(h, r, status)
    PROVE  AccInv'
<1> DEFINE row == [deletions[r] EXCEPT !.status = status]
<1>1. deletions[r] # Absent /\ StoreRequest(r, row) /\ UNCHANGED <<users, facts, calls, told>>
  BY DEF Review, Accept, SetStatus
<1>2. deletions[r] \in DataDeletionRequest
  BY <1>1 DEF AccInv, Typed
<1>3. /\ row \in DataDeletionRequest /\ row.user = deletions[r].user
      /\ row.status # "COMPLETED" /\ row # Absent
  BY <1>2, AbsentIsNoRow DEF DataDeletionRequest, DeletionStatus
<1>4. calls' = [calls EXCEPT ![h] = calls[h]] /\ calls[h] \in Call
  BY <1>1, Staying, TheCall
<1> HIDE DEF row
<1>5. CallBacked(calls[h], facts', deletions', was')
  <2>1. Grown
    BY <1>1, <1>3 DEF StoreRequest, Grown, AccInv, Typed
  <2> QED BY <2>1, BackingLasts, TheCall
<1> QED BY <1>1, <1>3, <1>4, <1>5, RequestStored

LEMMA ExecuteDeletionInv ==
    ASSUME AccInv, NEW h \in Handlers, NEW r \in RequestIds, ExecuteDeletion(h, r)
    PROVE  AccInv'
<1> DEFINE w == Working(deletions[r].user, Execution)
           c == [w EXCEPT !.request = r]
<1>1. /\ deletions[r] # Absent /\ deletions[r].status = "APPROVED"
      /\ Goto(h, c) /\ UNCHANGED <<tables, told>>
  BY DEF ExecuteDeletion, Accept, Executable
<1>2. /\ deletions[r] \in DataDeletionRequest /\ deletions[r].user \in AccountIds
      /\ RequestBacked(deletions[r], was[r])
  BY <1>1 DEF AccInv, Typed, RequestsBacked, DataDeletionRequest
<1>3. Execution \in Lists /\ Head(Execution) = "processing" /\ Execution # <<>>
  BY Tails DEF Execution, Lists
<1>4. w \in Call /\ w.todo = Execution /\ w.user = deletions[r].user /\ w.cols = {}
  BY <1>2, <1>3, Idling DEF Working, Call
<1>5. calls' = [calls EXCEPT ![h] = c]
  BY <1>1 DEF Goto
<1> HIDE DEF w
<1>6. /\ c \in Call /\ c.todo = Execution /\ c.user = deletions[r].user /\ c.request = r
      /\ c.cols = {}
  BY <1>4 DEF Call
<1> HIDE DEF c
<1>7. CallBacked(c, facts', deletions', was')
  BY <1>1, <1>2, <1>3, <1>6 DEF CallBacked, Ahead, Saves, RequestBacked, tables
<1> QED BY <1>1, <1>5, <1>6, <1>7, HandlerMoves DEF tables

----------------------------------------------------------------------------
(* Steps of a handler after an await                                       *)

LEMMA AdvanceIsRest ==
    ASSUME NEW h, NEW c, Advance(h, c)
    PROVE  calls' = [calls EXCEPT ![h] = Rest(c)]
BY DEF Advance, Goto, Rest

\* A handler at s, and what it knows of its user.
LEMMA AtStep ==
    ASSUME AccInv, NEW h \in Handlers, NEW s \in Steps, At(h, s)
    PROVE  /\ calls[h] \in Call /\ calls[h].todo # <<>> /\ Head(calls[h].todo) = s
           /\ calls[h].todo \in Lists
           /\ CallBacked(calls[h], facts, deletions, was)
           /\ s # "insertNew" => calls[h].user \in AccountIds
           /\ s \in Saves =>
                /\ calls[h].entity \in User
                /\ RowEarned(calls[h].entity, facts[calls[h].user])
                /\ EmailApproved(calls[h].entity.email, calls[h].user, deletions, was)
           /\ calls[h].cols # {} => calls[h].entity \in User
           /\ s = "insertNew" =>
                /\ calls[h].cols = {}
                /\ calls[h].entity \in User /\ calls[h].entity.email \in Emails
                /\ RowEarned(calls[h].entity, {})
           /\ s \in {"processing", "anonymise", "complete", "reject"} =>
                calls[h].request \in RequestIds /\ deletions[calls[h].request] # Absent
           /\ s \in {"processing", "anonymise", "complete"} =>
                /\ deletions[calls[h].request].user = calls[h].user
                /\ {"PENDING", "APPROVED"} \subseteq was[calls[h].request]
           /\ s \in {"anonymise", "complete"} => "PROCESSING" \in was[calls[h].request]
BY TheCall DEF At, CallBacked, Ahead

\* A handler gives up.
LEMMA GivingUp ==
    ASSUME AccInv, NEW h \in Handlers, Goto(h, Idle), UNCHANGED <<tables, told>>
    PROVE  AccInv'
<1>1. /\ calls' = [calls EXCEPT ![h] = Idle] /\ Idle \in Call
      /\ CallBacked(Idle, facts', deletions', was')
  BY Idling DEF Goto
<1> QED BY <1>1, HandlerMoves DEF tables

LEMMA InsertNewInv ==
    ASSUME AccInv, NEW h \in Handlers, NEW u \in AccountIds, InsertNew(h, u)
    PROVE  AccInv'
<1> DEFINE c == calls[h]
           d == [c EXCEPT !.user = u, !.entity = Absent]
<1>1. /\ At(h, "insertNew") /\ facts[u] = {} /\ UNCHANGED <<deletions, was, told>>
      /\ IF Taken(c.entity.email, u) THEN Goto(h, Idle) /\ UNCHANGED <<users, facts>>
         ELSE /\ users' = [users EXCEPT ![u] = c.entity]
              /\ Record(u, {"registered"})
              /\ Advance(h, d)
  BY DEF InsertNew, FreeIds, Unrequested
<1>2. /\ c \in Call /\ c.todo # <<>> /\ Head(c.todo) = "insertNew"
      /\ c.cols = {} /\ c.entity \in User /\ c.entity.email \in Emails
      /\ RowEarned(c.entity, {})
  BY <1>1, AtStep DEF Steps
<1>3. CASE Taken(c.entity.email, u)
  BY <1>1, <1>3, GivingUp DEF tables
<1>4. CASE ~ Taken(c.entity.email, u)
  <2>1. /\ d \in Call /\ d.todo = c.todo /\ d.user = u /\ d.cols = {}
    BY <1>2 DEF Call
  <2> HIDE DEF d
  <2>2. Rest(d) \in Call /\ CallBacked(Rest(d), facts', deletions, was)
    BY <1>2, <2>1, RestBacked
  <2>3. calls' = [calls EXCEPT ![h] = Rest(d)]
    BY <1>1, <1>4, AdvanceIsRest
  <2>4. RowEarned(c.entity, facts'[u])
    BY <1>2, DoneStays
  <2>5. EmailApproved(c.entity.email, u, deletions, was)
    BY <1>2, AccountConstants DEF EmailApproved
  <2>6. {"registered"} \in SUBSET Facts
    BY DEF Facts
  <2> QED BY <1>1, <1>2, <1>4, <2>2, <2>3, <2>4, <2>5, <2>6, UserChanges
<1> QED BY <1>3, <1>4

\* setRefreshToken and the token of the mail
LEMMA ColumnInv ==
    ASSUME AccInv, NEW h \in Handlers,
           NEW s \in {"setSession", "renewSession", "setMailToken"}, At(h, s),
           NEW c \in {"refreshToken", "emailVerificationToken"},
           NEW new, DOMAIN new = {c}, new[c] = TRUE, SetColumns(calls[h].user, new),
           Advance(h, calls[h]), UNCHANGED <<deletions, facts, was, told>>
    PROVE  AccInv'
<1>1. /\ calls[h] \in Call /\ calls[h].todo # <<>> /\ Head(calls[h].todo) = s
      /\ calls[h].cols # {} => calls[h].entity \in User
      /\ calls[h].user \in AccountIds
  BY AtStep DEF Steps
<1>2. Rest(calls[h]) \in Call /\ CallBacked(Rest(calls[h]), facts', deletions, was)
  BY <1>1, RestBacked
<1>3. calls' = [calls EXCEPT ![h] = Rest(calls[h])]
  BY AdvanceIsRest
<1>4. PICK row \in User \cup {Absent} :
         /\ users' = [users EXCEPT ![calls[h].user] = row]
         /\ row # Absent => /\ RowEarned(row, facts[calls[h].user])
                            /\ EmailApproved(row.email, calls[h].user, deletions, was)
  BY <1>1, ColumnSet
<1> QED BY <1>1, <1>2, <1>3, <1>4, UserChanges

LEMMA SetSessionInv ==
    ASSUME AccInv, NEW h \in Handlers, SetSession(h)
    PROVE  AccInv'
<1> DEFINE new == [refreshToken |-> TRUE]
<1>1. /\ At(h, "setSession") \/ At(h, "renewSession")
      /\ SetColumns(calls[h].user, new) /\ Advance(h, calls[h])
      /\ UNCHANGED <<deletions, facts, was, told>>
  BY DEF SetSession, Unrequested
<1>2. DOMAIN new = {"refreshToken"} /\ new["refreshToken"] = TRUE
  OBVIOUS
<1> HIDE DEF new
<1> QED BY <1>1, <1>2, ColumnInv

LEMMA SetMailTokenInv ==
    ASSUME AccInv, NEW h \in Handlers, SetMailToken(h)
    PROVE  AccInv'
<1> DEFINE new == [emailVerificationToken |-> TRUE]
<1>1. /\ At(h, "setMailToken")
      /\ SetColumns(calls[h].user, new) /\ Advance(h, calls[h])
      /\ UNCHANGED <<deletions, facts, was, told>>
  BY DEF SetMailToken, Unrequested
<1>2. DOMAIN new = {"emailVerificationToken"} /\ new["emailVerificationToken"] = TRUE
  OBVIOUS
<1> HIDE DEF new
<1> QED BY <1>1, <1>2, ColumnInv

LEMMA AskMailInv ==
    ASSUME AccInv, NEW h \in Handlers, AskMail(h)
    PROVE  AccInv'
<1>1. At(h, "askMail") /\ UNCHANGED <<tables, told>>
  BY DEF AskMail, Unrequested
<1>2. Goto(h, Idle) \/ Advance(h, calls[h])
  BY DEF AskMail
<1>3. CASE Goto(h, Idle)
  BY <1>1, <1>3, GivingUp
<1>4. CASE Advance(h, calls[h])
  <2>1. Rest(calls[h]) \in Call /\ CallBacked(Rest(calls[h]), facts', deletions', was')
    BY <1>1, AtStep, RestBacked DEF Steps
  <2> QED BY <1>1, <1>4, <2>1, AdvanceIsRest, HandlerMoves DEF tables
<1> QED BY <1>2, <1>3, <1>4

LEMMA SelectUserInv ==
    ASSUME AccInv, NEW h \in Handlers, SelectUser(h)
    PROVE  AccInv'
<1> DEFINE c == calls[h]
           row == users[c.user]
           dirty == Dirty(c.entity, row)
           list(s) == <<s>> \o Tail(c.todo)
           ins == [c EXCEPT !.todo = list("insertUser")]
           upd == [c EXCEPT !.todo = list("updateUser"), !.cols = dirty]
<1>1. /\ At(h, "selectUser") /\ UNCHANGED <<tables, told>>
      /\ calls' = [calls EXCEPT ![h] = IF row = Absent THEN ins ELSE upd]
  BY DEF SelectUser, Unrequested, Goto
<1>2. /\ c \in Call /\ c.todo \in Lists /\ c.todo # <<>> /\ Head(c.todo) = "selectUser"
      /\ c.user \in AccountIds /\ c.entity \in User
      /\ RowEarned(c.entity, facts[c.user])
      /\ EmailApproved(c.entity.email, c.user, deletions, was)
  BY <1>1, AtStep DEF Steps, Saves
<1>3. \A s \in {"updateUser", "insertUser"} :
         list(s) \in Lists /\ list(s) # <<>> /\ Head(list(s)) = s
  BY <1>2, ListsSave
<1>4. dirty \in SUBSET UserColumns
  BY <1>2, UserFields DEF Dirty
<1> HIDE DEF list, dirty
<1>5. /\ ins \in Call /\ ins.todo = list("insertUser")
      /\ ins.user = c.user /\ ins.entity = c.entity
  BY <1>2, <1>3 DEF Call
<1>6. /\ upd \in Call /\ upd.todo = list("updateUser")
      /\ upd.user = c.user /\ upd.entity = c.entity
  BY <1>2, <1>3, <1>4 DEF Call
<1>7. ASSUME NEW d \in Call, NEW s \in {"updateUser", "insertUser"}, d.todo = list(s),
             d.user = c.user, d.entity = c.entity
      PROVE  CallBacked(d, facts', deletions', was')
  BY <1>1, <1>2, <1>3, <1>7 DEF CallBacked, Ahead, tables
<1> HIDE DEF ins, upd, row
<1>8. CASE row = Absent
  <2>1. calls' = [calls EXCEPT ![h] = ins]
    BY <1>1, <1>8
  <2> QED BY <1>1, <1>5, <1>7, <2>1, HandlerMoves DEF tables
<1>9. CASE row # Absent
  <2>1. calls' = [calls EXCEPT ![h] = upd]
    BY <1>1, <1>9
  <2> QED BY <1>1, <1>6, <1>7, <2>1, HandlerMoves DEF tables
<1> QED BY <1>8, <1>9

LEMMA WriteUserInv ==
    ASSUME AccInv, NEW h \in Handlers, WriteUser(h)
    PROVE  AccInv'
<1> DEFINE c == calls[h]
           old == users[c.user]
           d == [c EXCEPT !.cols = {}]
           row == IF At(h, "insertUser") THEN c.entity ELSE Updated(old, c.entity, c.cols)
<1>1. /\ At(h, "updateUser") \/ At(h, "insertUser")
      /\ UNCHANGED <<deletions, facts, was, told>>
      /\ IF Refused(c) THEN Goto(h, Idle) /\ UNCHANGED users
         ELSE users' = [users EXCEPT ![c.user] = row] /\ Advance(h, d)
  BY DEF WriteUser, Unrequested
<1>2. /\ c \in Call /\ c.todo # <<>> /\ Head(c.todo) \in {"updateUser", "insertUser"}
      /\ c.user \in AccountIds /\ c.entity \in User
      /\ RowEarned(c.entity, facts[c.user])
      /\ EmailApproved(c.entity.email, c.user, deletions, was)
      /\ c.cols \in SUBSET UserColumns
  BY <1>1, AtStep DEF Steps, Saves, Call
<1>3. CASE Refused(c)
  BY <1>1, <1>3, GivingUp DEF tables
<1>4. CASE ~ Refused(c)
  <2>1. /\ d \in Call /\ d.todo = c.todo /\ d.user = c.user /\ d.entity = c.entity
    BY <1>2 DEF Call
  <2>2. calls' = [calls EXCEPT ![h] = Rest(d)]
    BY <1>1, <1>4, AdvanceIsRest
  <2> HIDE DEF d
  <2>3. Rest(d) \in Call /\ CallBacked(Rest(d), facts', deletions, was)
    BY <1>1, <1>2, <2>1, RestBacked
  <2>4. /\ row \in User \cup {Absent}
        /\ row # Absent => /\ RowEarned(row, facts'[c.user])
                           /\ EmailApproved(row.email, c.user, deletions, was)
    <3>1. CASE At(h, "insertUser")
      BY <1>1, <1>2, <3>1
    <3>2. CASE ~ At(h, "insertUser") /\ old = Absent
      BY <3>2 DEF Updated
    <3>3. CASE ~ At(h, "insertUser") /\ old # Absent
      <4> DEFINE p == Patched(old, c.entity, c.cols)
      <4>1. /\ old \in User /\ RowEarned(old, facts[c.user])
            /\ EmailApproved(old.email, c.user, deletions, was)
        BY <1>2, <3>3, TheUser
      <4>2. p \in User /\ p.email \in {c.entity.email, old.email}
        BY <1>2, <4>1, PatchedUser DEF UserColumns
      <4>3. RowEarned(p, facts[c.user])
        BY <1>2, <4>1, PatchedEarned
      <4>4. row = p
        BY <3>3 DEF Updated
      <4> HIDE DEF p, row
      <4> QED BY <1>1, <1>2, <4>1, <4>2, <4>3, <4>4
    <3> QED BY <3>1, <3>2, <3>3
  <2>5. users' = [users EXCEPT ![c.user] = row]
    BY <1>1, <1>4
  <2> HIDE DEF row
  <2> QED BY <1>1, <1>2, <2>2, <2>3, <2>4, <2>5, UserChanges
<1> QED BY <1>3, <1>4

LEMMA CongratulateInv ==
    ASSUME AccInv, NEW h \in Handlers, Congratulate(h)
    PROVE  AccInv'
<1> DEFINE c == calls[h]
<1>1. /\ At(h, "congratulate") /\ Advance(h, c) /\ UNCHANGED tables
      /\ \A t \in told' : t \in told \/ t = <<c.user, c.entity.verificationLevel>>
  BY DEF Congratulate
<1>2. /\ c \in Call /\ (c.cols # {} => c.entity \in User)
      /\ c.todo # <<>> /\ Head(c.todo) = "congratulate"
      /\ c.user \in AccountIds /\ c.entity \in User
      /\ LevelEarned(c.entity.verificationLevel, facts[c.user])
  BY <1>1, AtStep DEF Steps, Saves, RowEarned
<1>3. c.entity.verificationLevel \in VerificationLevel
  BY <1>2, UserFields
<1>4. Rest(c) \in Call /\ CallBacked(Rest(c), facts', deletions', was')
  BY <1>2, RestBacked
<1>5. calls' = [calls EXCEPT ![h] = Rest(c)]
  BY <1>1, AdvanceIsRest
<1>6. /\ Typed /\ RequestsBacked
  BY DEF AccInv
<1>7. Grown /\ RequestsBacked'
  BY <1>1, <1>6 DEF Grown, tables, RequestsBacked
<1>8. /\ users' \in [AccountIds -> User \cup {Absent}] /\ users' = users
      /\ deletions' \in [RequestIds -> DataDeletionRequest \cup {Absent}]
      /\ was' \in [RequestIds -> SUBSET DeletionStatus]
      /\ facts' \in [AccountIds -> SUBSET Facts]
  BY <1>1, <1>6 DEF tables, Typed
<1>9. told' \subseteq AccountIds \X VerificationLevel
  BY <1>1, <1>2, <1>3, <1>6 DEF Typed
<1>10. \A t \in told' \ told : LevelEarned(t[2], facts'[t[1]])
  BY <1>1, <1>2 DEF tables
<1> QED BY <1>4, <1>5, <1>7, <1>8, <1>9, <1>10, Assembled

LEMMA DeleteUserInv ==
    ASSUME AccInv, NEW h \in Handlers, DeleteUser(h)
    PROVE  AccInv'
<1> DEFINE c == calls[h]
<1>1. /\ At(h, "deleteUser") /\ Advance(h, c) /\ UNCHANGED <<deletions, facts, was, told>>
      /\ users' = users \/ users' = [users EXCEPT ![c.user] = Absent]
  BY DEF DeleteUser, Unrequested
<1>2. /\ c \in Call /\ (c.cols # {} => c.entity \in User)
      /\ c.todo # <<>> /\ Head(c.todo) = "deleteUser" /\ c.user \in AccountIds
  BY <1>1, AtStep DEF Steps, Saves
<1>3. Rest(c) \in Call /\ CallBacked(Rest(c), facts', deletions, was)
  BY <1>2, RestBacked
<1>4. calls' = [calls EXCEPT ![h] = Rest(c)]
  BY <1>1, AdvanceIsRest
<1>5. CASE users' = users
  BY <1>1, <1>3, <1>4, <1>5, HandlerMoves
<1>6. CASE users' = [users EXCEPT ![c.user] = Absent]
  BY <1>1, <1>2, <1>3, <1>4, <1>6, UserChanges
<1> QED BY <1>1, <1>5, <1>6

LEMMA InsertRequestInv ==
    ASSUME AccInv, NEW h \in Handlers, NEW r \in RequestIds, InsertRequest(h, r)
    PROVE  AccInv'
<1> DEFINE c == calls[h]
           row == [user |-> c.user, status |-> "PENDING"]
<1>1. /\ At(h, "insertRequest") /\ Advance(h, c) /\ UNCHANGED <<users, facts, told>>
      /\ was[r] = {}
      /\ UNCHANGED <<deletions, was>> \/ StoreRequest(r, row)
  BY DEF InsertRequest, Unrequested, FreeRequests
<1>2. /\ c \in Call /\ (c.cols # {} => c.entity \in User)
      /\ c.todo # <<>> /\ Head(c.todo) = "insertRequest"
      /\ c.user \in AccountIds
  BY <1>1, AtStep DEF Steps
<1>3. Rest(c) \in Call /\ CallBacked(Rest(c), facts', deletions', was')
  BY <1>2, RestBacked
<1>4. calls' = [calls EXCEPT ![h] = Rest(c)]
  BY <1>1, AdvanceIsRest
<1>5. CASE UNCHANGED <<deletions, was>>
  BY <1>1, <1>3, <1>4, <1>5, HandlerMoves
<1>6. CASE StoreRequest(r, row)
  <2>1. /\ row \in DataDeletionRequest /\ row.status = "PENDING" /\ row # Absent
    BY <1>2, AbsentIsNoRow DEF DataDeletionRequest, DeletionStatus
  <2>2. deletions[r] = Absent
    BY <1>1 DEF AccInv, RequestsBacked, RequestBacked
  <2> HIDE DEF row
  <2> QED BY <1>1, <1>3, <1>4, <1>6, <2>1, <2>2, RequestStored
<1> QED BY <1>1, <1>5, <1>6

\* The history of a request before it is marked as a step of its execution.
LEMMA MarkInv ==
    ASSUME AccInv, NEW h \in Handlers,
           NEW s, NEW status,
           <<s, status>> \in {<<"processing", "PROCESSING">>, <<"complete", "COMPLETED">>,
                              <<"reject", "REJECTED">>},
           Mark(h, s, status)
    PROVE  AccInv'
<1> DEFINE c == calls[h]
           r == c.request
           row == [deletions[r] EXCEPT !.status = status]
<1>4. /\ s \in {"processing", "complete", "reject"}
      /\ status \in {"PROCESSING", "COMPLETED", "REJECTED"}
      /\ status = "COMPLETED" => s = "complete"
      /\ s = "processing" => status = "PROCESSING"
  OBVIOUS
<1>1. /\ At(h, s) /\ Advance(h, c) /\ UNCHANGED <<users, facts, told>>
      /\ StoreRequest(r, row)
  BY DEF Mark, Unrequested, SetStatus
<1>2. /\ c \in Call /\ (c.cols # {} => c.entity \in User)
      /\ c.todo # <<>> /\ Head(c.todo) = s /\ c.user \in AccountIds
      /\ r \in RequestIds /\ deletions[r] # Absent
      /\ s # "reject" => /\ deletions[r].user = c.user
                         /\ {"PENDING", "APPROVED"} \subseteq was[r]
      /\ s = "complete" => "PROCESSING" \in was[r]
  BY <1>1, <1>4, AtStep DEF Steps
<1>3. deletions[r] \in DataDeletionRequest
  BY <1>2 DEF AccInv, Typed
<1>5. /\ row \in DataDeletionRequest /\ row.user = deletions[r].user
      /\ row.status = status /\ row # Absent
  BY <1>3, <1>4, AbsentIsNoRow DEF DataDeletionRequest, DeletionStatus
<1> HIDE DEF row
<1>6. deletions'[r] = row /\ was'[r] = was[r] \cup {status}
  BY <1>1, <1>2, <1>5 DEF StoreRequest, AccInv, Typed
<1>7. Rest(c) \in Call /\ CallBacked(Rest(c), facts', deletions', was')
  BY <1>2, <1>4, <1>5, <1>6, RestBacked
<1>8. calls' = [calls EXCEPT ![h] = Rest(c)]
  BY <1>1, AdvanceIsRest
<1> QED BY <1>1, <1>2, <1>4, <1>5, <1>7, <1>8, RequestStored

LEMMA AnonymiseInv ==
    ASSUME AccInv, NEW h \in Handlers, Anonymise(h)
    PROVE  AccInv'
<1> DEFINE c == calls[h]
           u == c.user
           old == users[u]
           new == [email |-> Erased]
           set == [old EXCEPT !["email"] = new["email"]]
           row == Updated(old, new, DOMAIN new)
<1>1. /\ At(h, "anonymise") /\ Advance(h, c) /\ UNCHANGED <<deletions, was, told>>
      /\ users' = [users EXCEPT ![u] = row]
      /\ facts' = [facts EXCEPT ![u] = @ \ {"renamed"}]
  BY DEF Anonymise, Unrequested, SetColumns
<1>2. /\ c \in Call /\ (c.cols # {} => c.entity \in User)
      /\ c.todo # <<>> /\ Head(c.todo) = "anonymise" /\ u \in AccountIds
      /\ c.request \in RequestIds /\ deletions[c.request] # Absent
      /\ deletions[c.request].user = u
      /\ {"PENDING", "APPROVED", "PROCESSING"} \subseteq was[c.request]
  BY <1>1, AtStep DEF Steps
<1>3. Rest(c) \in Call /\ CallBacked(Rest(c), facts', deletions, was)
  BY <1>2, RestBacked
<1>4. calls' = [calls EXCEPT ![h] = Rest(c)]
  BY <1>1, AdvanceIsRest
<1>5. facts'[u] = facts[u] \ {"renamed"}
  BY <1>1, <1>2 DEF AccInv, Typed
<1>6. \A email : EmailApproved(email, u, deletions, was)
  BY <1>2 DEF EmailApproved
<1>7. row \in User \cup {Absent} /\ (row # Absent => RowEarned(row, facts'[u]))
  <2>1. CASE old = Absent
    BY <2>1 DEF Updated
  <2>2. CASE old # Absent
    <3>1. old \in User /\ RowEarned(old, facts'[u])
      <4>1. old \in User /\ RowEarned(old, facts[u])
        BY <1>2, <2>2, TheUser
      <4>2. facts[u] \ {"renamed"} \subseteq facts'[u]
        BY <1>5
      <4> QED BY <4>1, <4>2, DoneStays
    <3>2. DOMAIN new = {"email"} /\ new["email"] = Erased
      OBVIOUS
    <3> HIDE DEF new
    <3>3. set \in User
      BY <3>1, <3>2 DEF User
    <3>4. RowEarned(set, facts'[u])
      BY <3>1 DEF RowEarned, User
    <3>5. row \in {Absent, set}
      BY <3>1, <3>2, <3>3, OneColumn DEF UserColumns
    <3> HIDE DEF set, row
    <3> QED BY <3>3, <3>4, <3>5
  <2> QED BY <2>1, <2>2
<1> HIDE DEF row
<1> QED BY <1>1, <1>2, <1>3, <1>4, <1>6, <1>7, UserChanges

LEMMA ExecutionFailsInv ==
    ASSUME AccInv, NEW h \in Handlers, ExecutionFails(h)
    PROVE  AccInv'
<1> DEFINE c == calls[h]
           d == [c EXCEPT !.todo = <<"reject">>]
<1>1. /\ At(h, "anonymise") \/ At(h, "complete")
      /\ calls' = [calls EXCEPT ![h] = d] /\ UNCHANGED <<tables, told>>
  BY DEF ExecutionFails, Goto
<1>2. /\ c \in Call /\ c.user \in AccountIds /\ (c.cols # {} => c.entity \in User)
      /\ c.request \in RequestIds /\ deletions[c.request] # Absent
  BY <1>1, AtStep DEF Steps
<1>3. <<"reject">> \in Lists /\ Head(<<"reject">>) = "reject"
  BY Tails DEF Lists
<1>4. /\ d \in Call /\ d.todo = <<"reject">> /\ d.user = c.user /\ d.request = c.request
      /\ d.cols = c.cols /\ d.entity = c.entity
  BY <1>2, <1>3 DEF Call
<1> HIDE DEF d
<1>5. CallBacked(d, facts', deletions', was')
  BY <1>1, <1>2, <1>3, <1>4 DEF CallBacked, Ahead, Saves, tables
<1> QED BY <1>1, <1>4, <1>5, HandlerMoves DEF tables

----------------------------------------------------------------------------
(* The theorems                                                            *)

\* The account there is at the start has done what its level takes.
LEMMA InitEarned ==
    ASSUME NEW email \in Emails, NEW phone \in Phones, NEW level \in VerificationLevel,
           NEW given \in SUBSET Documents, given # {} => level >= 2,
           level >= 3 => IdDocuments \subseteq given, level = 4 => Documents \subseteq given
    PROVE  /\ UserAt(email, phone, level, given) \in User
           /\ UserAt(email, phone, level, given).email = email
           /\ RowEarned(UserAt(email, phone, level, given), Done(level, given))
           /\ Done(level, given) \in SUBSET Facts
<1> DEFINE row == UserAt(email, phone, level, given)
           done == Done(level, given)
<1>1. /\ level >= 1 => "email" \in done
      /\ level >= 2 => "phone" \in done
      /\ level >= 3 => "id" \in done
      /\ level = 4 => "advanced" \in done
      /\ given \subseteq done
  BY DEF Done
<1>2. done \in SUBSET Facts
  BY DEF Done, Facts
<1> HIDE DEF done
<1>3. level \in 0..4
  BY DEF VerificationLevel
<1>4. given # {} => "phone" \in done
  BY <1>1
<1>5. LevelEarned(level, done)
  BY <1>1, <1>3 DEF LevelEarned, Documents
<1>6. /\ row.email = email /\ row.verificationLevel = level
      /\ row.idDocumentFront = ("idDocumentFront" \in given)
      /\ row.idDocumentBack = ("idDocumentBack" \in given)
      /\ row.addressProofDocument = ("addressProofDocument" \in given)
      /\ row.selfieImage = ("selfieImage" \in given)
      /\ row.idVerified = (level >= 3)
  BY DEF UserAt
<1>7. row \in User
  BY DEF UserAt, User
<1> HIDE DEF row
<1>9. /\ level >= 3 => {"id", "phone"} \cup IdDocuments \subseteq done
      /\ \A d \in given : {d, "phone"} \subseteq done
  BY <1>1, <1>3, <1>4
<1>10. /\ row.idDocumentFront => "idDocumentFront" \in given
       /\ row.idDocumentBack => "idDocumentBack" \in given
       /\ row.addressProofDocument => "addressProofDocument" \in given
       /\ row.selfieImage => "selfieImage" \in given
       /\ row.idVerified => level >= 3
  BY <1>6
<1>8. RowEarned(row, done)
  BY <1>5, <1>6, <1>9, <1>10 DEF RowEarned
<1> QED BY <1>2, <1>6, <1>7, <1>8 DEF row, done

LEMMA AccInvInit ==
    ASSUME Init
    PROVE  AccInv
<1>1. PICK u \in AccountIds, email \in Emails, phone \in Phones, level \in StartLevels,
           given \in StartDocuments :
          /\ given # {} => level >= 2
          /\ level >= 3 => IdDocuments \subseteq given
          /\ level = 4 => Documents \subseteq given
          /\ users = [v \in AccountIds |-> IF v # u THEN Absent
                 ELSE UserAt(email, phone, level, given)]
          /\ facts = [v \in AccountIds |-> IF v # u THEN {} ELSE Done(level, given)]
  BY DEF Init
<1> DEFINE row == UserAt(email, phone, level, given)
           done == Done(level, given)
<1>2. level \in VerificationLevel /\ given \in SUBSET Documents
  BY AccountConstants
<1>3. row \in User /\ row.email = email /\ RowEarned(row, done) /\ done \in SUBSET Facts
  BY <1>1, <1>2, InitEarned
<1>4. /\ users = [v \in AccountIds |-> IF v # u THEN Absent ELSE row]
      /\ facts = [v \in AccountIds |-> IF v # u THEN {} ELSE done]
  BY <1>1
<1> HIDE DEF row, done
<1>5. /\ deletions = [r \in RequestIds |-> Absent] /\ told = {}
      /\ calls = [h \in Handlers |-> Idle] /\ was = [r \in RequestIds |-> {}]
  BY DEF Init
<1>6. Typed
  BY <1>3, <1>4, <1>5, Idling DEF Typed
<1>7. UsersBacked
  BY <1>3, <1>4, AccountConstants DEF UsersBacked, EmailApproved
<1>8. RequestsBacked /\ CallsBacked /\ ToldBacked
  BY <1>5, Idling DEF RequestsBacked, RequestBacked, CallsBacked, ToldBacked
<1> QED BY <1>6, <1>7, <1>8 DEF AccInv

LEMMA RequestInv ==
    ASSUME AccInv, NEW h \in Handlers, Request(h)
    PROVE  AccInv'
<1>1. ASSUME NEW email \in Emails, NEW phone \in Phones,
             Create(h, email, phone) \/ Register(h, email, phone)
      PROVE  AccInv'
  BY <1>1, NewcomerInv DEF Create, Register, Accept
<1>2. ASSUME NEW u \in AccountIds, NEW email \in Emails \cup {Erased}, NEW phone \in Phones,
             Update(h, u, email, phone)
      PROVE  AccInv'
  BY <1>2, UpdateInv
<1>3. ASSUME NEW u \in AccountIds,
             \/ Remove(h, u) \/ Login(h, u) \/ RefreshTokens(h, u)
             \/ SendEmailVerification(h, u) \/ RequestDataDeletion(h, u)
      PROVE  AccInv'
  <2>1. PICK todo \in {<<"deleteUser">>, <<"setSession">>, <<"renewSession">>,
                       <<"askMail", "setMailToken">>, <<"insertRequest">>} :
           Goto(h, Working(u, todo)) /\ UNCHANGED <<tables, told>>
    BY <1>3 DEF Remove, Login, RefreshTokens, SendEmailVerification, RequestDataDeletion,
                Accept
  <2>2. /\ todo \in Lists /\ todo # <<>>
        /\ Head(todo) \in {"deleteUser", "setSession", "renewSession", "askMail",
                           "insertRequest"}
    BY Tails DEF Lists
  <2> QED BY <2>1, <2>2, WorkStarts DEF Saves
<1>4. ASSUME NEW u \in AccountIds,
             \/ Logout(h, u) \/ VerifyEmail(h, u) \/ VerifyPhone(h, u)
             \/ ApproveIdVerification(h, u) \/ ApproveAdvancedVerification(h, u)
      PROVE  AccInv'
  BY <1>4, LogoutInv, VerifyEmailInv, VerifyPhoneInv, ApproveIdVerificationInv,
     ApproveAdvancedVerificationInv
<1>5. ASSUME NEW u \in AccountIds, NEW phone \in Phones, RequestPhoneVerification(h, u, phone)
      PROVE  AccInv'
  BY <1>5, RequestPhoneVerificationInv
<1>6. ASSUME NEW u \in AccountIds, NEW document \in Documents, UploadIdDocument(h, u, document)
      PROVE  AccInv'
  BY <1>6, UploadIdDocumentInv
<1>7. ASSUME NEW r \in RequestIds, NEW status \in {"APPROVED", "REJECTED"}, Review(h, r, status)
      PROVE  AccInv'
  BY <1>7, ReviewInv
<1>8. ASSUME NEW r \in RequestIds, ExecuteDeletion(h, r)
      PROVE  AccInv'
  BY <1>8, ExecuteDeletionInv
<1> QED BY <1>1, <1>2, <1>3, <1>4, <1>5, <1>6, <1>7, <1>8 DEF Request

LEMMA StepInv ==
    ASSUME AccInv, NEW h \in Handlers, Step(h)
    PROVE  AccInv'
<1>1. CASE \/ Mark(h, "processing", "PROCESSING") \/ Mark(h, "complete", "COMPLETED")
           \/ Mark(h, "reject", "REJECTED")
  BY <1>1, MarkInv
<1>2. CASE \/ \E u \in AccountIds : InsertNew(h, u)
           \/ \E r \in RequestIds : InsertRequest(h, r)
  BY <1>2, InsertNewInv, InsertRequestInv
<1>3. CASE \/ SetSession(h) \/ AskMail(h) \/ SetMailToken(h) \/ SelectUser(h) \/ WriteUser(h)
           \/ Congratulate(h) \/ DeleteUser(h) \/ Anonymise(h)
  BY <1>3, SetSessionInv, AskMailInv, SetMailTokenInv, SelectUserInv, WriteUserInv,
     CongratulateInv, DeleteUserInv, AnonymiseInv
<1> QED BY <1>1, <1>2, <1>3 DEF Step

LEMMA AccInvNext ==
    ASSUME AccInv, [Next]_vars
    PROVE  AccInv'
<1>1. CASE UNCHANGED vars
  BY <1>1 DEF vars, AccInv, Typed, UsersBacked, RequestsBacked, CallsBacked, ToldBacked
<1>2. ASSUME NEW h \in Handlers, Fail(h)
      PROVE  AccInv'
  BY <1>2, GivingUp DEF Fail
<1>3. ASSUME NEW h \in Handlers, Request(h) \/ Step(h) \/ ExecutionFails(h)
      PROVE  AccInv'
  BY <1>3, RequestInv, StepInv, ExecutionFailsInv
<1> QED BY <1>1, <1>2, <1>3 DEF Next

\* The strengthening holds however many requests and failures there are, and
\* however they interleave.
THEOREM AccInvariance == Spec => []AccInv
<1>1. Init => AccInv
  BY AccInvInit
<1>2. AccInv /\ [Next]_vars => AccInv'
  BY AccInvNext
<1> QED BY <1>1, <1>2, PTL DEF Spec

\* Rows, handlers and history are what the entities and handlers of the four
\* services can build, also after a save has mixed two versions of a row.
THEOREM AccTypes == Spec => []AccTypeOK
<1>1. AccInv => AccTypeOK
  <2> SUFFICES ASSUME AccInv, NEW h \in Handlers
               PROVE  /\ calls[h].todo \in Seq(Steps)
                      /\ calls[h].user \in AccountIds \cup {NoId}
                      /\ calls[h].request \in RequestIds \cup {NoId}
                      /\ calls[h].entity \in User \cup {Absent}
                      /\ calls[h].cols # {} => calls[h].cols \subseteq DOMAIN calls[h].entity
    BY DEF AccInv, Typed, AccTypeOK
  <2> QED BY TheCall, ListsAreSteps, UserFields DEF Call, CallBacked
<1> QED BY <1>1, AccInvariance, PTL

\* Nobody is at a level, or congratulated on one, who has not taken every step
\* of verification.service.ts on the way to it, whatever stale rows are saved.
THEOREM LevelsWereEarned == Spec => []LevelsAreEarned
<1>1. \A u, level : LevelEarned(level, facts[u]) => Earned(u, level)
  BY DEF LevelEarned, Earned
<1>2. AccInv => LevelsAreEarned
  <2> SUFFICES ASSUME AccInv PROVE LevelsAreEarned
    OBVIOUS
  <2>1. \A u \in AccountIds : users[u] # Absent => Earned(u, users[u].verificationLevel)
    BY <1>1, TheUser DEF RowEarned
  <2>2. \A t \in told : Earned(t[1], t[2])
    BY <1>1 DEF AccInv, ToldBacked
  <2> QED BY <2>1, <2>2 DEF LevelsAreEarned
<1> QED BY <1>2, AccInvariance, PTL

\* Who is anonymised had a request that an admin approved, and no request is
\* COMPLETED but through every status before it (executeDeletion).
THEOREM ErasuresWereApproved == Spec => []ErasedWasApproved
<1>1. AccInv => ErasedWasApproved
  BY DEF AccInv, UsersBacked, RequestsBacked, RequestBacked, EmailApproved, ErasedWasApproved
<1> QED BY <1>1, AccInvariance, PTL

----------------------------------------------------------------------------
(* While requests come one at a time                                       *)

\* The flags of a user agree with the level, and who has given the front of
\* an identity document had come to level 2.
Flagged(row) ==
    /\ row.verified => row.verificationLevel >= 1
    /\ row.phoneVerified <=> row.verificationLevel >= 2
    /\ row.idVerified <=> row.verificationLevel >= 3
    /\ row.advancedVerified <=> row.verificationLevel = 4
    /\ row.idDocumentFront => row.verificationLevel >= 2

\* What a handler will save over a row takes no level and no session away, and
\* the e-mail only if the user asked for another.
Keeps(row, new, done) ==
    /\ Flagged(new)
    /\ new.verificationLevel >= row.verificationLevel
    /\ new.refreshToken = row.refreshToken
    /\ new.email = row.email \/ "renamed" \in done

\* What a handler has read is still so.
Sees(c, us, fs) ==
    /\ ~ Ahead(c, {"insertUser"})
    /\ Ahead(c, {"insertNew"}) => Flagged(c.entity)
    /\ Ahead(c, {"selectUser", "updateUser"}) =>
            us[c.user] # Absent /\ Keeps(us[c.user], c.entity, fs[c.user])
    /\ Ahead(c, {"updateUser"}) => c.cols = Dirty(c.entity, us[c.user])
    /\ Ahead(c, {"renewSession"}) /\ us[c.user] # Absent => us[c.user].refreshToken
    /\ Ahead(c, {"processing", "anonymise", "complete"}) => us[c.user] # Absent
    /\ Ahead(c, {"complete"}) => us[c.user].email = Erased

Alone == \A g, h \in Handlers : calls[g] # Idle /\ calls[h] # Idle => g = h

RowsFlagged ==
    \A u \in AccountIds : users[u] # Absent => Flagged(users[u]) /\ "registered" \in facts[u]

\* Who asked for deletion is still there, and anonymous once it is COMPLETED.
RequestsCarried ==
    \A r \in RequestIds : deletions[r] # Absent =>
        LET u == deletions[r].user
        IN  /\ users[u] # Absent
            /\ deletions[r].status = "COMPLETED" =>
                    users[u].email = Erased \/ "renamed" \in facts[u]

CallsSeen == \A h \in Handlers : Sees(calls[h], users, facts)

CleanInv == clean => Alone /\ RowsFlagged /\ RequestsCarried /\ CallsSeen

\* What a step may not do to levels and sessions.
LevelsKept ==
    \A u \in AccountIds : users[u] # Absent /\ users'[u] # Absent
        => users'[u].verificationLevel >= users[u].verificationLevel

SessionsKept ==
    \A u \in AccountIds :
        users[u] # Absent /\ users'[u] # Absent /\ ~ users[u].refreshToken /\ users'[u].refreshToken
            => \E h \in Handlers : At(h, "setSession") /\ calls[h].user = u

Kept == clean' => LevelsKept /\ SessionsKept

\* Handler h has no company: either it is idle and accepts a request, or it
\* goes on with the one it has.
Moves(h) == Accept(h) \/ (calls[h] # Idle /\ UNCHANGED clean)

LEMMA NoCompany ==
    ASSUME CleanInv, NEW h \in Handlers, Moves(h), clean'
    PROVE  /\ clean /\ Alone /\ RowsFlagged /\ RequestsCarried /\ CallsSeen
           /\ \A g \in Handlers : g # h => calls[g] = Idle
<1>1. CASE Accept(h)
  BY <1>1 DEF Accept, CleanInv
<1>2. CASE calls[h] # Idle /\ UNCHANGED clean
  BY <1>2 DEF CleanInv, Alone
<1> QED BY <1>1, <1>2 DEF Moves

\* The handler moves on in the way of a clean execution.
LEMMA MovesOn ==
    ASSUME AccInv, CleanInv, NEW h \in Handlers, Moves(h), NEW c,
           calls' = [calls EXCEPT ![h] = c],
           clean' => /\ RowsFlagged' /\ RequestsCarried' /\ LevelsKept /\ SessionsKept
                     /\ Sees(c, users', facts')
    PROVE  CleanInv' /\ Kept
<1> SUFFICES ASSUME clean' PROVE (Alone /\ CallsSeen)'
  BY DEF CleanInv, Kept
<1>1. \A g \in Handlers : calls'[g] = IF g = h THEN c ELSE Idle
  BY NoCompany DEF AccInv, Typed
<1>2. Sees(Idle, users', facts')
  BY DEF Sees, Ahead, Idle
<1>3. Alone'
  BY <1>1 DEF Alone
<1>4. \A g \in Handlers : Sees(calls'[g], users', facts')
  BY <1>1, <1>2
<1> QED BY <1>3, <1>4 DEF CallsSeen

\* What a user has done is kept, except that a change of the e-mail of u may
\* be forgotten.
Remembers(u) ==
    \A v \in AccountIds : /\ facts[v] \ {"renamed"} \subseteq facts'[v]
                          /\ v # u => facts[v] \subseteq facts'[v]

\* One row changes.
LEMMA RowChanges ==
    ASSUME AccInv, RowsFlagged, RequestsCarried, NEW u \in AccountIds,
           NEW row \in User \cup {Absent}, users' = [users EXCEPT ![u] = row],
           UNCHANGED deletions, Remembers(u),
           row # Absent => Flagged(row) /\ "registered" \in facts'[u],
           row = Absent => \A r \in RequestIds :
                              ~ (deletions[r] # Absent /\ deletions[r].user = u),
           row # Absent /\ users[u] # Absent =>
              /\ row.verificationLevel >= users[u].verificationLevel
              /\ \/ row.refreshToken = users[u].refreshToken
                 \/ ~ row.refreshToken
                 \/ \E h \in Handlers : At(h, "setSession") /\ calls[h].user = u
              /\ \/ row.email = Erased
                 \/ "renamed" \in facts'[u]
                 \/ row.email = users[u].email /\ facts[u] \subseteq facts'[u]
    PROVE  RowsFlagged' /\ RequestsCarried' /\ LevelsKept /\ SessionsKept
<1>1. \A v \in AccountIds : users'[v] = IF v = u THEN row ELSE users[v]
  BY DEF AccInv, Typed
<1>2. RowsFlagged'
  BY <1>1 DEF RowsFlagged, Remembers
<1>3. LevelsKept
  <2> SUFFICES ASSUME NEW v \in AccountIds, users[v] # Absent, users'[v] # Absent
               PROVE  users'[v].verificationLevel >= users[v].verificationLevel
    BY DEF LevelsKept
  <2>1. users[v].verificationLevel \in 0..4
    BY TheUser, UserFields DEF VerificationLevel
  <2> QED BY <1>1, <2>1
<1>4. SessionsKept
  BY <1>1 DEF SessionsKept
<1>5. RequestsCarried'
  <2> SUFFICES ASSUME NEW r \in RequestIds, deletions[r] # Absent
               PROVE  LET v == deletions[r].user
                      IN  /\ users'[v] # Absent
                          /\ deletions[r].status = "COMPLETED" =>
                                 users'[v].email = Erased \/ "renamed" \in facts'[v]
    BY DEF RequestsCarried
  <2> DEFINE v == deletions[r].user
  <2>1. v \in AccountIds
    BY DEF AccInv, Typed, DataDeletionRequest
  <2>2. /\ users[v] # Absent
        /\ deletions[r].status = "COMPLETED" =>
              users[v].email = Erased \/ "renamed" \in facts[v]
    BY DEF RequestsCarried
  <2>3. CASE v # u
    BY <1>1, <2>1, <2>2, <2>3 DEF Remembers
  <2>4. CASE v = u
    BY <1>1, <2>1, <2>2, <2>4
  <2> QED BY <2>3, <2>4
<1> QED BY <1>2, <1>3, <1>4, <1>5

\* No row changes.
LEMMA NoRowChanges ==
    ASSUME AccInv, RowsFlagged, RequestsCarried, UNCHANGED <<users, deletions>>,
           \A v \in AccountIds : facts[v] \subseteq facts'[v]
    PROVE  RowsFlagged' /\ RequestsCarried' /\ LevelsKept /\ SessionsKept
<1>1. RowsFlagged'
  BY DEF RowsFlagged
<1>2. RequestsCarried'
  BY DEF RequestsCarried, AccInv, Typed, DataDeletionRequest
<1>3. LevelsKept
  <2> SUFFICES ASSUME NEW v \in AccountIds, users[v] # Absent
               PROVE  users[v].verificationLevel >= users[v].verificationLevel
    BY DEF LevelsKept
  <2>1. users[v].verificationLevel \in 0..4
    BY TheUser, UserFields DEF VerificationLevel
  <2> QED BY <2>1
<1>4. SessionsKept
  BY DEF SessionsKept
<1> QED BY <1>1, <1>2, <1>3, <1>4

----------------------------------------------------------------------------
(* Requests that come one at a time                                        *)

\* A handler that starts with nothing to save.
LEMMA CleanWork ==
    ASSUME AccInv, CleanInv, NEW h \in Handlers, Accept(h), NEW c,
           Goto(h, c), UNCHANGED tables, c.todo # <<>>,
           \/ Head(c.todo) \in {"deleteUser", "setSession", "askMail", "insertRequest"}
           \/ Head(c.todo) = "insertNew" /\ Flagged(c.entity)
           \/ Head(c.todo) = "renewSession" /\ users[c.user].refreshToken
           \/ Head(c.todo) = "processing" /\ (clean => users[c.user] # Absent)
    PROVE  CleanInv' /\ Kept
<1>1. calls' = [calls EXCEPT ![h] = c] /\ Moves(h)
  BY DEF Goto, Moves
<1>2. ASSUME clean'
      PROVE  /\ RowsFlagged' /\ RequestsCarried' /\ LevelsKept /\ SessionsKept
             /\ Sees(c, users', facts')
  <2>1. clean /\ RowsFlagged /\ RequestsCarried
    BY <1>1, <1>2, NoCompany
  <2>2. Sees(c, users', facts')
    BY <2>1 DEF Sees, Ahead, tables
  <2> QED BY <2>1, <2>2, NoRowChanges DEF tables
<1> QED BY <1>1, <1>2, MovesOn

\* A handler that starts and will save an entity.
LEMMA CleanSave ==
    ASSUME AccInv, CleanInv, NEW h \in Handlers, Accept(h), NEW u \in AccountIds, NEW entity,
           NEW row, NEW todo \in {SaveAndTell(row, entity), <<"selectUser">>},
           Goto(h, Saving(u, entity, todo)), users[u] # Absent,
           UNCHANGED <<users, deletions>>,
           UNCHANGED facts \/ \E done \in SUBSET Facts : Record(u, done),
           clean /\ Flagged(users[u]) => Keeps(users[u], entity, facts'[u])
    PROVE  CleanInv' /\ Kept
<1> DEFINE c == Saving(u, entity, todo)
<1>1. calls' = [calls EXCEPT ![h] = c] /\ Moves(h)
  BY DEF Goto, Moves
<1>2. todo \in {<<"selectUser">>, <<"selectUser", "congratulate">>}
  BY DEF SaveAndTell
<1>3. todo # <<>> /\ Head(todo) = "selectUser"
  BY <1>2, Tails
<1>4. c.todo = todo /\ c.user = u /\ c.entity = entity
  BY DEF Saving, Working, Idle
<1> HIDE DEF c
<1>5. \A v \in AccountIds : facts[v] \subseteq facts'[v]
  BY DEF Record, AccInv, Typed
<1>6. ASSUME clean'
      PROVE  /\ RowsFlagged' /\ RequestsCarried' /\ LevelsKept /\ SessionsKept
             /\ Sees(c, users', facts')
  <2>1. clean /\ RowsFlagged /\ RequestsCarried
    BY <1>1, <1>6, NoCompany
  <2>2. Keeps(users[u], entity, facts'[u])
    BY <2>1 DEF RowsFlagged
  <2>3. Sees(c, users', facts')
    BY <1>3, <1>4, <2>2 DEF Sees, Ahead
  <2> QED BY <1>5, <2>1, <2>3, NoRowChanges
<1> QED BY <1>1, <1>6, MovesOn

\* Nobody has done anything yet, and says so.
LEMMA NewcomerFlagged ==
    ASSUME NEW email, NEW phone
    PROVE  Flagged(UserAt(email, phone, 0, {}))
BY DEF Flagged, UserAt

LEMMA NewcomerClean ==
    ASSUME AccInv, CleanInv, NEW h \in Handlers, NEW email, NEW phone,
           Create(h, email, phone) \/ Register(h, email, phone)
    PROVE  CleanInv' /\ Kept
<1>1. PICK todo \in {<<"insertNew">>, <<"insertNew", "setSession", "askMail", "setMailToken">>} :
         /\ Accept(h) /\ UNCHANGED tables
         /\ Goto(h, Saving(NoId, UserAt(email, phone, 0, {}), todo))
  BY DEF Create, Register
<1> DEFINE c == Saving(NoId, UserAt(email, phone, 0, {}), todo)
<1>2. todo # <<>> /\ Head(todo) = "insertNew"
  BY Tails
<1>3. c.todo = todo /\ Flagged(c.entity)
  BY NewcomerFlagged DEF Saving, Working, Idle
<1> HIDE DEF c
<1>4. Goto(h, c)
  BY <1>1 DEF c
<1> QED BY <1>1, <1>2, <1>3, <1>4, CleanWork

LEMMA WorkClean ==
    ASSUME AccInv, CleanInv, NEW h \in Handlers, NEW u \in AccountIds,
           \/ Remove(h, u) \/ Login(h, u) \/ RefreshTokens(h, u)
           \/ SendEmailVerification(h, u) \/ RequestDataDeletion(h, u)
    PROVE  CleanInv' /\ Kept
<1>1. PICK todo \in {<<"deleteUser">>, <<"setSession">>, <<"renewSession">>,
                     <<"askMail", "setMailToken">>, <<"insertRequest">>} :
         /\ Accept(h) /\ UNCHANGED tables /\ Goto(h, Working(u, todo))
         /\ todo = <<"renewSession">> => users[u].refreshToken
  <2>1. CASE Remove(h, u)
    BY <2>1 DEF Remove
  <2>2. CASE Login(h, u)
    BY <2>2 DEF Login
  <2>3. CASE RefreshTokens(h, u)
    BY <2>3 DEF RefreshTokens, Signed
  <2>4. CASE SendEmailVerification(h, u)
    BY <2>4 DEF SendEmailVerification
  <2>5. CASE RequestDataDeletion(h, u)
    BY <2>5 DEF RequestDataDeletion
  <2> QED BY <2>1, <2>2, <2>3, <2>4, <2>5
<1> DEFINE c == Working(u, todo)
<1>2. /\ todo # <<>>
      /\ \/ Head(todo) \in {"deleteUser", "setSession", "askMail", "insertRequest"}
         \/ todo = <<"renewSession">> /\ Head(todo) = "renewSession"
  BY Tails
<1>3. c.todo = todo /\ c.user = u
  BY DEF Working, Idle
<1> HIDE DEF c
<1>4. Goto(h, c)
  BY <1>1 DEF c
<1> QED BY <1>1, <1>2, <1>3, <1>4, CleanWork

LEMMA UpdateClean ==
    ASSUME AccInv, CleanInv, NEW h \in Handlers, NEW u \in AccountIds,
           NEW email \in Emails \cup {Erased}, NEW phone \in Phones, Update(h, u, email, phone)
    PROVE  CleanInv' /\ Kept
<1> DEFINE row == users[u]
           entity == [users[u] EXCEPT !.email = email, !.phone = phone]
           renamed == IF email # users[u].email THEN {"renamed"} ELSE {}
<1>1. /\ users[u] # Absent /\ Record(u, renamed) /\ renamed \in SUBSET Facts /\ Accept(h)
      /\ Goto(h, Saving(u, entity, <<"selectUser">>)) /\ UNCHANGED <<users, deletions>>
  BY DEF Update, Facts
<1>2. row \in User
  BY <1>1, TheUser
<1>3. /\ entity.email = email /\ entity.verificationLevel = row.verificationLevel
      /\ entity.refreshToken = row.refreshToken
      /\ entity.verified = row.verified /\ entity.phoneVerified = row.phoneVerified
      /\ entity.idVerified = row.idVerified /\ entity.advancedVerified = row.advancedVerified
      /\ entity.idDocumentFront = row.idDocumentFront
  BY <1>2 DEF User
<1>4. row.verificationLevel \in 0..4
  BY <1>2, UserFields DEF VerificationLevel
<1>5. entity.email = row.email \/ "renamed" \in facts'[u]
  BY <1>1, <1>3, Recorded
<1> HIDE DEF entity
<1>6. clean /\ Flagged(row) => Keeps(row, entity, facts'[u])
  BY <1>3, <1>4, <1>5 DEF Keeps, Flagged
<1> QED BY <1>1, <1>6, CleanSave

LEMMA VerifyEmailClean ==
    ASSUME AccInv, CleanInv, NEW h \in Handlers, NEW u \in AccountIds, VerifyEmail(h, u)
    PROVE  CleanInv' /\ Kept
<1> DEFINE row == users[u]
           entity == Raised([users[u] EXCEPT !.verified = TRUE,
                                             !.emailVerificationToken = FALSE], 1)
<1>1. /\ users[u] # Absent /\ Record(u, {"email"}) /\ {"email"} \in SUBSET Facts /\ Accept(h)
      /\ Goto(h, Saving(u, entity, SaveAndTell(row, entity))) /\ UNCHANGED <<users, deletions>>
  BY DEF VerifyEmail, Facts
<1>2. row \in User
  BY <1>1, TheUser
<1>3. row.verificationLevel \in 0..4
  BY <1>2, UserFields DEF VerificationLevel
<1>4. /\ entity.email = row.email /\ entity.refreshToken = row.refreshToken
      /\ entity.verificationLevel = IF row.verificationLevel < 1 THEN 1 ELSE row.verificationLevel
      /\ entity.phoneVerified = row.phoneVerified
      /\ entity.idVerified = row.idVerified /\ entity.advancedVerified = row.advancedVerified
      /\ entity.idDocumentFront = row.idDocumentFront
  BY <1>2 DEF User, Raised
<1> HIDE DEF entity
<1>5. clean /\ Flagged(row) => Keeps(row, entity, facts'[u])
  BY <1>3, <1>4 DEF Keeps, Flagged
<1> QED BY <1>1, <1>5, CleanSave

LEMMA RequestPhoneVerificationClean ==
    ASSUME AccInv, CleanInv, NEW h \in Handlers, NEW u \in AccountIds, NEW phone \in Phones,
           RequestPhoneVerification(h, u, phone)
    PROVE  CleanInv' /\ Kept
<1> DEFINE row == users[u]
           same == users[u].phoneVerified /\ users[u].phone = phone
           entity == [users[u] EXCEPT !.phone = phone, !.phoneVerified = same,
                                      !.phoneVerificationCode = phone]
<1>1. /\ users[u] # Absent /\ users[u].verificationLevel < 2 /\ Accept(h)
      /\ Goto(h, Saving(u, entity, <<"selectUser">>)) /\ UNCHANGED <<users, deletions, facts>>
  BY DEF RequestPhoneVerification, tables
<1>2. row \in User
  BY <1>1, TheUser
<1>3. row.verificationLevel \in 0..4 /\ (same => row.phoneVerified)
  BY <1>2, UserFields DEF VerificationLevel
<1>4. /\ entity.email = row.email /\ entity.refreshToken = row.refreshToken
      /\ entity.verificationLevel = row.verificationLevel
      /\ entity.verified = row.verified /\ entity.phoneVerified = same
      /\ entity.idVerified = row.idVerified /\ entity.advancedVerified = row.advancedVerified
      /\ entity.idDocumentFront = row.idDocumentFront
  BY <1>2 DEF User
<1> HIDE DEF entity, same
<1>5. clean /\ Flagged(row) => Keeps(row, entity, facts'[u])
  <2> SUFFICES ASSUME Flagged(row) PROVE Keeps(row, entity, facts'[u])
    OBVIOUS
  <2>1. ~ row.phoneVerified /\ ~ same
    BY <1>1, <1>3 DEF Flagged
  <2>2. Flagged(entity)
    BY <1>1, <1>3, <1>4, <2>1 DEF Flagged
  <2> QED BY <1>3, <1>4, <2>2 DEF Keeps
<1> QED BY <1>1, <1>5, CleanSave

LEMMA VerifyPhoneClean ==
    ASSUME AccInv, CleanInv, NEW h \in Handlers, NEW u \in AccountIds, VerifyPhone(h, u)
    PROVE  CleanInv' /\ Kept
<1> DEFINE row == users[u]
           entity == AsVerified(users[u])
<1>1. /\ users[u] # Absent /\ Record(u, {"phone"}) /\ {"phone"} \in SUBSET Facts /\ Accept(h)
      /\ Goto(h, Saving(u, entity, SaveAndTell(row, entity))) /\ UNCHANGED <<users, deletions>>
  BY DEF VerifyPhone, Facts
<1>2. row \in User
  BY <1>1, TheUser
<1>3. row.verificationLevel \in 0..4
  BY <1>2, UserFields DEF VerificationLevel
<1>4. /\ entity.email = row.email /\ entity.refreshToken = row.refreshToken
      /\ entity.verificationLevel = IF row.verificationLevel < 2 THEN 2 ELSE row.verificationLevel
      /\ entity.verified = row.verified /\ entity.phoneVerified
      /\ entity.idVerified = row.idVerified /\ entity.advancedVerified = row.advancedVerified
      /\ entity.idDocumentFront = row.idDocumentFront
  BY <1>2 DEF User, Raised, AsVerified
<1> HIDE DEF entity
<1>5. clean /\ Flagged(row) => Keeps(row, entity, facts'[u])
  BY <1>3, <1>4 DEF Keeps, Flagged
<1> QED BY <1>1, <1>5, CleanSave

LEMMA UploadIdDocumentClean ==
    ASSUME AccInv, CleanInv, NEW h \in Handlers, NEW u \in AccountIds, NEW document \in Documents,
           UploadIdDocument(h, u, document)
    PROVE  CleanInv' /\ Kept
<1> DEFINE row == users[u]
           entity == [users[u] EXCEPT ![document] = TRUE]
<1>1. /\ users[u] # Absent /\ Record(u, {document}) /\ {document} \in SUBSET Facts
      /\ users[u].verificationLevel >= 2 /\ Accept(h)
      /\ Goto(h, Saving(u, entity, <<"selectUser">>)) /\ UNCHANGED <<users, deletions>>
  BY DEF UploadIdDocument, Facts, MayUpload
<1>2. row \in User
  BY <1>1, TheUser
<1>3. row.verificationLevel \in 0..4
  BY <1>2, UserFields DEF VerificationLevel
<1>4. /\ entity.email = row.email /\ entity.refreshToken = row.refreshToken
      /\ entity.verificationLevel = row.verificationLevel
      /\ entity.verified = row.verified /\ entity.phoneVerified = row.phoneVerified
      /\ entity.idVerified = row.idVerified /\ entity.advancedVerified = row.advancedVerified
  BY <1>2 DEF User, Documents, IdDocuments
<1> HIDE DEF entity
<1>5. clean /\ Flagged(row) => Keeps(row, entity, facts'[u])
  BY <1>1, <1>3, <1>4 DEF Keeps, Flagged
<1> QED BY <1>1, <1>5, CleanSave

LEMMA ApproveIdVerificationClean ==
    ASSUME AccInv, CleanInv, NEW h \in Handlers, NEW u \in AccountIds, ApproveIdVerification(h, u)
    PROVE  CleanInv' /\ Kept
<1> DEFINE row == users[u]
           entity == Raised([users[u] EXCEPT !.idVerified = TRUE], 3)
<1>1. /\ users[u] # Absent /\ Record(u, {"id"}) /\ {"id"} \in SUBSET Facts
      /\ users[u].idDocumentFront /\ Accept(h)
      /\ Goto(h, Saving(u, entity, SaveAndTell(row, entity))) /\ UNCHANGED <<users, deletions>>
  BY DEF ApproveIdVerification, Facts, IdComplete
<1>2. row \in User
  BY <1>1, TheUser
<1>3. row.verificationLevel \in 0..4
  BY <1>2, UserFields DEF VerificationLevel
<1>4. /\ entity.email = row.email /\ entity.refreshToken = row.refreshToken
      /\ entity.verificationLevel = IF row.verificationLevel < 3 THEN 3 ELSE row.verificationLevel
      /\ entity.verified = row.verified /\ entity.phoneVerified = row.phoneVerified
      /\ entity.idVerified /\ entity.advancedVerified = row.advancedVerified
  BY <1>2 DEF User, Raised
<1> HIDE DEF entity
<1>5. clean /\ Flagged(row) => Keeps(row, entity, facts'[u])
  BY <1>1, <1>3, <1>4 DEF Keeps, Flagged
<1> QED BY <1>1, <1>5, CleanSave

LEMMA ApproveAdvancedVerificationClean ==
    ASSUME AccInv, CleanInv, NEW h \in Handlers, NEW u \in AccountIds,
           ApproveAdvancedVerification(h, u)
    PROVE  CleanInv' /\ Kept
<1> DEFINE row == users[u]
           entity == [users[u] EXCEPT !.advancedVerified = TRUE, !.verificationLevel = 4]
<1>1. /\ users[u] # Absent /\ Record(u, {"advanced"}) /\ {"advanced"} \in SUBSET Facts
      /\ users[u].idVerified /\ Accept(h)
      /\ Goto(h, Saving(u, entity, SaveAndTell(row, entity))) /\ UNCHANGED <<users, deletions>>
  BY DEF ApproveAdvancedVerification, Facts
<1>2. row \in User
  BY <1>1, TheUser
<1>3. row.verificationLevel \in 0..4
  BY <1>2, UserFields DEF VerificationLevel
<1>4. /\ entity.email = row.email /\ entity.refreshToken = row.refreshToken
      /\ entity.verificationLevel = 4
      /\ entity.verified = row.verified /\ entity.phoneVerified = row.phoneVerified
      /\ entity.idVerified = row.idVerified /\ entity.advancedVerified
  BY <1>2 DEF User
<1> HIDE DEF entity
<1>5. clean /\ Flagged(row) => Keeps(row, entity, facts'[u])
  BY <1>1, <1>3, <1>4 DEF Keeps, Flagged
<1> QED BY <1>1, <1>5, CleanSave

\* One column of a user who is still there is set.
LEMMA ColumnOf ==
    ASSUME AccInv, NEW u \in AccountIds,
           NEW c \in {"refreshToken", "emailVerificationToken", "email"},
           NEW new, DOMAIN new = {c}, SetColumns(u, new),
           new[c] \in IF c = "email" THEN {Erased} ELSE BOOLEAN
    PROVE  \E row \in User \cup {Absent} :
              /\ users' = [users EXCEPT ![u] = row]
              /\ row = Absent <=> users[u] = Absent
              /\ row # Absent => /\ row[c] = new[c]
                                 /\ \A d \in UserColumns : d # c => row[d] = users[u][d]
<1> DEFINE row == Updated(users[u], new, DOMAIN new)
<1>1. users' = [users EXCEPT ![u] = row]
  BY DEF SetColumns
<1>2. CASE users[u] = Absent
  BY <1>1, <1>2 DEF Updated
<1>3. CASE users[u] # Absent
  <2> DEFINE old == users[u]
             set == [users[u] EXCEPT ![c] = new[c]]
  <2>1. old \in User /\ DOMAIN old = UserColumns
    BY <1>3, TheUser, UserFields
  <2>2. set \in User /\ c \in UserColumns
    BY <2>1 DEF User, UserColumns
  <2>3. set # Absent
    BY <2>2, AbsentIsNoRow
  <2>4. row \in {Absent, set}
    BY <2>1, <2>2, OneColumn
  <2>5. row # Absent
    <3>1. Patched(old, new, {c}) = set
      BY <2>1 DEF Patched
    <3> QED BY <1>3, <2>3, <3>1 DEF Updated
  <2>6. set[c] = new[c] /\ \A d \in UserColumns : d # c => set[d] = old[d]
    BY <2>1, <2>2
  <2> HIDE DEF row, set
  <2> QED BY <1>1, <1>3, <2>2, <2>4, <2>5, <2>6
<1> QED BY <1>2, <1>3

\* One column is set, on which no level depends.
LEMMA ColumnClean ==
    ASSUME AccInv, RowsFlagged, RequestsCarried, NEW u \in AccountIds,
           NEW c \in {"refreshToken", "emailVerificationToken", "email"},
           NEW new, DOMAIN new = {c}, SetColumns(u, new),
           new[c] \in IF c = "email" THEN {Erased} ELSE BOOLEAN,
           UNCHANGED deletions, Remembers(u), c # "email" => facts[u] \subseteq facts'[u],
           c = "refreshToken" /\ new[c] /\ users[u] # Absent =>
              \/ users[u].refreshToken
              \/ \E h \in Handlers : At(h, "setSession") /\ calls[h].user = u
    PROVE  /\ RowsFlagged' /\ RequestsCarried' /\ LevelsKept /\ SessionsKept
           /\ users[u] # Absent => /\ users'[u] # Absent
                                   /\ c = "email" => users'[u].email = Erased
<1>1. PICK row \in User \cup {Absent} :
         /\ users' = [users EXCEPT ![u] = row]
         /\ row = Absent <=> users[u] = Absent
         /\ row # Absent => /\ row[c] = new[c]
                            /\ \A d \in UserColumns : d # c => row[d] = users[u][d]
  BY ColumnOf
<1>2. users'[u] = row
  BY <1>1 DEF AccInv, Typed
<1>3. CASE row = Absent
  <2>1. \A r \in RequestIds : ~ (deletions[r] # Absent /\ deletions[r].user = u)
    BY <1>1, <1>3 DEF RequestsCarried
  <2> QED BY <1>1, <1>3, <2>1, RowChanges
<1>4. CASE row # Absent
  <2> DEFINE old == users[u]
  <2>1. old \in User /\ Flagged(old) /\ "registered" \in facts[u] /\ old # Absent
    BY <1>1, <1>4, TheUser DEF RowsFlagged
  <2>2. /\ old.verificationLevel \in 0..4 /\ old.refreshToken \in BOOLEAN
    BY <2>1, UserFields DEF VerificationLevel
  <2>3. /\ row.verificationLevel = old.verificationLevel
        /\ row.verified = old.verified /\ row.phoneVerified = old.phoneVerified
        /\ row.idVerified = old.idVerified /\ row.advancedVerified = old.advancedVerified
        /\ row.idDocumentFront = old.idDocumentFront
    BY <1>1, <1>4 DEF UserColumns
  <2>4. row.refreshToken = IF c = "refreshToken" THEN new[c] ELSE old.refreshToken
    BY <1>1, <1>4 DEF UserColumns
  <2>5. row.email = IF c = "email" THEN Erased ELSE old.email
    BY <1>1, <1>4 DEF UserColumns
  <2>6. Flagged(row) /\ row.verificationLevel >= old.verificationLevel
    BY <2>1, <2>2, <2>3 DEF Flagged
  <2>7. "registered" \in facts'[u]
    BY <2>1 DEF Remembers
  <2>8. \/ row.refreshToken = old.refreshToken
        \/ ~ row.refreshToken
        \/ \E h \in Handlers : At(h, "setSession") /\ calls[h].user = u
    BY <2>1, <2>2, <2>4
  <2>9. RowsFlagged' /\ RequestsCarried' /\ LevelsKept /\ SessionsKept
    BY <1>1, <1>4, <2>1, <2>5, <2>6, <2>7, <2>8, RowChanges
  <2> QED BY <1>2, <1>4, <2>5, <2>9
<1> QED BY <1>3, <1>4

LEMMA LogoutClean ==
    ASSUME AccInv, CleanInv, NEW h \in Handlers, NEW u \in AccountIds, Logout(h, u)
    PROVE  CleanInv' /\ Kept
<1> DEFINE new == [refreshToken |-> FALSE]
<1>1. /\ SetColumns(u, new) /\ UNCHANGED <<deletions, facts, was, calls>>
      /\ Moves(h) /\ calls[h] = Idle
  BY DEF Logout, Accept, Moves
<1>2. DOMAIN new = {"refreshToken"} /\ new["refreshToken"] = FALSE
  OBVIOUS
<1> HIDE DEF new
<1>3. calls' = [calls EXCEPT ![h] = Idle]
  BY <1>1, Staying
<1>4. Sees(Idle, users', facts')
  BY DEF Sees, Ahead, Idle
<1>5. Remembers(u)
  BY <1>1 DEF Remembers
<1>6. ASSUME clean'
      PROVE  RowsFlagged' /\ RequestsCarried' /\ LevelsKept /\ SessionsKept
  BY <1>1, <1>2, <1>5, <1>6, NoCompany, ColumnClean
<1> QED BY <1>1, <1>3, <1>4, <1>6, MovesOn

\* The table of requests changes, but only COMPLETED needs anything.
LEMMA RequestsMove ==
    ASSUME AccInv, RowsFlagged, RequestsCarried, NEW r \in RequestIds,
           NEW row \in DataDeletionRequest, StoreRequest(r, row), UNCHANGED <<users, facts>>,
           users[row.user] # Absent,
           row.status = "COMPLETED" => users[row.user].email = Erased
    PROVE  RowsFlagged' /\ RequestsCarried' /\ LevelsKept /\ SessionsKept
<1>1. \A q \in RequestIds : deletions'[q] = IF q = r THEN row ELSE deletions[q]
  BY DEF StoreRequest, AccInv, Typed
<1>2. RequestsCarried'
  BY <1>1 DEF RequestsCarried
<1>3. RowsFlagged'
  BY DEF RowsFlagged
<1>4. LevelsKept
  <2> SUFFICES ASSUME NEW v \in AccountIds, users[v] # Absent
               PROVE  users[v].verificationLevel >= users[v].verificationLevel
    BY DEF LevelsKept
  <2>1. users[v].verificationLevel \in 0..4
    BY TheUser, UserFields DEF VerificationLevel
  <2> QED BY <2>1
<1>5. SessionsKept
  BY DEF SessionsKept
<1> QED BY <1>2, <1>3, <1>4, <1>5

LEMMA ReviewClean ==
    ASSUME AccInv, CleanInv, NEW h \in Handlers, NEW r \in RequestIds,
           NEW status \in {"APPROVED", "REJECTED"}, Review(h, r, status)
    PROVE  CleanInv' /\ Kept
<1> DEFINE row == [deletions[r] EXCEPT !.status = status]
<1>1. /\ deletions[r] # Absent /\ StoreRequest(r, row) /\ UNCHANGED <<users, facts, calls>>
      /\ Moves(h) /\ calls[h] = Idle
  BY DEF Review, Accept, SetStatus, Moves
<1>2. deletions[r] \in DataDeletionRequest
  BY <1>1 DEF AccInv, Typed
<1>3. row \in DataDeletionRequest /\ row.user = deletions[r].user /\ row.status # "COMPLETED"
  BY <1>2 DEF DataDeletionRequest, DeletionStatus
<1> HIDE DEF row
<1>4. calls' = [calls EXCEPT ![h] = Idle]
  BY <1>1, Staying
<1>5. Sees(Idle, users', facts')
  BY DEF Sees, Ahead, Idle
<1>6. ASSUME clean'
      PROVE  RowsFlagged' /\ RequestsCarried' /\ LevelsKept /\ SessionsKept
  <2>1. RowsFlagged /\ RequestsCarried
    BY <1>1, <1>6, NoCompany
  <2>2. users[row.user] # Absent
    BY <1>1, <1>3, <2>1 DEF RequestsCarried
  <2> QED BY <1>1, <1>3, <2>1, <2>2, RequestsMove
<1> QED BY <1>1, <1>4, <1>5, <1>6, MovesOn

LEMMA ExecuteDeletionClean ==
    ASSUME AccInv, CleanInv, NEW h \in Handlers, NEW r \in RequestIds, ExecuteDeletion(h, r)
    PROVE  CleanInv' /\ Kept
<1> DEFINE c == [Working(deletions[r].user, Execution) EXCEPT !.request = r]
<1>1. deletions[r] # Absent /\ Goto(h, c) /\ Accept(h) /\ UNCHANGED tables
  BY DEF ExecuteDeletion
<1>2. Execution # <<>> /\ Head(Execution) = "processing"
  BY Tails DEF Execution
<1>3. c.todo = Execution /\ c.user = deletions[r].user
  BY DEF Working, Idle
<1> HIDE DEF c
<1>4. clean => users[c.user] # Absent
  BY <1>1, <1>3 DEF CleanInv, RequestsCarried
<1> QED BY <1>1, <1>2, <1>3, <1>4, CleanWork

----------------------------------------------------------------------------
(* Steps that nothing overlaps                                             *)

LEMMA Going ==
    ASSUME NEW h, NEW s, At(h, s), UNCHANGED clean
    PROVE  Moves(h)
BY DEF At, Idle, Moves

\* What a handler sees when its await is over.
LEMMA RestSees ==
    ASSUME NEW c \in Call, c.todo # <<>>, Head(c.todo) # "selectUser", NEW us, NEW fs,
           Head(c.todo) \in {"processing", "anonymise"} => us[c.user] # Absent,
           Head(c.todo) = "anonymise" => us[c.user].email = Erased
    PROVE  Sees(Rest(c), us, fs)
<1>1. CASE Len(c.todo) = 1
  BY <1>1 DEF Rest, Sees, Ahead, Idle
<1>2. CASE Len(c.todo) # 1
  <2> DEFINE d == [c EXCEPT !.todo = Tail(c.todo)]
  <2>1. Rest(c) = d /\ c.todo \in Lists
    BY <1>2 DEF Rest, Call
  <2>2. d.todo = Tail(c.todo) /\ d.user = c.user
    BY DEF Call
  <2> HIDE DEF d
  <2>3. /\ d.todo # <<>>
        /\ Head(d.todo) \in {"setSession", "congratulate", "anonymise", "complete", "askMail",
                             "setMailToken"}
        /\ Head(d.todo) = "anonymise" => Head(c.todo) = "processing"
        /\ Head(d.todo) = "complete" => Head(c.todo) = "anonymise"
    BY <1>2, <2>1, <2>2, ListsLeft
  <2> QED BY <2>1, <2>2, <2>3 DEF Sees, Ahead
<1> QED BY <1>1, <1>2

\* A step that leaves the tables alone.
LEMMA StepClean ==
    ASSUME AccInv, CleanInv, NEW h \in Handlers, NEW d, calls' = [calls EXCEPT ![h] = d],
           calls[h] # Idle, UNCHANGED <<users, deletions, facts, clean>>,
           clean => Sees(d, users, facts)
    PROVE  CleanInv' /\ Kept
<1>1. Moves(h)
  BY DEF Moves
<1>2. ASSUME clean'
      PROVE  /\ RowsFlagged' /\ RequestsCarried' /\ LevelsKept /\ SessionsKept
             /\ Sees(d, users', facts')
  BY <1>1, <1>2, NoCompany, NoRowChanges
<1> QED BY <1>1, <1>2, MovesOn

LEMMA EndsClean ==
    ASSUME AccInv, CleanInv, NEW h \in Handlers, Goto(h, Idle), calls[h] # Idle,
           UNCHANGED <<users, deletions, facts, clean>>
    PROVE  CleanInv' /\ Kept
<1>1. calls' = [calls EXCEPT ![h] = Idle] /\ Sees(Idle, users, facts)
  BY DEF Goto, Sees, Ahead, Idle
<1> QED BY <1>1, StepClean

LEMMA InsertNewClean ==
    ASSUME AccInv, CleanInv, NEW h \in Handlers, NEW u \in AccountIds, InsertNew(h, u)
    PROVE  CleanInv' /\ Kept
<1> DEFINE c == calls[h]
           d == [c EXCEPT !.user = u, !.entity = Absent]
<1>1. /\ At(h, "insertNew") /\ facts[u] = {} /\ UNCHANGED <<deletions, was, told, clean>>
      /\ IF Taken(c.entity.email, u) THEN Goto(h, Idle) /\ UNCHANGED <<users, facts>>
         ELSE /\ users' = [users EXCEPT ![u] = c.entity]
              /\ Record(u, {"registered"})
              /\ Advance(h, d)
  BY DEF InsertNew, FreeIds, Unrequested
<1>2. /\ c \in Call /\ c.todo # <<>> /\ Head(c.todo) = "insertNew" /\ c.entity \in User
  BY <1>1, AtStep DEF Steps
<1>3. calls[h] # Idle /\ Moves(h)
  BY <1>1, Going DEF At, Idle
<1>4. CASE Taken(c.entity.email, u)
  BY <1>1, <1>3, <1>4, EndsClean
<1>5. CASE ~ Taken(c.entity.email, u)
  <2>1. /\ d \in Call /\ d.todo = c.todo
    BY <1>2 DEF Call
  <2>2. calls' = [calls EXCEPT ![h] = Rest(d)]
    BY <1>1, <1>5, AdvanceIsRest
  <2> HIDE DEF d
  <2>3. Sees(Rest(d), users', facts')
    BY <1>2, <2>1, RestSees
  <2>4. Remembers(u) /\ "registered" \in facts'[u]
    BY <1>1, <1>5 DEF Remembers, Record, AccInv, Typed
  <2>5. ASSUME clean'
        PROVE  RowsFlagged' /\ RequestsCarried' /\ LevelsKept /\ SessionsKept
    <3>1. RowsFlagged /\ RequestsCarried /\ Sees(c, users, facts)
      BY <1>3, <2>5, NoCompany DEF CallsSeen
    <3>2. users[u] = Absent /\ Flagged(c.entity)
      BY <1>1, <1>2, <3>1 DEF RowsFlagged, Sees, Ahead
    <3>3. \A r \in RequestIds : ~ (deletions[r] # Absent /\ deletions[r].user = u)
      BY <3>1, <3>2 DEF RequestsCarried
    <3>4. users' = [users EXCEPT ![u] = c.entity]
      BY <1>1, <1>5
    <3> QED BY <1>1, <1>2, <2>4, <3>1, <3>2, <3>3, <3>4, RowChanges
  <2> QED BY <1>3, <2>2, <2>3, <2>5, MovesOn
<1> QED BY <1>4, <1>5

\* setRefreshToken and the token of the mail
LEMMA TokenClean ==
    ASSUME AccInv, CleanInv, NEW h \in Handlers,
           NEW s \in {"setSession", "renewSession", "setMailToken"}, At(h, s),
           NEW c \in {"refreshToken", "emailVerificationToken"},
           c = "refreshToken" => s # "setMailToken",
           NEW new, DOMAIN new = {c}, new[c] = TRUE, SetColumns(calls[h].user, new),
           Advance(h, calls[h]), UNCHANGED <<deletions, facts, clean>>
    PROVE  CleanInv' /\ Kept
<1>1. /\ calls[h] \in Call /\ calls[h].todo # <<>> /\ Head(calls[h].todo) = s
      /\ calls[h].user \in AccountIds
  BY AtStep DEF Steps
<1>2. calls' = [calls EXCEPT ![h] = Rest(calls[h])] /\ Moves(h)
  BY AdvanceIsRest, Going
<1>3. Sees(Rest(calls[h]), users', facts')
  BY <1>1, RestSees
<1>4. Remembers(calls[h].user)
  BY DEF Remembers
<1>5. ASSUME clean'
      PROVE  RowsFlagged' /\ RequestsCarried' /\ LevelsKept /\ SessionsKept
  <2>1. RowsFlagged /\ RequestsCarried /\ Sees(calls[h], users, facts)
    BY <1>2, <1>5, NoCompany DEF CallsSeen
  <2>2. c = "refreshToken" /\ users[calls[h].user] # Absent =>
           \/ users[calls[h].user].refreshToken
           \/ \E g \in Handlers : At(g, "setSession") /\ calls[g].user = calls[h].user
    BY <1>1, <2>1 DEF Sees, Ahead
  <2> QED BY <1>1, <1>4, <2>1, <2>2, ColumnClean
<1> QED BY <1>2, <1>3, <1>5, MovesOn

LEMMA SetSessionClean ==
    ASSUME AccInv, CleanInv, NEW h \in Handlers, SetSession(h)
    PROVE  CleanInv' /\ Kept
<1> DEFINE new == [refreshToken |-> TRUE]
<1>1. /\ At(h, "setSession") \/ At(h, "renewSession")
      /\ SetColumns(calls[h].user, new) /\ Advance(h, calls[h])
      /\ UNCHANGED <<deletions, facts, clean>>
  BY DEF SetSession, Unrequested
<1>2. DOMAIN new = {"refreshToken"} /\ new["refreshToken"] = TRUE
  OBVIOUS
<1> HIDE DEF new
<1> QED BY <1>1, <1>2, TokenClean

LEMMA SetMailTokenClean ==
    ASSUME AccInv, CleanInv, NEW h \in Handlers, SetMailToken(h)
    PROVE  CleanInv' /\ Kept
<1> DEFINE new == [emailVerificationToken |-> TRUE]
<1>1. /\ At(h, "setMailToken")
      /\ SetColumns(calls[h].user, new) /\ Advance(h, calls[h])
      /\ UNCHANGED <<deletions, facts, clean>>
  BY DEF SetMailToken, Unrequested
<1>2. DOMAIN new = {"emailVerificationToken"} /\ new["emailVerificationToken"] = TRUE
  OBVIOUS
<1> HIDE DEF new
<1> QED BY <1>1, <1>2, TokenClean

LEMMA AskMailClean ==
    ASSUME AccInv, CleanInv, NEW h \in Handlers, AskMail(h)
    PROVE  CleanInv' /\ Kept
<1>1. /\ At(h, "askMail") /\ UNCHANGED <<users, deletions, facts, clean>>
      /\ Goto(h, Idle) \/ Advance(h, calls[h])
  BY DEF AskMail, Unrequested, tables
<1>2. calls[h] # Idle
  BY <1>1 DEF At, Idle
<1>3. CASE Goto(h, Idle)
  BY <1>1, <1>2, <1>3, EndsClean
<1>4. CASE Advance(h, calls[h])
  <2>1. Sees(Rest(calls[h]), users, facts)
    BY <1>1, AtStep, RestSees DEF Steps
  <2> QED BY <1>1, <1>2, <1>4, <2>1, AdvanceIsRest, StepClean
<1> QED BY <1>1, <1>3, <1>4

LEMMA SelectUserClean ==
    ASSUME AccInv, CleanInv, NEW h \in Handlers, SelectUser(h)
    PROVE  CleanInv' /\ Kept
<1> DEFINE c == calls[h]
           row == users[c.user]
           dirty == Dirty(c.entity, row)
           list(s) == <<s>> \o Tail(c.todo)
           ins == [c EXCEPT !.todo = list("insertUser")]
           upd == [c EXCEPT !.todo = list("updateUser"), !.cols = dirty]
           d == IF row = Absent THEN ins ELSE upd
<1>1. /\ At(h, "selectUser") /\ UNCHANGED <<users, deletions, facts, clean>>
      /\ calls' = [calls EXCEPT ![h] = d]
  BY DEF SelectUser, Unrequested, Goto, tables
<1>2. /\ c \in Call /\ c.todo \in Lists /\ c.todo # <<>> /\ Head(c.todo) = "selectUser"
  BY <1>1, AtStep DEF Steps
<1>3. list("updateUser") # <<>> /\ Head(list("updateUser")) = "updateUser"
  BY <1>2, ListsSave
<1> HIDE DEF list, dirty
<1>4. /\ upd.todo = list("updateUser") /\ upd.user = c.user /\ upd.entity = c.entity
      /\ upd.cols = dirty
  BY <1>2 DEF Call
<1> HIDE DEF upd, ins
<1>5. ASSUME clean
      PROVE  Sees(d, users, facts)
  <2>1. row # Absent /\ Keeps(row, c.entity, facts[c.user])
    BY <1>2, <1>5 DEF CleanInv, CallsSeen, Sees, Ahead
  <2>2. d = upd
    BY <2>1
  <2>3. Sees(upd, users, facts)
    BY <1>3, <1>4, <2>1 DEF Sees, Ahead, dirty
  <2> QED BY <2>2, <2>3
<1>6. calls[h] # Idle
  BY <1>1 DEF At, Idle
<1> HIDE DEF d
<1> QED BY <1>1, <1>5, <1>6, StepClean

\* Nothing has changed since save looked: the row becomes the entity.
LEMMA PatchedIsEntity ==
    ASSUME NEW row \in User, NEW entity \in User
    PROVE  LET p == Patched(row, entity, Dirty(entity, row))
           IN  p \in User /\ \A c \in UserColumns : p[c] = entity[c]
<1>1. Dirty(entity, row) = {c \in UserColumns : entity[c] # row[c]}
  BY UserFields DEF Dirty
<1>2. Dirty(entity, row) \in SUBSET UserColumns
  BY <1>1
<1> QED BY <1>1, <1>2, PatchedUser

LEMMA WriteUserClean ==
    ASSUME AccInv, CleanInv, NEW h \in Handlers, WriteUser(h)
    PROVE  CleanInv' /\ Kept
<1> DEFINE c == calls[h]
           old == users[c.user]
           d == [c EXCEPT !.cols = {}]
           row == IF At(h, "insertUser") THEN c.entity ELSE Updated(old, c.entity, c.cols)
<1>1. /\ At(h, "updateUser") \/ At(h, "insertUser")
      /\ UNCHANGED <<deletions, facts, clean>>
      /\ IF Refused(c) THEN Goto(h, Idle) /\ UNCHANGED users
         ELSE users' = [users EXCEPT ![c.user] = row] /\ Advance(h, d)
  BY DEF WriteUser, Unrequested
<1>2. /\ c \in Call /\ c.todo # <<>> /\ Head(c.todo) \in {"updateUser", "insertUser"}
      /\ c.user \in AccountIds /\ c.entity \in User
  BY <1>1, AtStep DEF Steps, Saves
<1>3. calls[h] # Idle /\ Moves(h)
  BY <1>1, Going DEF At, Idle
<1>4. CASE Refused(c)
  BY <1>1, <1>3, <1>4, EndsClean
<1>5. CASE ~ Refused(c)
  <2>1. d \in Call /\ d.todo = c.todo
    BY <1>2 DEF Call
  <2>2. calls' = [calls EXCEPT ![h] = Rest(d)]
    BY <1>1, <1>5, AdvanceIsRest
  <2> HIDE DEF d
  <2>3. Sees(Rest(d), users', facts')
    BY <1>2, <2>1, RestSees
  <2>4. Remembers(c.user)
    BY <1>1 DEF Remembers
  <2>5. ASSUME clean'
        PROVE  RowsFlagged' /\ RequestsCarried' /\ LevelsKept /\ SessionsKept
    <3>1. RowsFlagged /\ RequestsCarried /\ Sees(c, users, facts)
      BY <1>3, <2>5, NoCompany DEF CallsSeen
    <3>2. /\ Head(c.todo) = "updateUser" /\ old # Absent
          /\ Keeps(old, c.entity, facts[c.user]) /\ c.cols = Dirty(c.entity, old)
      BY <1>2, <3>1 DEF Sees, Ahead
    <3>3. old \in User /\ Flagged(old) /\ "registered" \in facts[c.user]
      BY <1>2, <3>1, <3>2, TheUser DEF RowsFlagged
    <3>4. row = Patched(old, c.entity, Dirty(c.entity, old))
      BY <3>2 DEF At, Updated
    <3> HIDE DEF row
    <3>5. row \in User /\ \A k \in UserColumns : row[k] = c.entity[k]
      BY <1>2, <3>3, <3>4, PatchedIsEntity
    <3>6. /\ row.verificationLevel = c.entity.verificationLevel
          /\ row.verified = c.entity.verified /\ row.phoneVerified = c.entity.phoneVerified
          /\ row.idVerified = c.entity.idVerified
          /\ row.advancedVerified = c.entity.advancedVerified
          /\ row.idDocumentFront = c.entity.idDocumentFront
          /\ row.refreshToken = c.entity.refreshToken /\ row.email = c.entity.email
      BY <3>5 DEF UserColumns
    <3>7. Flagged(row)
      BY <3>2, <3>6 DEF Keeps, Flagged
    <3>8. /\ row.verificationLevel >= old.verificationLevel
          /\ row.refreshToken = old.refreshToken
          /\ row.email = old.email \/ "renamed" \in facts'[c.user]
      BY <1>1, <3>2, <3>6 DEF Keeps
    <3>9. row # Absent
      BY <3>5, AbsentIsNoRow
    <3>10. users' = [users EXCEPT ![c.user] = row]
      BY <1>1, <1>5 DEF row
    <3> QED BY <1>1, <1>2, <2>4, <3>1, <3>3, <3>5, <3>7, <3>8, <3>9, <3>10, RowChanges
  <2> QED BY <1>3, <2>2, <2>3, <2>5, MovesOn
<1> QED BY <1>4, <1>5

LEMMA CongratulateClean ==
    ASSUME AccInv, CleanInv, NEW h \in Handlers, Congratulate(h)
    PROVE  CleanInv' /\ Kept
<1>1. /\ At(h, "congratulate") /\ Advance(h, calls[h])
      /\ UNCHANGED <<users, deletions, facts, clean>>
  BY DEF Congratulate, tables
<1>2. Sees(Rest(calls[h]), users, facts)
  BY <1>1, AtStep, RestSees DEF Steps
<1>3. calls[h] # Idle
  BY <1>1 DEF At, Idle
<1> QED BY <1>1, <1>2, <1>3, AdvanceIsRest, StepClean

LEMMA DeleteUserClean ==
    ASSUME AccInv, CleanInv, NEW h \in Handlers, DeleteUser(h)
    PROVE  CleanInv' /\ Kept
<1> DEFINE u == calls[h].user
           asked == \E r \in RequestIds : deletions[r] # Absent /\ deletions[r].user = u
<1>1. /\ At(h, "deleteUser") /\ Advance(h, calls[h]) /\ UNCHANGED <<deletions, facts, clean>>
      /\ users' = IF asked THEN users ELSE [users EXCEPT ![u] = Absent]
  BY DEF DeleteUser, Unrequested
<1>2. /\ calls[h] \in Call /\ calls[h].todo # <<>> /\ Head(calls[h].todo) = "deleteUser"
      /\ u \in AccountIds
  BY <1>1, AtStep DEF Steps, Saves
<1>3. Moves(h) /\ calls' = [calls EXCEPT ![h] = Rest(calls[h])]
  BY <1>1, Going, AdvanceIsRest
<1>4. Sees(Rest(calls[h]), users', facts')
  BY <1>2, RestSees
<1>5. Remembers(u)
  BY <1>1 DEF Remembers
<1>6. ASSUME clean'
      PROVE  RowsFlagged' /\ RequestsCarried' /\ LevelsKept /\ SessionsKept
  <2>1. RowsFlagged /\ RequestsCarried
    BY <1>3, <1>6, NoCompany
  <2>2. CASE asked
    BY <1>1, <2>1, <2>2, NoRowChanges
  <2>3. CASE ~ asked
    BY <1>1, <1>2, <1>5, <2>1, <2>3, RowChanges
  <2> QED BY <2>2, <2>3
<1> QED BY <1>3, <1>4, <1>6, MovesOn

LEMMA InsertRequestClean ==
    ASSUME AccInv, CleanInv, NEW h \in Handlers, NEW r \in RequestIds, InsertRequest(h, r)
    PROVE  CleanInv' /\ Kept
<1> DEFINE u == calls[h].user
           row == [user |-> u, status |-> "PENDING"]
<1>1. /\ At(h, "insertRequest") /\ Advance(h, calls[h]) /\ UNCHANGED <<users, facts, clean>>
      /\ IF users[u] = Absent THEN UNCHANGED <<deletions, was>> ELSE StoreRequest(r, row)
  BY DEF InsertRequest, Unrequested
<1>2. /\ calls[h] \in Call /\ calls[h].todo # <<>> /\ Head(calls[h].todo) = "insertRequest"
      /\ u \in AccountIds
  BY <1>1, AtStep DEF Steps, Saves
<1>3. /\ row \in DataDeletionRequest /\ row.user = u /\ row.status # "COMPLETED"
  BY <1>2 DEF DataDeletionRequest, DeletionStatus
<1> HIDE DEF row
<1>4. Moves(h) /\ calls' = [calls EXCEPT ![h] = Rest(calls[h])]
  BY <1>1, Going, AdvanceIsRest
<1>5. Sees(Rest(calls[h]), users', facts')
  BY <1>2, RestSees
<1>6. ASSUME clean'
      PROVE  RowsFlagged' /\ RequestsCarried' /\ LevelsKept /\ SessionsKept
  <2>1. RowsFlagged /\ RequestsCarried
    BY <1>4, <1>6, NoCompany
  <2>2. CASE users[u] = Absent
    BY <1>1, <2>1, <2>2, NoRowChanges
  <2>3. CASE users[u] # Absent
    BY <1>1, <1>3, <2>1, <2>3, RequestsMove
  <2> QED BY <2>2, <2>3
<1> QED BY <1>4, <1>5, <1>6, MovesOn

LEMMA MarkClean ==
    ASSUME AccInv, CleanInv, NEW h \in Handlers,
           NEW s \in {"processing", "complete", "reject"},
           NEW status \in {"PROCESSING", "COMPLETED", "REJECTED"},
           status = "COMPLETED" => s = "complete", Mark(h, s, status)
    PROVE  CleanInv' /\ Kept
<1> DEFINE c == calls[h]
           r == calls[h].request
           row == [deletions[r] EXCEPT !.status = status]
<1>1. /\ At(h, s) /\ StoreRequest(r, row) /\ Advance(h, c) /\ UNCHANGED <<users, facts, clean>>
  BY DEF Mark, SetStatus, Unrequested
<1>2. /\ c \in Call /\ c.todo # <<>> /\ Head(c.todo) = s /\ c.user \in AccountIds
      /\ r \in RequestIds /\ deletions[r] # Absent
      /\ s \in {"processing", "complete"} => deletions[r].user = c.user
  BY <1>1, AtStep DEF Steps, Saves
<1>3. deletions[r] \in DataDeletionRequest
  BY <1>2 DEF AccInv, Typed
<1>4. row \in DataDeletionRequest /\ row.user = deletions[r].user /\ row.status = status
  BY <1>3 DEF DataDeletionRequest, DeletionStatus
<1> HIDE DEF row
<1>5. Moves(h) /\ calls' = [calls EXCEPT ![h] = Rest(c)]
  BY <1>1, Going, AdvanceIsRest
<1>6. ASSUME clean'
      PROVE  /\ RowsFlagged' /\ RequestsCarried' /\ LevelsKept /\ SessionsKept
             /\ Sees(Rest(c), users', facts')
  <2>1. RowsFlagged /\ RequestsCarried /\ Sees(c, users, facts)
    BY <1>5, <1>6, NoCompany DEF CallsSeen
  <2>2. users[row.user] # Absent
    BY <1>2, <1>4, <2>1 DEF RequestsCarried
  <2>3. status = "COMPLETED" => users[row.user].email = Erased
    BY <1>2, <1>4, <2>1 DEF Sees, Ahead
  <2>4. Sees(Rest(c), users', facts')
    BY <1>1, <1>2, <2>1, RestSees DEF Sees, Ahead
  <2> QED BY <1>1, <1>2, <1>4, <2>1, <2>2, <2>3, <2>4, RequestsMove
<1> QED BY <1>5, <1>6, MovesOn

LEMMA AnonymiseClean ==
    ASSUME AccInv, CleanInv, NEW h \in Handlers, Anonymise(h)
    PROVE  CleanInv' /\ Kept
<1> DEFINE c == calls[h]
           new == [email |-> Erased]
<1>1. /\ At(h, "anonymise") /\ SetColumns(c.user, new) /\ Advance(h, c)
      /\ facts' = [facts EXCEPT ![c.user] = @ \ {"renamed"}] /\ UNCHANGED <<deletions, clean>>
  BY DEF Anonymise, Unrequested
<1>2. DOMAIN new = {"email"} /\ new["email"] = Erased
  OBVIOUS
<1> HIDE DEF new
<1>3. /\ c \in Call /\ c.todo # <<>> /\ Head(c.todo) = "anonymise" /\ c.user \in AccountIds
  BY <1>1, AtStep DEF Steps, Saves
<1>4. Moves(h) /\ calls' = [calls EXCEPT ![h] = Rest(c)]
  BY <1>1, Going, AdvanceIsRest
<1>5. Remembers(c.user)
  BY <1>1 DEF Remembers, AccInv, Typed
<1>6. ASSUME clean'
      PROVE  /\ RowsFlagged' /\ RequestsCarried' /\ LevelsKept /\ SessionsKept
             /\ Sees(Rest(c), users', facts')
  <2>1. RowsFlagged /\ RequestsCarried /\ Sees(c, users, facts)
    BY <1>4, <1>6, NoCompany DEF CallsSeen
  <2>2. users[c.user] # Absent
    BY <1>3, <2>1 DEF Sees, Ahead
  <2>3. /\ RowsFlagged' /\ RequestsCarried' /\ LevelsKept /\ SessionsKept
        /\ users'[c.user] # Absent /\ users'[c.user].email = Erased
    BY <1>1, <1>2, <1>3, <1>5, <2>1, <2>2, ColumnClean
  <2>4. Sees(Rest(c), users', facts')
    BY <1>3, <2>3, RestSees
  <2> QED BY <2>3, <2>4
<1> QED BY <1>4, <1>6, MovesOn

LEMMA ExecutionFailsClean ==
    ASSUME AccInv, CleanInv, NEW h \in Handlers, ExecutionFails(h)
    PROVE  CleanInv' /\ Kept
<1> DEFINE d == [calls[h] EXCEPT !.todo = <<"reject">>]
<1>1. /\ At(h, "anonymise") \/ At(h, "complete")
      /\ calls' = [calls EXCEPT ![h] = d] /\ UNCHANGED <<users, deletions, facts, clean>>
  BY DEF ExecutionFails, Goto, tables
<1>2. calls[h] # Idle /\ calls[h] \in Call
  BY <1>1, TheCall DEF At, Idle
<1>3. d.todo = <<"reject">> /\ Head(<<"reject">>) = "reject"
  BY <1>2, Tails DEF Call
<1> HIDE DEF d
<1>4. Sees(d, users, facts)
  BY <1>3 DEF Sees, Ahead
<1> QED BY <1>1, <1>2, <1>4, StepClean

----------------------------------------------------------------------------
(* What clean executions keep                                              *)

LEMMA RequestClean ==
    ASSUME AccInv, CleanInv, NEW h \in Handlers, Request(h)
    PROVE  CleanInv' /\ Kept
<1>1. ASSUME NEW email \in Emails, NEW phone \in Phones,
             Create(h, email, phone) \/ Register(h, email, phone)
      PROVE  CleanInv' /\ Kept
  BY <1>1, NewcomerClean
<1>2. ASSUME NEW u \in AccountIds, NEW email \in Emails \cup {Erased}, NEW phone \in Phones,
             Update(h, u, email, phone)
      PROVE  CleanInv' /\ Kept
  BY <1>2, UpdateClean
<1>3. ASSUME NEW u \in AccountIds,
             \/ Remove(h, u) \/ Login(h, u) \/ RefreshTokens(h, u)
             \/ SendEmailVerification(h, u) \/ RequestDataDeletion(h, u)
      PROVE  CleanInv' /\ Kept
  BY <1>3, WorkClean
<1>4. ASSUME NEW u \in AccountIds,
             \/ Logout(h, u) \/ VerifyEmail(h, u) \/ VerifyPhone(h, u)
             \/ ApproveIdVerification(h, u) \/ ApproveAdvancedVerification(h, u)
      PROVE  CleanInv' /\ Kept
  BY <1>4, LogoutClean, VerifyEmailClean, VerifyPhoneClean, ApproveIdVerificationClean,
     ApproveAdvancedVerificationClean
<1>5. ASSUME NEW u \in AccountIds, NEW phone \in Phones, RequestPhoneVerification(h, u, phone)
      PROVE  CleanInv' /\ Kept
  BY <1>5, RequestPhoneVerificationClean
<1>6. ASSUME NEW u \in AccountIds, NEW document \in Documents, UploadIdDocument(h, u, document)
      PROVE  CleanInv' /\ Kept
  BY <1>6, UploadIdDocumentClean
<1>7. ASSUME NEW r \in RequestIds, NEW status \in {"APPROVED", "REJECTED"}, Review(h, r, status)
      PROVE  CleanInv' /\ Kept
  BY <1>7, ReviewClean
<1>8. ASSUME NEW r \in RequestIds, ExecuteDeletion(h, r)
      PROVE  CleanInv' /\ Kept
  BY <1>8, ExecuteDeletionClean
<1> QED BY <1>1, <1>2, <1>3, <1>4, <1>5, <1>6, <1>7, <1>8 DEF Request

LEMMA StepsClean ==
    ASSUME AccInv, CleanInv, NEW h \in Handlers, Step(h)
    PROVE  CleanInv' /\ Kept
<1>1. CASE \/ Mark(h, "processing", "PROCESSING") \/ Mark(h, "complete", "COMPLETED")
           \/ Mark(h, "reject", "REJECTED")
  BY <1>1, MarkClean
<1>2. CASE \/ \E u \in AccountIds : InsertNew(h, u)
           \/ \E r \in RequestIds : InsertRequest(h, r)
  BY <1>2, InsertNewClean, InsertRequestClean
<1>3. CASE \/ SetSession(h) \/ AskMail(h) \/ SetMailToken(h) \/ SelectUser(h) \/ WriteUser(h)
           \/ Congratulate(h) \/ DeleteUser(h) \/ Anonymise(h)
  BY <1>3, SetSessionClean, AskMailClean, SetMailTokenClean, SelectUserClean, WriteUserClean,
     CongratulateClean, DeleteUserClean, AnonymiseClean
<1> QED BY <1>1, <1>2, <1>3 DEF Step

LEMMA CleanNext ==
    ASSUME AccInv, CleanInv, [Next]_vars
    PROVE  CleanInv' /\ (Kept \/ UNCHANGED vars)
<1>1. CASE UNCHANGED vars
  BY <1>1 DEF vars, CleanInv, Alone, RowsFlagged, RequestsCarried, CallsSeen
<1>2. ASSUME NEW h \in Handlers, Fail(h)
      PROVE  CleanInv' /\ Kept
  BY <1>2, EndsClean DEF Fail, tables
<1>3. ASSUME NEW h \in Handlers, Request(h) \/ Step(h) \/ ExecutionFails(h)
      PROVE  CleanInv' /\ Kept
  BY <1>3, RequestClean, StepsClean, ExecutionFailsClean
<1> QED BY <1>1, <1>2, <1>3 DEF Next

\* The account there is at the start has the flags of its level.
LEMMA CleanInit ==
    ASSUME Init
    PROVE  CleanInv
<1>1. PICK u \in AccountIds, email \in Emails, phone \in Phones, level \in StartLevels,
           given \in StartDocuments :
          /\ given # {} => level >= 2
          /\ users = [v \in AccountIds |-> IF v # u THEN Absent
                 ELSE UserAt(email, phone, level, given)]
          /\ facts = [v \in AccountIds |-> IF v # u THEN {} ELSE Done(level, given)]
  BY DEF Init
<1> DEFINE row == UserAt(email, phone, level, given)
<1>2. level \in 0..4
  BY AccountConstants DEF VerificationLevel
<1>3. /\ row.verificationLevel = level /\ row.verified = (level >= 1)
      /\ row.phoneVerified = (level >= 2) /\ row.idVerified = (level >= 3)
      /\ row.advancedVerified = (level = 4)
      /\ row.idDocumentFront = ("idDocumentFront" \in given)
  BY DEF UserAt
<1>4. /\ \A v \in AccountIds : users[v] = IF v # u THEN Absent ELSE row
      /\ \A v \in AccountIds : facts[v] = IF v # u THEN {} ELSE Done(level, given)
  BY <1>1
<1>5. "registered" \in Done(level, given)
  BY DEF Done
<1> HIDE DEF row
<1>6. row.idDocumentFront => level >= 2
  BY <1>1, <1>3
<1>7. Flagged(row)
  BY <1>2, <1>3, <1>6 DEF Flagged
<1>8. RowsFlagged
  BY <1>4, <1>5, <1>7 DEF RowsFlagged
<1>9. /\ deletions = [r \in RequestIds |-> Absent] /\ calls = [h \in Handlers |-> Idle]
  BY DEF Init
<1>10. RequestsCarried /\ Alone /\ CallsSeen
  BY <1>9 DEF RequestsCarried, Alone, CallsSeen, Sees, Ahead, Idle
<1> QED BY <1>8, <1>10 DEF CleanInv

\* As long as no two requests have overlapped, rows and handlers are as CleanInv
\* says, also after requests have failed half way.
THEOREM CleanInvariance == Spec => []CleanInv
<1>1. Init => CleanInv
  BY CleanInit
<1>2. AccInv /\ CleanInv /\ [Next]_vars => CleanInv'
  BY CleanNext
<1> QED BY <1>1, <1>2, AccInvariance, PTL DEF Spec

\* Then the flags of a user are those of the level, whichever way of verifying
\* and of changing the profile led to it.
THEOREM FlagsFollowLevels == Spec => []FlagsMatchLevel
<1>1. CleanInv => FlagsMatchLevel
  BY DEF CleanInv, RowsFlagged, Flagged, FlagsMatchLevel
<1> QED BY <1>1, CleanInvariance, PTL

\* Then the user of a COMPLETED request is anonymous, unless the profile was
\* given another e-mail since: marking comes after anonymising.
THEOREM CompletionsWereCarriedOut == Spec => []CompletedMeansErased
<1>1. CleanInv => CompletedMeansErased
  BY DEF CleanInv, RequestsCarried, CompletedMeansErased
<1> QED BY <1>1, CleanInvariance, PTL

\* Then no save takes a level back.
THEOREM LevelsOnlyGrow == Spec => LevelNeverFalls
<1>1. AccInv /\ CleanInv /\ [Next]_vars
        => [\A u \in AccountIds :
              (users[u] # Absent /\ users'[u] # Absent /\ clean')
                  => users'[u].verificationLevel >= users[u].verificationLevel]_vars
  BY CleanNext DEF Kept, LevelsKept
<1> QED BY <1>1, AccInvariance, CleanInvariance, PTL DEF Spec, LevelNeverFalls

\* Then only a login brings a session back after a logout: neither a save of a
\* loaded row nor a refresh token does.
THEOREM LogoutsAreFinal == Spec => LoggedOutStaysOut
<1>1. AccInv /\ CleanInv /\ [Next]_vars
        => [\A u \in AccountIds :
              (users[u] # Absent /\ users'[u] # Absent /\ clean'
                /\ ~ users[u].refreshToken /\ users'[u].refreshToken)
                  => \E h \in Handlers : At(h, "setSession") /\ calls[h].user = u]_vars
  BY CleanNext DEF Kept, SessionsKept
<1> QED BY <1>1, AccInvariance, CleanInvariance, PTL DEF Spec, LoggedOutStaysOut
=============================================================================

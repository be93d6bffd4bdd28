--------------------------- MODULE Subscriptions ---------------------------
(***************************************************************************)
(* SubscriptionsService (src/modules/subscriptions/                        *)
(* subscriptions.service.ts): the subscriptions to one parking, their      *)
(* pauses, and their sharings with other users.                            *)
(*                                                                         *)
(* A handler is a record in calls: the awaits it still has ahead (todo, in *)
(* program order), the subscription it works on with the entity it will    *)
(* save and the columns save found dirty, the children that were loaded    *)
(* with it (seen), the pause or sharing it inserts or saves (key, item),   *)
(* and the date it took at its start (at).  What a handler does up to its  *)
(* first relevant await is one action, each later await is another.  The   *)
(* pauses and sharings have one column that changes, so that the two       *)
(* queries of their save amount to one.                                    *)
(*                                                                         *)
(* Other services remove users and the parking, and the rows that refer to *)
(* these go with them (onDelete: 'CASCADE').  A save then finds its row    *)
(* gone: its UPDATE meets none, or it inserts the copy again, which the    *)
(* foreign keys refuse unless what was removed is back, by a stale save of *)
(* its own (users.service.ts: update; Parkings has it of a parking).  Who  *)
(* is removed may be back for any later request.                           *)
(***************************************************************************)
EXTENDS Integers, Sequences, FiniteSetsExt, TypeOrm

CONSTANTS
    SubIds, PauseIds, SharingIds,   \* primary keys
    Users,
    Admins,         \* those whose role is 'admin'
    Handlers,       \* requests that can be in progress at the same time
    NoId,           \* no subscription, pause or sharing
    Starts,         \* the start dates clients ask for
    PauseDates,     \* the dates clients ask a pause to start or end at
    PlanLength,     \* how long the plan lasts
    Day,            \* ticks of the clock in a day
    MaxPauseDays,   \* the longest pause, 30 in the code
    Allowance,      \* the pauses of a subscription, 3 in the code
    DetachModes,    \* may save detach children that the entity does not have?
    MaxTime,        \* bound on the clock
    MaxRequests,    \* bound on the requests that clients send
    MaxFailures     \* bound on the handlers that die half way

VARIABLES
    subs,       \* the table of subscriptions: id -> row
    pauses,     \* the table of pauses: id -> row
    sharings,   \* the table of sharings: id -> row
    calls,      \* the handlers
    told,       \* the notifications created so far
    now,        \* the clock
    detaches,   \* how TypeORM treats children an entity does not have
    was,        \* history: id -> the statuses the subscription has had, and
                \* "deleted" once it was removed
    clean,      \* history: no two requests overlapped, none ended half way
    requests,   \* requests accepted so far
    failures    \* handlers that died so far

tables == <<subs, pauses, sharings, was>>
subVars == <<tables, calls, told, now, detaches, clean, requests, failures>>

ASSUME SubConstants ==
    /\ Admins \subseteq Users
    /\ NoId \notin SubIds \cup PauseIds \cup SharingIds
    /\ Starts \subseteq Nat /\ PauseDates \subseteq Nat /\ PlanLength \in Nat /\ Day \in Nat \ {0}
    /\ MaxPauseDays \in Nat /\ Allowance \in Nat
    /\ DetachModes \subseteq BOOLEAN
    /\ MaxTime \in Nat /\ MaxRequests \in Nat /\ MaxFailures \in Nat

Time == 0..MaxTime
SubscriptionStatus == {"active", "paused", "cancelled", "expired"}
History == SubscriptionStatus \cup {"deleted"}
SharingStatus == {"pending", "accepted", "rejected", "revoked"}

Subscription == [user: Users, start: Nat, end: Int, status: SubscriptionStatus,
                 autoRenew: BOOLEAN, used: Nat, remaining: Nat]
SubscriptionPause == [sub: SubIds, start: Nat, end: Nat]
SubscriptionSharing == [sub: SubIds, user: Users, status: SharingStatus]

ASSUME AbsentIsNoRow ==
    Absent \notin Subscription \cup SubscriptionPause \cup SubscriptionSharing

NoticeType == {"created", "newSubscriber", "paused", "resumed", "shared", "answered",
               "revoked"}
Steps == NoticeType \cup
    {"checkActive", "insertSub", "insertPause", "selectSub", "writeSub",
     "findPause", "endPause", "checkShared", "insertSharing", "writeSharing"}

Idle == [todo |-> <<>>, sub |-> NoId, entity |-> Absent, cols |-> {}, seen |-> {},
         key |-> NoId, item |-> Absent, at |-> 0]

PausesOf(s) == {p \in PauseIds : pauses[p] # Absent /\ pauses[p].sub = s}
SharingsOf(s) == {x \in SharingIds : sharings[x] # Absent /\ sharings[x].sub = s}

\* What findOne loads along with the subscription.
ChildrenOf(s) == PausesOf(s) \cup SharingsOf(s)

Store(s, row) ==
    /\ subs' = [subs EXCEPT ![s] = row]
    /\ was' = [was EXCEPT ![s] = @ \cup {row.status}]

Goto(h, c) == calls' = [calls EXCEPT ![h] = c]

\* A client's request reaches an idle handler.
Accept(h) ==
    /\ calls[h] = Idle
    /\ requests < MaxRequests
    /\ requests' = requests + 1
    /\ clean' = (clean /\ \A g \in Handlers : calls[g] = Idle)
    /\ UNCHANGED <<tables, told, now, detaches, failures>>

\* The next await of handler h is s.
At(h, s) == calls[h].todo # <<>> /\ Head(calls[h].todo) = s

\* It is over, and c is what the handler has become: on to the next one.
Advance(h, c) ==
    Goto(h, IF Len(c.todo) = 1 THEN Idle ELSE [c EXCEPT !.todo = Tail(@)])

\* Bound: every insert in progress can still be given a key.
KeysLeft(free, s) ==
    Cardinality({g \in Handlers : \E i \in 1..Len(calls[g].todo) : calls[g].todo[i] = s})
        < Cardinality(free)

\* Keys are fresh: of no row, and of none that a handler remembers.
Remembered == UNION {calls[g].seen \cup {calls[g].key} : g \in Handlers}
FreeSubs == {s \in SubIds : was[s] = {}}
FreePauses == {p \in PauseIds : pauses[p] = Absent} \ Remembered
FreeSharings == {x \in SharingIds : sharings[x] = Absent} \ Remembered

\* A handler that has loaded s and made it into entity.
Loaded(s, entity, todo) ==
    [Idle EXCEPT !.todo = todo, !.sub = s, !.entity = entity, !.seen = ChildrenOf(s)]

SaveSub == <<"selectSub", "writeSub">>

----------------------------------------------------------------------------
(* Faulty variants of definitions below, each a slip that a change of the  *)
(* code could bring; the properties at the end must notice them.           *)

PauseSteps_SaveFirst == SaveSub \o <<"insertPause", "paused">>
CanPause_NoAllowance(row) == row.status # "paused"
Answerable_Any(row) == TRUE
ActiveSubs_SameStart(entity) == {s \in SubIds : /\ subs[s] # Absent
                                                /\ subs[s].user = entity.user
                                                /\ subs[s].status = "active"
                                                /\ subs[s].autoRenew = entity.autoRenew}
Shortened_NotAtAll(row, pause, at) == row

----------------------------------------------------------------------------
(* Requests                                                                *)

\* create: the plan decides on the end; the start is not held against the
\* clock.  The look-up of an active subscription comes later.
Create(h, u, start, autoRenew) ==
    /\ Accept(h)
    /\ KeysLeft(FreeSubs, "insertSub")
    /\ Goto(h, [Idle EXCEPT
            !.todo = <<"checkActive", "insertSub", "created", "newSubscriber">>,
            !.entity = [user |-> u, start |-> start, end |-> start + PlanLength,
                        status |-> "active", autoRenew |-> autoRenew,
                        used |-> 0, remaining |-> Allowance]])

May(u, s) == subs[s] # Absent /\ (subs[s].user = u \/ u \in Admins)

Update(h, u, s, autoRenew) ==
    /\ Accept(h)
    /\ May(u, s)
    /\ Goto(h, Loaded(s, [subs[s] EXCEPT !.autoRenew = autoRenew], SaveSub))

\* cancel, whatever the status is.
Cancel(h, u, s) ==
    /\ Accept(h)
    /\ May(u, s)
    /\ Goto(h, Loaded(s, [subs[s] EXCEPT !.status = "cancelled"], SaveSub))

CanPause(row) == row.remaining > 0 /\ row.status # "paused"

\* Days of a pause, a begun one counting in full.
Days(start, end) == (end - start + Day - 1) \div Day

AsPaused(row, start, end) ==
    [row EXCEPT !.status = "paused", !.used = @ + 1, !.remaining = @ - 1,
                !.end = @ + Days(start, end) * Day]

PauseSteps == <<"insertPause">> \o SaveSub \o <<"paused">>

\* pauseSubscription, of a subscription in any status but paused: the pause is
\* inserted before the subscription, loaded with its earlier pauses, is saved.
PauseSubscription(h, u, s, start, end) ==
    /\ Accept(h)
    /\ KeysLeft(FreePauses, "insertPause")
    /\ May(u, s)
    /\ CanPause(subs[s])
    /\ start < end /\ start >= now /\ Days(start, end) <= MaxPauseDays
    /\ Goto(h, [Loaded(s, AsPaused(subs[s], start, end), PauseSteps) EXCEPT
                    !.item = [sub |-> s, start |-> start, end |-> end]])

ResumeSubscription(h, u, s) ==
    /\ Accept(h)
    /\ May(u, s)
    /\ subs[s].status = "paused"
    /\ Goto(h, [Loaded(s, [subs[s] EXCEPT !.status = "active"],
                       <<"findPause", "endPause">> \o SaveSub \o <<"resumed">>)
                    EXCEPT !.at = now])

\* shareSubscription, with any user that has an account.
ShareSubscription(h, u, s, target) ==
    /\ Accept(h)
    /\ KeysLeft(FreeSharings, "insertSharing")
    /\ subs[s] # Absent
    /\ subs[s].user = u
    /\ subs[s].status = "active"
    /\ Goto(h, [Idle EXCEPT
            !.todo = <<"checkShared", "insertSharing", "shared">>, !.sub = s,
            !.item = [sub |-> s, user |-> target, status |-> "pending"]])

Answerable(row) == row.status = "pending"

RespondToSharing(h, u, x, accept) ==
    /\ Accept(h)
    /\ sharings[x] # Absent
    /\ sharings[x].user = u
    /\ Answerable(sharings[x])
    /\ Goto(h, [Idle EXCEPT
            !.todo = <<"writeSharing", "answered">>, !.sub = sharings[x].sub, !.key = x,
            !.item = [sharings[x] EXCEPT !.status = IF accept THEN "accepted"
                                                    ELSE "rejected"]])

\* revokeSharing, whatever the status is.
RevokeSharing(h, u, x) ==
    /\ Accept(h)
    /\ sharings[x] # Absent
    /\ subs[sharings[x].sub].user = u
    /\ Goto(h, [Idle EXCEPT
            !.todo = <<"writeSharing", "revoked">>, !.sub = sharings[x].sub, !.key = x,
            !.item = [sharings[x] EXCEPT !.status = "revoked"]])

----------------------------------------------------------------------------
(* Steps of a handler after an await.                                      *)

\* The user's active subscriptions; a paused one does not count.
ActiveSubs(entity) == {s \in SubIds : /\ subs[s] # Absent
                                      /\ subs[s].user = entity.user
                                      /\ subs[s].status = "active"}

CheckActive(h) ==
    /\ At(h, "checkActive")
    /\ IF ActiveSubs(calls[h].entity) # {} THEN Goto(h, Idle) ELSE Advance(h, calls[h])
    /\ UNCHANGED <<tables, told, now, detaches, clean, requests, failures>>

InsertSub(h, s) ==
    /\ At(h, "insertSub")
    /\ was[s] = {}
    /\ Store(s, calls[h].entity)
    /\ Advance(h, [calls[h] EXCEPT !.sub = s, !.entity = Absent])
    /\ UNCHANGED <<pauses, sharings, told, now, detaches, clean, requests, failures>>

\* subscriptionId is a foreign key.
InsertPause(h, p) ==
    /\ At(h, "insertPause")
    /\ p \in FreePauses
    /\ subs[calls[h].sub] # Absent
    /\ pauses' = [pauses EXCEPT ![p] = calls[h].item]
    /\ Advance(h, [calls[h] EXCEPT !.item = Absent])
    /\ UNCHANGED <<subs, sharings, was, told, now, detaches, clean, requests, failures>>

\* First query of save.  Children that came after the entity was loaded would
\* be detached, their subscriptionId may not be null, and save throws.
Refused(c) == detaches /\ ~ (ChildrenOf(c.sub) \subseteq c.seen)

SelectSub(h) ==
    /\ At(h, "selectSub")
    /\ subs[calls[h].sub] # Absent
    /\ LET c == calls[h]
       IN  IF Refused(c) THEN Goto(h, Idle) /\ clean' = FALSE
           ELSE /\ Advance(h, [c EXCEPT !.cols = Dirty(c.entity, subs[c.sub])])
                /\ UNCHANGED clean
    /\ UNCHANGED <<tables, told, now, detaches, requests, failures>>

\* Or save finds no row and inserts the copy, which leaves it nothing to update.
RestoreSub(h) ==
    /\ At(h, "selectSub")
    /\ subs[calls[h].sub] = Absent
    /\ Store(calls[h].sub, calls[h].entity)
    /\ Advance(h, [calls[h] EXCEPT !.cols = {}])
    /\ UNCHANGED <<pauses, sharings, told, now, detaches, clean, requests, failures>>

WriteSub(h) ==
    /\ At(h, "writeSub")
    /\ LET c == calls[h]
       IN  /\ IF subs[c.sub] = Absent THEN UNCHANGED <<subs, was>>
              ELSE Store(c.sub, Patched(subs[c.sub], c.entity, c.cols))
           /\ Advance(h, [c EXCEPT !.entity = Absent, !.cols = {}])
    /\ UNCHANGED <<pauses, sharings, told, now, detaches, clean, requests, failures>>

\* A pause that has begun and not ended, any one of them.
ActivePauses(s, at) ==
    {p \in PausesOf(s) : pauses[p].start < at /\ pauses[p].end >= at}

\* What was left of the pause is taken off the end of the subscription.
Shortened(row, pause, at) == [row EXCEPT !.end = @ - (pause.end - at)]

FindPause(h) ==
    /\ At(h, "findPause")
    /\ LET c == calls[h]
           found == ActivePauses(c.sub, c.at)
       IN  \/ /\ found = {}
              /\ Goto(h, [c EXCEPT !.todo = Tail(Tail(@))])
           \/ \E p \in found :
                 Advance(h, [c EXCEPT !.key = p, !.item = [pauses[p] EXCEPT !.end = c.at],
                                      !.entity = Shortened(@, pauses[p], c.at)])
    /\ UNCHANGED <<tables, told, now, detaches, clean, requests, failures>>

\* What both queries of a save can leave of a row: the row with the columns it
\* updates, if there is one; else none, if the row went between the two, or the
\* copy, if it went before them and the subscription it belongs to is there.
SavedAs(row, copy, cols, parent) ==
    {Updated(row, copy, cols)} \cup {new \in {copy} : row = Absent /\ parent # Absent}

EndPause(h) ==
    /\ At(h, "endPause")
    /\ LET c == calls[h]
       IN  /\ \E row \in SavedAs(pauses[c.key], c.item, {"end"}, subs[c.sub]) :
                  pauses' = [pauses EXCEPT ![c.key] = row]
           /\ Advance(h, [c EXCEPT !.key = NoId])
    /\ UNCHANGED <<subs, sharings, was, told, now, detaches, clean, requests, failures>>

\* Only an accepted sharing with the same user stands in the way.
CheckShared(h) ==
    /\ At(h, "checkShared")
    /\ LET c == calls[h]
       IN  IF \E x \in SharingsOf(c.sub) : /\ sharings[x].user = c.item.user
                                           /\ sharings[x].status = "accepted"
           THEN Goto(h, Idle) ELSE Advance(h, c)
    /\ UNCHANGED <<tables, told, now, detaches, clean, requests, failures>>

InsertSharing(h, x) ==
    /\ At(h, "insertSharing")
    /\ x \in FreeSharings
    /\ subs[calls[h].sub] # Absent
    /\ sharings' = [sharings EXCEPT ![x] = calls[h].item]
    /\ Advance(h, [calls[h] EXCEPT !.item = Absent])
    /\ UNCHANGED <<subs, pauses, was, told, now, detaches, clean, requests, failures>>

WriteSharing(h) ==
    /\ At(h, "writeSharing")
    /\ LET c == calls[h]
       IN  /\ \E row \in SavedAs(sharings[c.key], c.item, {"status"}, subs[c.sub]) :
                  sharings' = [sharings EXCEPT ![c.key] = row]
           /\ Advance(h, c)
    /\ UNCHANGED <<subs, pauses, was, told, now, detaches, clean, requests, failures>>

\* What is to be inserted, for the first time or again, refers to something
\* that was removed.
Orphaned(h) ==
    /\ LET c == calls[h]
       IN  \/ /\ At(h, "insertPause") \/ At(h, "insertSharing") \/ At(h, "selectSub")
              /\ subs[c.sub] = Absent
           \/ At(h, "endPause") /\ pauses[c.key] = Absent
           \/ At(h, "writeSharing") /\ sharings[c.key] = Absent
    /\ Goto(h, Idle)
    /\ clean' = FALSE
    /\ UNCHANGED <<tables, told, now, detaches, requests, failures>>

\* A notification about the subscription.
Tell(h, type) ==
    /\ At(h, type)
    /\ told' = told \cup {<<type, calls[h].sub>>}
    /\ Advance(h, calls[h])
    /\ UNCHANGED <<tables, now, detaches, clean, requests, failures>>

----------------------------------------------------------------------------
(* Requests to other services, and what else happens.                      *)

AllIdle == \A h \in Handlers : calls[h] = Idle
Subscribed == {s \in SubIds : subs[s] # Absent}

\* The rows that refer to what was removed: subscriptions with their pauses
\* and sharings, and sharings with a user.  Other removals change nothing here.
Cascade(gone, lost) ==
    /\ requests < MaxRequests
    /\ requests' = requests + 1
    /\ clean' = (clean /\ AllIdle)
    /\ gone \cup lost # {}
    /\ subs' = [s \in SubIds |-> IF s \in gone THEN Absent ELSE subs[s]]
    /\ was' = [s \in SubIds |-> IF s \in gone THEN was[s] \cup {"deleted"} ELSE was[s]]
    /\ pauses' = [p \in PauseIds |->
            IF \E s \in gone : p \in PausesOf(s) THEN Absent ELSE pauses[p]]
    /\ sharings' = [x \in SharingIds |->
            IF x \in lost \/ \E s \in gone : x \in SharingsOf(s) THEN Absent ELSE sharings[x]]
    /\ UNCHANGED <<calls, told, now, detaches, failures>>

RemoveUser(u) ==
    Cascade({s \in Subscribed : subs[s].user = u},
            {x \in SharingIds : sharings[x] # Absent /\ sharings[x].user = u})

RemoveParking == Cascade(Subscribed, {})

\* A query fails or the replica is killed: what was written stays.
Fail(h) ==
    /\ calls[h] # Idle
    /\ failures < MaxFailures
    /\ failures' = failures + 1
    /\ clean' = FALSE
    /\ Goto(h, Idle)
    /\ UNCHANGED <<tables, told, now, detaches, requests>>

Tick ==
    /\ now < MaxTime
    /\ now' = now + 1
    /\ UNCHANGED <<tables, calls, told, detaches, clean, requests, failures>>

----------------------------------------------------------------------------
Init ==
    /\ subs = [s \in SubIds |-> Absent]
    /\ pauses = [p \in PauseIds |-> Absent]
    /\ sharings = [x \in SharingIds |-> Absent]
    /\ calls = [h \in Handlers |-> Idle]
    /\ told = {}
    /\ now = 0
    /\ detaches \in DetachModes
    /\ was = [s \in SubIds |-> {}]
    /\ clean = TRUE
    /\ requests = 0
    /\ failures = 0

Request(h, u) ==
    \/ \E start \in Starts, autoRenew \in BOOLEAN : Create(h, u, start, autoRenew)
    \/ \E s \in SubIds :
        \/ \E autoRenew \in BOOLEAN : Update(h, u, s, autoRenew)
        \/ Cancel(h, u, s)
        \/ \E start, end \in PauseDates : PauseSubscription(h, u, s, start, end)
        \/ ResumeSubscription(h, u, s)
        \/ \E target \in Users : ShareSubscription(h, u, s, target)
    \/ \E x \in SharingIds :
        \/ \E accept \in BOOLEAN : RespondToSharing(h, u, x, accept)
        \/ RevokeSharing(h, u, x)

Step(h) ==
    \/ CheckActive(h)
    \/ \E s \in SubIds : InsertSub(h, s)
    \/ \E p \in PauseIds : InsertPause(h, p)
    \/ SelectSub(h)
    \/ RestoreSub(h)
    \/ WriteSub(h)
    \/ FindPause(h)
    \/ EndPause(h)
    \/ CheckShared(h)
    \/ \E x \in SharingIds : InsertSharing(h, x)
    \/ WriteSharing(h)
    \/ Orphaned(h)
    \/ \E type \in NoticeType : Tell(h, type)

Next ==
    \/ \E h \in Handlers : \/ \E u \in Users : Request(h, u)
                           \/ Step(h)
                           \/ Fail(h)
    \/ \E u \in Users : RemoveUser(u)
    \/ RemoveParking
    \/ Tick

Spec == Init /\ [][Next]_subVars

----------------------------------------------------------------------------
(* What subscriptions promise, however requests interleave and fail.       *)

\* Every variable has its type: rows, handlers and history are what the
\* entities and the handlers of subscriptions.service.ts can build.
SubTypeOK ==
    /\ subs \in [SubIds -> Subscription \cup {Absent}]
    /\ pauses \in [PauseIds -> SubscriptionPause \cup {Absent}]
    /\ sharings \in [SharingIds -> SubscriptionSharing \cup {Absent}]
    /\ \A h \in Handlers :
        /\ calls[h].todo \in Seq(Steps)
        /\ calls[h].sub \in SubIds \cup {NoId}
        /\ calls[h].entity \in Subscription \cup {Absent}
        /\ calls[h].key \in PauseIds \cup SharingIds \cup {NoId}
        /\ calls[h].item \in SubscriptionPause \cup SubscriptionSharing \cup {Absent}
    /\ told \subseteq NoticeType \X SubIds
    /\ now \in Time
    /\ was \in [SubIds -> SUBSET History]

\* A subscription is charged for no pause that was not recorded, and what is
\* charged and what remains make up the allowance: pauseSubscription inserts
\* the pause first, and stale copies write both counters or neither.  One that
\* a stale save brought back keeps its charges, but its pauses are gone.
PausesAreCharged ==
    \A s \in Subscribed :
        /\ subs[s].used + subs[s].remaining = Allowance
        /\ subs[s].used <= Cardinality(PausesOf(s)) \/ "deleted" \in was[s]

----------------------------------------------------------------------------
(* What they promise as long as requests come one at a time and run to     *)
(* their end.                                                              *)

\* A user has two active subscriptions only if one of them was paused, and so
\* not seen by create, and resumed later.
TwoActiveOnlyByPausing ==
    clean => \A s1, s2 \in Subscribed :
        (/\ s1 # s2 /\ subs[s1].user = subs[s2].user
         /\ subs[s1].status = "active" /\ subs[s2].status = "active")
            => "paused" \in was[s1] \cup was[s2]

\* The end of a subscription is moved by the time it was paused for, rounded
\* up by less than a day per pause, also when it was resumed early.
EndMakesUpForPauses ==
    clean /\ AllIdle => \A s \in Subscribed :
        LET paused == MapThenSumSet(LAMBDA p : pauses[p].end - pauses[p].start, PausesOf(s))
            end == subs[s].start + PlanLength + paused
        IN  /\ subs[s].end >= end
            /\ subs[s].end <= end + (Day - 1) * Cardinality(PausesOf(s))

\* A sharing that was revoked is not accepted any more.
RevokedStaysRevoked ==
    [][\A x \in SharingIds :
          (/\ sharings[x] # Absent /\ sharings[x].status = "revoked"
           /\ sharings'[x] # Absent /\ clean')
              => sharings'[x].status = "revoked"]_subVars
=============================================================================

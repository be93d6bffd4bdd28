------------------------ MODULE SubscriptionsProofs ------------------------
(***************************************************************************)
(* Proofs about Subscriptions for any number of subscriptions, pauses,     *)
(* sharings, users and concurrent handlers.                                *)
(*                                                                         *)
(* A save writes the columns in which a copy differed from the row, at a   *)
(* moment when the row may have changed once more.  That the counters are  *)
(* right nevertheless is because they differ together or not at all, and   *)
(* because a copy is charged for no more pauses than were recorded when it *)
(* is saved: pauses go only with their subscription, and that a row which  *)
(* a stale save brings back was deleted stays in its history (Grown).      *)
(*                                                                         *)
(* While requests come one at a time and run to their end (CleanInv) what  *)
(* a handler has read is still so at each of its awaits; a save then makes *)
(* the row what the handler meant it to be, and the end that is about to   *)
(* be saved makes up for the pauses, also between the two saves of a pause *)
(* when the stored end does not yet.                                       *)
(***************************************************************************)
EXTENDS Subscriptions, TLAPS, FiniteSetTheorems, SequenceTheorems, WellFoundedInduction

SubColumns == {"user", "start", "end", "status", "autoRenew", "used", "remaining"}

\* The awaits a handler can have ahead of it.
Lists ==
    {<<>>,
     <<"checkActive", "insertSub", "created", "newSubscriber">>,
     <<"insertSub", "created", "newSubscriber">>,
     <<"created", "newSubscriber">>, <<"newSubscriber">>,
     <<"selectSub", "writeSub">>, <<"writeSub">>,
     <<"insertPause", "selectSub", "writeSub", "paused">>,
     <<"selectSub", "writeSub", "paused">>, <<"writeSub", "paused">>, <<"paused">>,
     <<"findPause", "endPause", "selectSub", "writeSub", "resumed">>,
     <<"endPause", "selectSub", "writeSub", "resumed">>,
     <<"selectSub", "writeSub", "resumed">>, <<"writeSub", "resumed">>, <<"resumed">>,
     <<"checkShared", "insertSharing", "shared">>, <<"insertSharing", "shared">>,
     <<"shared">>,
     <<"writeSharing", "answered">>, <<"answered">>,
     <<"writeSharing", "revoked">>, <<"revoked">>}

\* What can come after an await.
After(s) ==
    {t \in Steps :
        \/ s = "checkActive" /\ t = "insertSub"
        \/ s = "insertSub" /\ t = "created"
        \/ s = "created" /\ t = "newSubscriber"
        \/ s \in {"insertPause", "endPause"} /\ t = "selectSub"
        \/ s = "findPause" /\ t = "endPause"
        \/ s = "selectSub" /\ t = "writeSub"
        \/ s = "writeSub" /\ t \in {"paused", "resumed"}
        \/ s = "checkShared" /\ t = "insertSharing"
        \/ s = "insertSharing" /\ t = "shared"
        \/ s = "writeSharing" /\ t \in {"answered", "revoked"}}

Call == [todo : Lists, sub : SubIds \cup {NoId}, entity : Subscription \cup {Absent},
         cols : SUBSET SubColumns, seen : SUBSET (PauseIds \cup SharingIds),
         key : PauseIds \cup SharingIds \cup {NoId},
         item : SubscriptionPause \cup SubscriptionSharing \cup {Absent}, at : Nat]

Typed ==
    /\ subs \in [SubIds -> Subscription \cup {Absent}]
    /\ pauses \in [PauseIds -> SubscriptionPause \cup {Absent}]
    /\ sharings \in [SharingIds -> SubscriptionSharing \cup {Absent}]
    /\ calls \in [Handlers -> Call]
    /\ told \subseteq NoticeType \X SubIds
    /\ now \in Time
    /\ was \in [SubIds -> SUBSET History]

\* PausesOf, of a table of pauses.
Paused(s, ps) == {p \in PauseIds : ps[p] # Absent /\ ps[p].sub = s}

\* The counters of a row, when there are n pauses and the row has had a history.
Charged(row, n, had) ==
    row.used + row.remaining = Allowance /\ (row.used <= n \/ "deleted" \in had)

\* The rows that stand.
SubsCharged ==
    \A s \in SubIds : /\ IsFiniteSet(Paused(s, pauses))
                      /\ subs[s] # Absent =>
                            Charged(subs[s], Cardinality(Paused(s, pauses)), was[s])

\* What a handler knows when it comes to await s, whatever was removed since.
Knows(c, s, ps, ws) ==
    /\ s \in {"checkActive", "insertSub"} =>
            c.entity \in Subscription /\ Charged(c.entity, 0, {})
    /\ s \notin {"checkActive", "insertSub"} => c.sub \in SubIds
    /\ s = "insertPause" => /\ c.entity \in Subscription
                            /\ Charged(c.entity, Cardinality(Paused(c.sub, ps)) + 1, ws[c.sub])
                            /\ c.item \in SubscriptionPause /\ c.item.sub = c.sub
    /\ s \in {"findPause", "endPause", "selectSub", "writeSub"} =>
            /\ c.entity \in Subscription
            /\ Charged(c.entity, Cardinality(Paused(c.sub, ps)), ws[c.sub])
    /\ s = "writeSub" => ("used" \in c.cols <=> "remaining" \in c.cols)
    /\ s = "endPause" => /\ c.key \in PauseIds
                         /\ c.item \in SubscriptionPause /\ c.item.sub = c.sub
    /\ s \in {"checkShared", "insertSharing", "writeSharing"} =>
            c.item \in SubscriptionSharing /\ c.item.sub = c.sub
    /\ s = "writeSharing" => c.key \in SharingIds

CallBacked(c, ps, ws) == c.todo # <<>> => Knows(c, Head(c.todo), ps, ws)
CallsBacked == \A h \in Handlers : CallBacked(calls[h], pauses, was)

\* The status of a row is one it has had.
StatusKnown == \A s \in SubIds : subs[s] # Absent => subs[s].status \in was[s]

\* A sharing is of a subscription that there is.
SharingsStand ==
    \A x \in SharingIds : sharings[x] # Absent => subs[sharings[x].sub] # Absent

SubInv == Typed /\ SubsCharged /\ CallsBacked /\ StatusKnown /\ SharingsStand

----------------------------------------------------------------------------
(* Lists of awaits                                                         *)

\* Tuples of up to five awaits.
LEMMA Tails ==
    /\ \A a : Len(<<a>>) = 1 /\ Head(<<a>>) = a
    /\ \A a, b : /\ Len(<<a, b>>) = 2 /\ Head(<<a, b>>) = a
                 /\ Tail(<<a, b>>) = <<b>> /\ Head(Tail(<<a, b>>)) = b
    /\ \A a, b, c : /\ Len(<<a, b, c>>) = 3 /\ Head(<<a, b, c>>) = a
                    /\ Tail(<<a, b, c>>) = <<b, c>> /\ Head(Tail(<<a, b, c>>)) = b
    /\ \A a, b, c, d : /\ Len(<<a, b, c, d>>) = 4 /\ Head(<<a, b, c, d>>) = a
                       /\ Tail(<<a, b, c, d>>) = <<b, c, d>>
                       /\ Head(Tail(<<a, b, c, d>>)) = b
    /\ \A a, b, c, d, e : /\ Len(<<a, b, c, d, e>>) = 5 /\ Head(<<a, b, c, d, e>>) = a
                          /\ Tail(<<a, b, c, d, e>>) = <<b, c, d, e>>
                          /\ Head(Tail(<<a, b, c, d, e>>)) = b
OBVIOUS

LEMMA ListsAreSteps ==
    /\ Lists \subseteq Seq(Steps)
    /\ \A todo \in Lists : todo # <<>> => Head(todo) \in Steps
BY DEF Lists, Steps, NoticeType

\* What is left of a list, and what comes next.
LEMMA ListsLeft ==
    ASSUME NEW todo \in Lists, todo # <<>>, Len(todo) # 1
    PROVE  /\ Tail(todo) \in Lists /\ Tail(todo) # <<>>
           /\ Head(Tail(todo)) \in After(Head(todo))
<1>1. /\ Tail(todo) \in Lists /\ Tail(todo) # <<>>
      /\ <<Head(todo), Head(Tail(todo))>> \in
            {<<"checkActive", "insertSub">>, <<"insertSub", "created">>,
             <<"created", "newSubscriber">>, <<"selectSub", "writeSub">>,
             <<"insertPause", "selectSub">>, <<"writeSub", "paused">>,
             <<"findPause", "endPause">>, <<"endPause", "selectSub">>,
             <<"writeSub", "resumed">>, <<"checkShared", "insertSharing">>,
             <<"insertSharing", "shared">>, <<"writeSharing", "answered">>,
             <<"writeSharing", "revoked">>}
  <2>1. \/ todo = <<"checkActive", "insertSub", "created", "newSubscriber">>
        \/ todo = <<"insertSub", "created", "newSubscriber">>
        \/ todo = <<"created", "newSubscriber">>
        \/ todo = <<"selectSub", "writeSub">>
        \/ todo = <<"insertPause", "selectSub", "writeSub", "paused">>
        \/ todo = <<"selectSub", "writeSub", "paused">>
        \/ todo = <<"writeSub", "paused">>
        \/ todo = <<"findPause", "endPause", "selectSub", "writeSub", "resumed">>
        \/ todo = <<"endPause", "selectSub", "writeSub", "resumed">>
        \/ todo = <<"selectSub", "writeSub", "resumed">>
        \/ todo = <<"writeSub", "resumed">>
        \/ todo = <<"checkShared", "insertSharing", "shared">>
        \/ todo = <<"insertSharing", "shared">>
        \/ todo = <<"writeSharing", "answered">>
        \/ todo = <<"writeSharing", "revoked">>
    BY Tails DEF Lists
  <2>2. ASSUME NEW a, NEW b, todo = <<a, b>>, <<b>> \in Lists
        PROVE  Tail(todo) \in Lists /\ Tail(todo) # <<>>
    BY <2>2, Tails
  <2>3. ASSUME NEW a, NEW b, NEW c, todo = <<a, b, c>>, <<b, c>> \in Lists
        PROVE  Tail(todo) \in Lists /\ Tail(todo) # <<>>
    BY <2>3, Tails
  <2>4. ASSUME NEW a, NEW b, NEW c, NEW d, todo = <<a, b, c, d>>, <<b, c, d>> \in Lists
        PROVE  Tail(todo) \in Lists /\ Tail(todo) # <<>>
    BY <2>4, Tails
  <2>5. ASSUME NEW a, NEW b, NEW c, NEW d, NEW e,
               todo = <<a, b, c, d, e>>, <<b, c, d, e>> \in Lists
        PROVE  Tail(todo) \in Lists /\ Tail(todo) # <<>>
    BY <2>5, Tails
  <2>6. /\ <<"insertSub", "created", "newSubscriber">> \in Lists
        /\ <<"created", "newSubscriber">> \in Lists /\ <<"newSubscriber">> \in Lists
        /\ <<"selectSub", "writeSub", "paused">> \in Lists
        /\ <<"writeSub", "paused">> \in Lists /\ <<"paused">> \in Lists
        /\ <<"endPause", "selectSub", "writeSub", "resumed">> \in Lists
        /\ <<"selectSub", "writeSub", "resumed">> \in Lists
        /\ <<"writeSub", "resumed">> \in Lists /\ <<"resumed">> \in Lists
        /\ <<"writeSub">> \in Lists
        /\ <<"insertSharing", "shared">> \in Lists /\ <<"shared">> \in Lists
        /\ <<"answered">> \in Lists /\ <<"revoked">> \in Lists
    BY DEF Lists
  <2>7. Tail(todo) \in Lists /\ Tail(todo) # <<>>
    BY <2>1, <2>2, <2>3, <2>4, <2>5, <2>6
  <2> QED BY <2>1, <2>7, Tails
<1> QED BY <1>1 DEF After, Steps, NoticeType

\* No pause was found: the handler skips its end.
LEMMA ListsSkip ==
    ASSUME NEW todo \in Lists, todo # <<>>, Head(todo) = "findPause"
    PROVE  /\ Tail(Tail(todo)) \in Lists /\ Tail(Tail(todo)) # <<>>
           /\ Head(Tail(Tail(todo))) = "selectSub"
<1>1. todo = <<"findPause", "endPause", "selectSub", "writeSub", "resumed">>
  BY Tails DEF Lists
<1> QED BY <1>1, Tails DEF Lists

\* The lists that requests put together.
LEMMA JoinedFour ==
    ASSUME NEW a, NEW b, NEW c, NEW d
    PROVE  <<a>> \o <<b, c>> \o <<d>> = <<a, b, c, d>>
<1> DEFINE S == {a, b, c, d}
           l == <<a>> \o <<b, c>>
           t == <<d>>
           m == l \o t
<1>1. <<a>> \in Seq(S) /\ <<b, c>> \in Seq(S)
  OBVIOUS
<1>2. t \in Seq(S) /\ Len(t) = 1 /\ t[1] = d
  OBVIOUS
<1> HIDE DEF S
<1>3. l \in Seq(S) /\ Len(l) = 3 /\ l[1] = a /\ l[2] = b /\ l[3] = c
  BY <1>1, ConcatProperties
<1> HIDE DEF l, t
<1>4. /\ m \in Seq(S) /\ Len(m) = Len(l) + Len(t)
      /\ \A i \in 1..Len(l) + Len(t) : m[i] = IF i <= Len(l) THEN l[i] ELSE t[i - Len(l)]
  BY <1>2, <1>3, ConcatProperties
<1> HIDE DEF m
<1>5. m = <<a, b, c, d>>
  BY <1>2, <1>3, <1>4
<1> QED BY <1>5 DEF m, l, t

LEMMA JoinedFive ==
    ASSUME NEW a, NEW b, NEW c, NEW d, NEW e
    PROVE  <<a, b>> \o <<c, d>> \o <<e>> = <<a, b, c, d, e>>
<1> DEFINE S == {a, b, c, d, e}
           l == <<a, b>> \o <<c, d>>
           t == <<e>>
           m == l \o t
<1>1. <<a, b>> \in Seq(S) /\ <<c, d>> \in Seq(S)
  OBVIOUS
<1>2. t \in Seq(S) /\ Len(t) = 1 /\ t[1] = e
  OBVIOUS
<1> HIDE DEF S
<1>3. l \in Seq(S) /\ Len(l) = 4 /\ l[1] = a /\ l[2] = b /\ l[3] = c /\ l[4] = d
  BY <1>1, ConcatProperties
<1> HIDE DEF l, t
<1>4. /\ m \in Seq(S) /\ Len(m) = Len(l) + Len(t)
      /\ \A i \in 1..Len(l) + Len(t) : m[i] = IF i <= Len(l) THEN l[i] ELSE t[i - Len(l)]
  BY <1>2, <1>3, ConcatProperties
<1> HIDE DEF m
<1>5. m = <<a, b, c, d, e>>
  BY <1>2, <1>3, <1>4
<1> QED BY <1>5 DEF m, l, t

ResumeSteps == <<"findPause", "endPause">> \o SaveSub \o <<"resumed">>

LEMMA ListsJoined ==
    /\ SaveSub \in Lists /\ SaveSub # <<>> /\ Head(SaveSub) = "selectSub"
    /\ PauseSteps \in Lists /\ PauseSteps # <<>> /\ Head(PauseSteps) = "insertPause"
    /\ ResumeSteps \in Lists /\ ResumeSteps # <<>> /\ Head(ResumeSteps) = "findPause"
<1>1. SaveSub = <<"selectSub", "writeSub">>
  BY DEF SaveSub
<1>2. PauseSteps = <<"insertPause", "selectSub", "writeSub", "paused">>
  <2>1. <<"insertPause">> \o <<"selectSub", "writeSub">> \o <<"paused">> =
            <<"insertPause", "selectSub", "writeSub", "paused">>
    BY JoinedFour
  <2> QED BY <2>1 DEF PauseSteps, SaveSub
<1>3. ResumeSteps = <<"findPause", "endPause", "selectSub", "writeSub", "resumed">>
  <2>1. <<"findPause", "endPause">> \o <<"selectSub", "writeSub">> \o <<"resumed">> =
            <<"findPause", "endPause", "selectSub", "writeSub", "resumed">>
    BY JoinedFive
  <2> QED BY <2>1 DEF ResumeSteps, SaveSub
<1> QED BY <1>1, <1>2, <1>3, Tails DEF Lists

----------------------------------------------------------------------------
(* Rows and counters                                                       *)

\* Mixing columns of two rows gives a row.
LEMMA PatchedSub ==
    ASSUME NEW row \in Subscription, NEW entity \in Subscription, NEW cols \in SUBSET SubColumns
    PROVE  LET p == Patched(row, entity, cols)
           IN  /\ p \in Subscription
               /\ \A c \in SubColumns : p[c] = IF c \in cols THEN entity[c] ELSE row[c]
<1> DEFINE p == Patched(row, entity, cols)
<1>1. p = [c \in SubColumns |-> IF c \in cols THEN entity[c] ELSE row[c]]
  BY DEF Patched, Subscription, SubColumns
<1> HIDE DEF p
<1>2. p = [user |-> p["user"], start |-> p["start"], end |-> p["end"],
           status |-> p["status"], autoRenew |-> p["autoRenew"],
           used |-> p["used"], remaining |-> p["remaining"]]
  BY <1>1 DEF SubColumns
<1>3. /\ p["user"] \in Users /\ p["start"] \in Nat /\ p["end"] \in Int
      /\ p["status"] \in SubscriptionStatus /\ p["autoRenew"] \in BOOLEAN
      /\ p["used"] \in Nat /\ p["remaining"] \in Nat
  BY <1>1 DEF SubColumns, Subscription
<1>4. p \in Subscription
  BY <1>2, <1>3 DEF Subscription
<1> QED BY <1>1, <1>4 DEF p

\* Counters that differ from those of the row both differ, because either pair
\* makes up the allowance.
LEMMA DirtyTogether ==
    ASSUME NEW row \in Subscription, NEW entity \in Subscription,
           NEW m, NEW n, NEW had, NEW has, Charged(row, m, had), Charged(entity, n, has)
    PROVE  /\ Dirty(entity, row) \in SUBSET SubColumns
           /\ "used" \in Dirty(entity, row) <=> "remaining" \in Dirty(entity, row)
<1>1. DOMAIN entity = SubColumns
  BY DEF Subscription, SubColumns
<1>2. /\ row.used \in Nat /\ row.remaining \in Nat
      /\ entity.used \in Nat /\ entity.remaining \in Nat
  BY DEF Subscription
<1>3. row.used + row.remaining = entity.used + entity.remaining
  BY DEF Charged
<1>4. entity.used = row.used <=> entity.remaining = row.remaining
  BY <1>2, <1>3
<1> QED BY <1>1, <1>4 DEF Dirty, SubColumns

\* What is charged stays backed when more pauses are recorded, and when all of
\* them are removed.
LEMMA ChargedMore ==
    ASSUME NEW row \in Subscription, NEW m \in Nat, NEW n \in Nat, NEW had, NEW has,
           had \subseteq has, m <= n \/ "deleted" \in has, Charged(row, m, had)
    PROVE  Charged(row, n, has)
BY DEF Charged, Subscription

\* A pause is recorded for s.
LEMMA PauseAdded ==
    ASSUME NEW p \in PauseIds, NEW row \in SubscriptionPause,
           pauses \in [PauseIds -> SubscriptionPause \cup {Absent}],
           pauses[p] = Absent, pauses' = [pauses EXCEPT ![p] = row],
           NEW s, IsFiniteSet(Paused(s, pauses))
    PROVE  /\ IsFiniteSet(Paused(s, pauses'))
           /\ Cardinality(Paused(s, pauses)) \in Nat
           /\ Cardinality(Paused(s, pauses')) \in Nat
           /\ Cardinality(Paused(s, pauses')) =
                Cardinality(Paused(s, pauses)) + IF s = row.sub THEN 1 ELSE 0
<1> DEFINE old == Paused(s, pauses)
           new == Paused(s, pauses')
<1>1. row # Absent
  BY AbsentIsNoRow
<1>2. Cardinality(old) \in Nat /\ p \notin old
  BY FS_CardinalityType DEF Paused
<1>3. CASE s = row.sub
  <2>1. new = old \cup {p}
    BY <1>1, <1>3 DEF Paused
  <2> HIDE DEF old, new
  <2>2. IsFiniteSet(new) /\ Cardinality(new) = Cardinality(old) + 1
    BY <1>2, <2>1, FS_AddElement DEF old
  <2> QED BY <1>2, <1>3, <2>2 DEF old, new
<1>4. CASE s # row.sub
  <2>1. new = old
    BY <1>1, <1>4 DEF Paused
  <2> QED BY <1>2, <1>4, <2>1
<1> QED BY <1>3, <1>4

\* A pause ends.
LEMMA PauseEnded ==
    ASSUME NEW p \in PauseIds, NEW item \in SubscriptionPause, pauses[p] # Absent,
           pauses \in [PauseIds -> SubscriptionPause \cup {Absent}],
           pauses' = [pauses EXCEPT ![p] = Updated(pauses[p], item, {"end"})]
    PROVE  /\ pauses' \in [PauseIds -> SubscriptionPause \cup {Absent}]
           /\ \A s : Paused(s, pauses') = Paused(s, pauses)
           /\ pauses'[p].end = item.end /\ pauses'[p].start = pauses[p].start
           /\ pauses'[p].sub = pauses[p].sub /\ pauses'[p] # Absent
           /\ \A q \in PauseIds : q # p => pauses'[q] = pauses[q]
<1> DEFINE row == [pauses[p] EXCEPT !.end = item.end]
<1>1. /\ row \in SubscriptionPause /\ row.sub = pauses[p].sub
      /\ row.end = item.end /\ row.start = pauses[p].start
  BY DEF SubscriptionPause
<1>2. row # Absent
  BY <1>1, AbsentIsNoRow
<1>3. Updated(pauses[p], item, {"end"}) = row
  BY DEF Updated, Patched, SubscriptionPause
<1> HIDE DEF row
<1>4. pauses' = [pauses EXCEPT ![p] = row]
  BY <1>3
<1> QED BY <1>1, <1>2, <1>4 DEF Paused

----------------------------------------------------------------------------
(* How a step moves the invariant                                          *)

\* Histories only grow, and so do the pauses of what was not removed.
Grown ==
    \A s \in SubIds :
        /\ was[s] \subseteq was'[s]
        /\ IsFiniteSet(Paused(s, pauses'))
        /\ \/ Cardinality(Paused(s, pauses)) <= Cardinality(Paused(s, pauses'))
           \/ "deleted" \in was'[s]

LEMMA Counts ==
    ASSUME SubInv, NEW s \in SubIds
    PROVE  /\ IsFiniteSet(Paused(s, pauses)) /\ Cardinality(Paused(s, pauses)) \in Nat
           /\ Grown => Cardinality(Paused(s, pauses')) \in Nat
BY FS_CardinalityType DEF SubInv, SubsCharged, Grown

LEMMA StaysGrown ==
    ASSUME SubInv, UNCHANGED <<pauses, was>>
    PROVE  Grown
<1>1. \A s \in SubIds : Cardinality(Paused(s, pauses)) <= Cardinality(Paused(s, pauses))
  BY Counts
<1> QED BY <1>1, Counts DEF Grown

\* What s is charged for stays backed.
LEMMA ChargedStays ==
    ASSUME SubInv, Grown, NEW s \in SubIds, NEW row \in Subscription,
           Charged(row, Cardinality(Paused(s, pauses)), was[s])
    PROVE  Charged(row, Cardinality(Paused(s, pauses')), was'[s])
<1> DEFINE m == Cardinality(Paused(s, pauses))
           n == Cardinality(Paused(s, pauses'))
<1>1. /\ m \in Nat /\ n \in Nat /\ (m <= n \/ "deleted" \in was'[s])
      /\ was[s] \subseteq was'[s]
  BY Counts DEF Grown
<1> HIDE DEF m, n
<1>2. Charged(row, m, was[s])
  BY DEF m
<1>3. row.used \in Nat
  BY DEF Subscription
<1>4. Charged(row, n, was'[s])
  BY <1>1, <1>2, <1>3 DEF Charged
<1> QED BY <1>4 DEF n

LEMMA KnowsLasts ==
    ASSUME SubInv, Grown, NEW c \in Call, NEW s, Knows(c, s, pauses, was)
    PROVE  Knows(c, s, pauses', was')
<1>1. CASE s = "insertPause"
  <2>1. c.sub \in SubIds /\ c.entity \in Subscription
    BY <1>1 DEF Knows
  <2>2. /\ Cardinality(Paused(c.sub, pauses)) + 1 \in Nat
        /\ Cardinality(Paused(c.sub, pauses')) + 1 \in Nat
        /\ \/ Cardinality(Paused(c.sub, pauses)) + 1 <= Cardinality(Paused(c.sub, pauses')) + 1
           \/ "deleted" \in was'[c.sub]
        /\ was[c.sub] \subseteq was'[c.sub]
    BY <2>1, Counts DEF Grown
  <2>3. Charged(c.entity, Cardinality(Paused(c.sub, pauses')) + 1, was'[c.sub])
    BY <1>1, <2>1, <2>2, ChargedMore DEF Knows
  <2> QED BY <1>1, <2>3 DEF Knows
<1>2. CASE s \in {"findPause", "endPause", "selectSub", "writeSub"}
  <2>1. c.sub \in SubIds /\ c.entity \in Subscription
    BY <1>2 DEF Knows
  <2>2. Charged(c.entity, Cardinality(Paused(c.sub, pauses')), was'[c.sub])
    BY <1>2, <2>1, ChargedStays DEF Knows
  <2> QED BY <1>2, <2>1, <2>2 DEF Knows
<1>3. CASE s \notin {"insertPause", "findPause", "endPause", "selectSub", "writeSub"}
  BY <1>3 DEF Knows
<1> QED BY <1>1, <1>2, <1>3

\* Rows are added, changed or removed.
LEMMA Assembling ==
    ASSUME SubInv, Grown, calls' \in [Handlers -> Call],
           \A g \in Handlers : calls'[g] = calls[g] \/ CallBacked(calls'[g], pauses', was'),
           subs' \in [SubIds -> Subscription \cup {Absent}],
           \A s \in SubIds : subs'[s] # Absent =>
              \/ subs'[s] = subs[s]
              \/ Charged(subs'[s], Cardinality(Paused(s, pauses')), was'[s]),
           pauses' \in [PauseIds -> SubscriptionPause \cup {Absent}],
           sharings' \in [SharingIds -> SubscriptionSharing \cup {Absent}],
           told' \subseteq NoticeType \X SubIds, UNCHANGED now,
           was' \in [SubIds -> SUBSET History], StatusKnown', SharingsStand'
    PROVE  SubInv'
<1>1. Typed /\ SubsCharged /\ CallsBacked
  BY DEF SubInv
<1>2. Typed'
  BY <1>1 DEF Typed
<1>3. SubsCharged'
  <2> SUFFICES ASSUME NEW s \in SubIds, subs'[s] # Absent
               PROVE  Charged(subs'[s], Cardinality(Paused(s, pauses')), was'[s])
    BY DEF SubsCharged, Grown
  <2>1. CASE subs'[s] = subs[s]
    <3>1. subs[s] \in Subscription /\ Charged(subs[s], Cardinality(Paused(s, pauses)), was[s])
      BY <1>1, <2>1 DEF Typed, SubsCharged
    <3> QED BY <2>1, <3>1, ChargedStays
  <2> QED BY <2>1
<1>4. CallsBacked'
  <2> SUFFICES ASSUME NEW g \in Handlers, calls'[g] = calls[g]
               PROVE  CallBacked(calls'[g], pauses', was')
    BY DEF CallsBacked
  <2>1. calls[g] \in Call /\ CallBacked(calls[g], pauses, was)
    BY <1>1 DEF Typed, CallsBacked
  <2> QED BY <2>1, KnowsLasts DEF CallBacked
<1> QED BY <1>2, <1>3, <1>4 DEF SubInv

\* A handler moves on, and rows were added or changed.
LEMMA Assembled ==
    ASSUME SubInv, Grown, NEW h \in Handlers, NEW c \in Call,
           CallBacked(c, pauses', was'), calls' = [calls EXCEPT ![h] = c],
           subs' \in [SubIds -> Subscription \cup {Absent}],
           \A s \in SubIds : subs'[s] # Absent =>
              \/ subs'[s] = subs[s]
              \/ Charged(subs'[s], Cardinality(Paused(s, pauses')), was'[s]),
           pauses' \in [PauseIds -> SubscriptionPause \cup {Absent}],
           sharings' \in [SharingIds -> SubscriptionSharing \cup {Absent}],
           told' \subseteq NoticeType \X SubIds, UNCHANGED now,
           was' \in [SubIds -> SUBSET History], StatusKnown', SharingsStand'
    PROVE  SubInv'
<1>1. /\ calls' \in [Handlers -> Call]
      /\ \A g \in Handlers : calls'[g] = IF g = h THEN c ELSE calls[g]
  BY DEF SubInv, Typed
<1> QED BY <1>1, Assembling

\* A handler moves on and the tables stay.
LEMMA HandlerMoves ==
    ASSUME SubInv, NEW h \in Handlers, NEW c \in Call,
           CallBacked(c, pauses, was), calls' = [calls EXCEPT ![h] = c],
           UNCHANGED <<tables, now>>, told' \subseteq NoticeType \X SubIds
    PROVE  SubInv'
<1>1. /\ UNCHANGED <<subs, pauses, sharings, was>>
      /\ Typed /\ StatusKnown /\ SharingsStand
  BY DEF SubInv, tables
<1>2. Grown
  BY <1>1, StaysGrown
<1>3. StatusKnown' /\ SharingsStand'
  BY <1>1 DEF StatusKnown, SharingsStand
<1> QED BY <1>1, <1>2, <1>3, Assembled DEF Typed

\* A subscription is stored: a new one, one that changes, or one that is back.
LEMMA SubStored ==
    ASSUME SubInv, NEW h \in Handlers, NEW c \in Call,
           NEW s \in SubIds, NEW row \in Subscription, Store(s, row),
           Charged(row, Cardinality(Paused(s, pauses)), was[s]),
           CallBacked(c, pauses, was'), calls' = [calls EXCEPT ![h] = c],
           UNCHANGED <<pauses, sharings, told, now>>
    PROVE  SubInv'
<1>1. Typed /\ StatusKnown /\ SharingsStand
  BY DEF SubInv
<1>2. /\ subs' = [subs EXCEPT ![s] = row] /\ was' = [was EXCEPT ![s] = was[s] \cup {row.status}]
      /\ row # Absent /\ row.status \in History
  BY AbsentIsNoRow DEF Store, Subscription, History
<1>3. /\ subs' \in [SubIds -> Subscription \cup {Absent}]
      /\ was' \in [SubIds -> SUBSET History]
      /\ \A r \in SubIds : r # s => subs'[r] = subs[r] /\ was'[r] = was[r]
      /\ subs'[s] = row /\ was'[s] = was[s] \cup {row.status}
  BY <1>1, <1>2 DEF Typed
<1>4. Grown
  <2>1. \A r \in SubIds : Cardinality(Paused(r, pauses)) <= Cardinality(Paused(r, pauses))
    BY Counts
  <2>2. \A r \in SubIds : was[r] \subseteq was'[r]
    BY <1>3
  <2> QED BY <2>1, <2>2, Counts DEF Grown
<1>5. StatusKnown' /\ SharingsStand'
  <2>1. \A x \in SharingIds : sharings[x] # Absent => sharings[x].sub \in SubIds
    BY <1>1 DEF Typed, SubscriptionSharing
  <2> QED BY <1>1, <1>2, <1>3, <2>1 DEF StatusKnown, SharingsStand
<1>6. Charged(row, Cardinality(Paused(s, pauses')), was'[s])
  BY <1>3 DEF Charged
<1> QED BY <1>1, <1>3, <1>4, <1>5, <1>6, Assembled DEF Typed

----------------------------------------------------------------------------
(* Handlers that start and that go on                                      *)

LEMMA Idling ==
    /\ Idle \in Call /\ Idle.todo = <<>> /\ Idle.cols = {} /\ Idle.key = NoId
    /\ \A ps, ws : CallBacked(Idle, ps, ws)
BY DEF Idle, Call, Lists, CallBacked

\* What the invariant says of a handler at an await.
LEMMA AtStep ==
    ASSUME SubInv, NEW h \in Handlers, NEW s, At(h, s)
    PROVE  /\ calls[h] \in Call /\ calls[h].todo \in Lists /\ calls[h].todo # <<>>
           /\ Head(calls[h].todo) = s /\ s \in Steps
           /\ Knows(calls[h], s, pauses, was)
<1>1. calls[h] \in Call /\ CallBacked(calls[h], pauses, was)
  BY DEF SubInv, Typed, CallsBacked
<1>2. calls[h].todo \in Lists
  BY <1>1 DEF Call
<1> QED BY <1>1, <1>2, ListsAreSteps DEF At, CallBacked

\* What a handler becomes when its await is over.
Rest(c) == IF Len(c.todo) = 1 THEN Idle ELSE [c EXCEPT !.todo = Tail(@)]

LEMMA AdvanceIsRest ==
    ASSUME NEW h, NEW c, Advance(h, c)
    PROVE  calls' = [calls EXCEPT ![h] = Rest(c)]
BY DEF Advance, Goto, Rest

LEMMA RestBacked ==
    ASSUME NEW c \in Call, c.todo # <<>>, NEW ps, NEW ws,
           \A s \in After(Head(c.todo)) : Knows(c, s, ps, ws)
    PROVE  Rest(c) \in Call /\ CallBacked(Rest(c), ps, ws)
<1>1. CASE Len(c.todo) = 1
  BY <1>1, Idling DEF Rest
<1>2. CASE Len(c.todo) # 1
  <2> DEFINE d == [c EXCEPT !.todo = Tail(c.todo)]
             s == Head(Tail(c.todo))
  <2>1. c.todo \in Lists
    BY DEF Call
  <2>2. Tail(c.todo) \in Lists /\ Tail(c.todo) # <<>> /\ s \in After(Head(c.todo))
    BY <1>2, <2>1, ListsLeft
  <2>3. Rest(c) = d
    BY <1>2 DEF Rest
  <2>4. /\ d \in Call /\ d.todo = Tail(c.todo) /\ d.sub = c.sub /\ d.entity = c.entity
        /\ d.cols = c.cols /\ d.key = c.key /\ d.item = c.item
    BY <2>2 DEF Call
  <2>5. Knows(c, s, ps, ws)
    BY <2>2
  <2> HIDE DEF d, s
  <2>6. Knows(d, s, ps, ws)
    BY <2>4, <2>5 DEF Knows
  <2> QED BY <2>2, <2>3, <2>4, <2>6 DEF CallBacked, s
<1> QED BY <1>1, <1>2

\* A handler that has loaded a subscription.
LEMMA LoadedCall ==
    ASSUME NEW s \in SubIds, NEW entity \in Subscription, NEW todo \in Lists
    PROVE  LET c == Loaded(s, entity, todo)
           IN  c \in Call /\ c.todo = todo /\ c.sub = s /\ c.entity = entity
<1>1. ChildrenOf(s) \in SUBSET (PauseIds \cup SharingIds)
  BY DEF ChildrenOf, PausesOf, SharingsOf
<1> HIDE DEF ChildrenOf
<1>2. Loaded(s, entity, todo) = [Idle EXCEPT !.todo = todo, !.sub = s, !.entity = entity,
                                             !.seen = ChildrenOf(s)]
  BY DEF Loaded
<1> QED BY <1>1, <1>2, Idling DEF Call

\* What the invariant says of a subscription that there is.
LEMMA TheSub ==
    ASSUME SubInv, NEW s \in SubIds, subs[s] # Absent
    PROVE  /\ subs[s] \in Subscription /\ subs[s].status \in was[s]
           /\ Charged(subs[s], Cardinality(Paused(s, pauses)), was[s])
BY DEF SubInv, Typed, SubsCharged, StatusKnown

\* A new handler that saves a copy whose counters are those of the row.
LEMMA SaveStarts ==
    ASSUME SubInv, NEW h \in Handlers, NEW s \in SubIds, subs[s] # Absent,
           NEW entity \in Subscription,
           entity.used = subs[s].used, entity.remaining = subs[s].remaining,
           NEW c \in Call, c.entity = entity, c.sub = s, c.todo \in {SaveSub, ResumeSteps},
           Goto(h, c), UNCHANGED <<tables, told, now>>
    PROVE  SubInv'
<1>1. Charged(entity, Cardinality(Paused(s, pauses)), was[s])
  BY TheSub DEF Charged
<1>2. Head(c.todo) \in {"selectSub", "findPause"} /\ c.todo # <<>>
  BY ListsJoined
<1>3. CallBacked(c, pauses, was)
  BY <1>1, <1>2 DEF CallBacked, Knows
<1>4. told' \subseteq NoticeType \X SubIds
  BY DEF SubInv, Typed
<1> QED BY <1>3, <1>4, HandlerMoves DEF Goto

----------------------------------------------------------------------------
(* Requests                                                                *)

LEMMA CreateInv ==
    ASSUME SubInv, NEW h \in Handlers, NEW u \in Users, NEW start \in Starts,
           NEW autoRenew \in BOOLEAN, Create(h, u, start, autoRenew)
    PROVE  SubInv'
<1> DEFINE todo == <<"checkActive", "insertSub", "created", "newSubscriber">>
           row == [user |-> u, start |-> start, end |-> start + PlanLength,
                   status |-> "active", autoRenew |-> autoRenew,
                   used |-> 0, remaining |-> Allowance]
           c == [Idle EXCEPT !.todo = todo, !.entity = row]
<1>1. calls' = [calls EXCEPT ![h] = c] /\ UNCHANGED <<tables, told, now>>
  BY DEF Create, Accept, Goto, tables
<1>2. row \in Subscription /\ Charged(row, 0, {})
  BY SubConstants DEF Subscription, SubscriptionStatus, Charged
<1>3. todo \in Lists /\ todo # <<>> /\ Head(todo) = "checkActive"
  BY Tails DEF Lists
<1> HIDE DEF row, todo
<1>4. c \in Call /\ c.todo = todo /\ c.entity = row
  BY <1>2, <1>3, Idling DEF Call
<1> HIDE DEF c
<1>5. CallBacked(c, pauses, was)
  BY <1>2, <1>3, <1>4 DEF CallBacked, Knows
<1>6. told' \subseteq NoticeType \X SubIds
  BY <1>1 DEF SubInv, Typed
<1> QED BY <1>1, <1>4, <1>5, <1>6, HandlerMoves

LEMMA UpdateInv ==
    ASSUME SubInv, NEW h \in Handlers, NEW u, NEW s \in SubIds, NEW autoRenew \in BOOLEAN,
           Update(h, u, s, autoRenew)
    PROVE  SubInv'
<1> DEFINE entity == [subs[s] EXCEPT !.autoRenew = autoRenew]
           c == Loaded(s, entity, SaveSub)
<1>1. subs[s] # Absent /\ Goto(h, c) /\ UNCHANGED <<tables, told, now>>
  BY DEF Update, Accept, May
<1>2. /\ entity \in Subscription
      /\ entity.used = subs[s].used /\ entity.remaining = subs[s].remaining
  BY <1>1, TheSub DEF Subscription
<1> HIDE DEF entity
<1>3. c \in Call /\ c.entity = entity /\ c.sub = s /\ c.todo = SaveSub
  BY <1>2, LoadedCall, ListsJoined
<1> HIDE DEF c
<1> QED BY <1>1, <1>2, <1>3, SaveStarts

LEMMA CancelInv ==
    ASSUME SubInv, NEW h \in Handlers, NEW u, NEW s \in SubIds, Cancel(h, u, s)
    PROVE  SubInv'
<1> DEFINE entity == [subs[s] EXCEPT !.status = "cancelled"]
           c == Loaded(s, entity, SaveSub)
<1>1. subs[s] # Absent /\ Goto(h, c) /\ UNCHANGED <<tables, told, now>>
  BY DEF Cancel, Accept, May
<1>2. /\ entity \in Subscription
      /\ entity.used = subs[s].used /\ entity.remaining = subs[s].remaining
  BY <1>1, TheSub DEF Subscription, SubscriptionStatus
<1> HIDE DEF entity
<1>3. c \in Call /\ c.entity = entity /\ c.sub = s /\ c.todo = SaveSub
  BY <1>2, LoadedCall, ListsJoined
<1> HIDE DEF c
<1> QED BY <1>1, <1>2, <1>3, SaveStarts

LEMMA ResumeInv ==
    ASSUME SubInv, NEW h \in Handlers, NEW u, NEW s \in SubIds, ResumeSubscription(h, u, s)
    PROVE  SubInv'
<1> DEFINE entity == [subs[s] EXCEPT !.status = "active"]
           l == Loaded(s, entity, ResumeSteps)
           c == [l EXCEPT !.at = now]
<1>1. subs[s] # Absent /\ Goto(h, c) /\ UNCHANGED <<tables, told, now>>
  BY DEF ResumeSubscription, Accept, May, ResumeSteps
<1>2. /\ entity \in Subscription
      /\ entity.used = subs[s].used /\ entity.remaining = subs[s].remaining
  BY <1>1, TheSub DEF Subscription, SubscriptionStatus
<1> HIDE DEF entity
<1>3. l \in Call /\ l.entity = entity /\ l.sub = s /\ l.todo = ResumeSteps
  BY <1>2, LoadedCall, ListsJoined
<1> HIDE DEF l
<1>4. now \in Nat
  BY DEF SubInv, Typed, Time
<1>5. c \in Call /\ c.entity = entity /\ c.sub = s /\ c.todo = ResumeSteps
  BY <1>3, <1>4 DEF Call
<1> HIDE DEF c
<1> QED BY <1>1, <1>2, <1>5, SaveStarts

LEMMA PauseInv ==
    ASSUME SubInv, NEW h \in Handlers, NEW u, NEW s \in SubIds,
           NEW start \in PauseDates, NEW end \in PauseDates,
           PauseSubscription(h, u, s, start, end)
    PROVE  SubInv'
<1> DEFINE n == Days(start, end)
           row == subs[s]
           entity == AsPaused(row, start, end)
           item == [sub |-> s, start |-> start, end |-> end]
           l == Loaded(s, entity, PauseSteps)
           c == [l EXCEPT !.item = item]
<1>1. /\ row # Absent /\ row.remaining > 0
      /\ calls' = [calls EXCEPT ![h] = c] /\ UNCHANGED <<tables, told, now>>
  BY DEF PauseSubscription, Accept, May, CanPause, Goto
<1>2. row \in Subscription /\ Charged(row, Cardinality(Paused(s, pauses)), was[s])
  BY <1>1, TheSub
<1>3. start \in Nat /\ end \in Nat /\ n * Day \in Int
  BY SubConstants DEF Days
<1>4. /\ row.used \in Nat /\ row.remaining \in Nat /\ row.end \in Int
      /\ Allowance \in Nat /\ Cardinality(Paused(s, pauses)) \in Nat
  BY <1>2, Counts, SubConstants DEF Subscription
<1>5. /\ row.used + 1 \in Nat /\ row.remaining - 1 \in Nat /\ row.end + n * Day \in Int
      /\ "paused" \in SubscriptionStatus
  BY <1>1, <1>3, <1>4 DEF SubscriptionStatus
<1>6. /\ entity \in Subscription
      /\ entity.used = row.used + 1 /\ entity.remaining = row.remaining - 1
  <2> HIDE DEF n
  <2>1. entity = [row EXCEPT !.status = "paused", !.used = row.used + 1,
                             !.remaining = row.remaining - 1, !.end = row.end + n * Day]
    BY DEF AsPaused, n
  <2> QED BY <1>2, <1>5, <2>1 DEF Subscription
<1>7. Charged(entity, Cardinality(Paused(s, pauses)) + 1, was[s])
  BY <1>2, <1>4, <1>6 DEF Charged
<1> HIDE DEF entity
<1>8. item \in SubscriptionPause /\ item.sub = s
  BY <1>3 DEF SubscriptionPause
<1>9. l \in Call /\ l.entity = entity /\ l.sub = s /\ l.todo = PauseSteps
  BY <1>6, LoadedCall, ListsJoined
<1> HIDE DEF l, item
<1>10. c \in Call /\ c.entity = entity /\ c.sub = s /\ c.todo = PauseSteps /\ c.item = item
  BY <1>8, <1>9 DEF Call
<1> HIDE DEF c
<1>11. CallBacked(c, pauses, was)
  BY <1>1, <1>6, <1>7, <1>8, <1>10, ListsJoined DEF CallBacked, Knows
<1>12. told' \subseteq NoticeType \X SubIds
  BY <1>1 DEF SubInv, Typed
<1> QED BY <1>1, <1>10, <1>11, <1>12, HandlerMoves

LEMMA ShareInv ==
    ASSUME SubInv, NEW h \in Handlers, NEW u, NEW s \in SubIds, NEW target \in Users,
           ShareSubscription(h, u, s, target)
    PROVE  SubInv'
<1> DEFINE todo == <<"checkShared", "insertSharing", "shared">>
           item == [sub |-> s, user |-> target, status |-> "pending"]
           c == [Idle EXCEPT !.todo = todo, !.sub = s, !.item = item]
<1>1. /\ subs[s] # Absent
      /\ calls' = [calls EXCEPT ![h] = c] /\ UNCHANGED <<tables, told, now>>
  BY DEF ShareSubscription, Accept, Goto
<1>2. item \in SubscriptionSharing /\ item.sub = s
  BY DEF SubscriptionSharing, SharingStatus
<1>3. todo \in Lists /\ todo # <<>> /\ Head(todo) = "checkShared"
  BY Tails DEF Lists
<1> HIDE DEF todo, item
<1>4. c \in Call /\ c.todo = todo /\ c.sub = s /\ c.item = item
  BY <1>2, <1>3, Idling DEF Call
<1> HIDE DEF c
<1>5. CallBacked(c, pauses, was)
  BY <1>1, <1>2, <1>3, <1>4 DEF CallBacked, Knows
<1>6. told' \subseteq NoticeType \X SubIds
  BY <1>1 DEF SubInv, Typed
<1> QED BY <1>1, <1>4, <1>5, <1>6, HandlerMoves

\* A handler that will write the status of a sharing.
LEMMA SharingWrites ==
    ASSUME SubInv, NEW h \in Handlers, NEW x \in SharingIds, sharings[x] # Absent,
           NEW status \in SharingStatus, NEW last \in {"answered", "revoked"},
           Goto(h, [Idle EXCEPT !.todo = <<"writeSharing", last>>, !.sub = sharings[x].sub,
                                !.key = x, !.item = [sharings[x] EXCEPT !.status = status]]),
           UNCHANGED <<tables, told, now>>
    PROVE  SubInv'
<1> DEFINE todo == <<"writeSharing", last>>
           item == [sharings[x] EXCEPT !.status = status]
           s == sharings[x].sub
           c == [Idle EXCEPT !.todo = todo, !.sub = s, !.key = x, !.item = item]
<1>1. sharings[x] \in SubscriptionSharing
  BY DEF SubInv, Typed
<1>2. item \in SubscriptionSharing /\ s \in SubIds /\ item.sub = s
  BY <1>1 DEF SubscriptionSharing
<1>3. todo \in Lists /\ todo # <<>> /\ Head(todo) = "writeSharing"
  BY Tails DEF Lists
<1>4. calls' = [calls EXCEPT ![h] = c]
  BY DEF Goto
<1> HIDE DEF todo, item
<1>5. c \in Call /\ c.todo = todo /\ c.sub = s /\ c.key = x /\ c.item = item
  BY <1>2, <1>3, Idling DEF Call
<1> HIDE DEF c
<1>6. CallBacked(c, pauses, was)
  BY <1>2, <1>3, <1>5 DEF CallBacked, Knows
<1>7. told' \subseteq NoticeType \X SubIds
  BY DEF SubInv, Typed
<1> QED BY <1>4, <1>5, <1>6, <1>7, HandlerMoves

LEMMA RespondInv ==
    ASSUME SubInv, NEW h \in Handlers, NEW u, NEW x \in SharingIds, NEW accept \in BOOLEAN,
           RespondToSharing(h, u, x, accept)
    PROVE  SubInv'
<1> DEFINE status == IF accept THEN "accepted" ELSE "rejected"
<1>1. status \in SharingStatus
  BY DEF SharingStatus
<1>2. /\ sharings[x] # Absent /\ UNCHANGED <<tables, told, now>>
      /\ Goto(h, [Idle EXCEPT !.todo = <<"writeSharing", "answered">>,
                              !.sub = sharings[x].sub, !.key = x,
                              !.item = [sharings[x] EXCEPT !.status = status]])
  BY DEF RespondToSharing, Accept
<1> HIDE DEF status
<1> QED BY <1>1, <1>2, SharingWrites

LEMMA RevokeInv ==
    ASSUME SubInv, NEW h \in Handlers, NEW u, NEW x \in SharingIds, RevokeSharing(h, u, x)
    PROVE  SubInv'
<1>1. "revoked" \in SharingStatus
  BY DEF SharingStatus
<1>2. /\ sharings[x] # Absent /\ UNCHANGED <<tables, told, now>>
      /\ Goto(h, [Idle EXCEPT !.todo = <<"writeSharing", "revoked">>,
                              !.sub = sharings[x].sub, !.key = x,
                              !.item = [sharings[x] EXCEPT !.status = "revoked"]])
  BY DEF RevokeSharing, Accept
<1> QED BY <1>1, <1>2, SharingWrites

----------------------------------------------------------------------------
(* Steps of a handler after an await                                       *)

LEMMA GivingUp ==
    ASSUME SubInv, NEW h \in Handlers, Goto(h, Idle), UNCHANGED <<tables, told, now>>
    PROVE  SubInv'
<1>1. told' \subseteq NoticeType \X SubIds
  BY DEF SubInv, Typed
<1> QED BY <1>1, Idling, HandlerMoves DEF Goto

\* A handler looks at the tables and goes on.
LEMMA GoingOn ==
    ASSUME SubInv, NEW h \in Handlers, NEW c \in Call, c.todo # <<>>, Advance(h, c),
           \A s \in After(Head(c.todo)) : Knows(c, s, pauses, was),
           UNCHANGED <<tables, told, now>>
    PROVE  SubInv'
<1>1. Rest(c) \in Call /\ CallBacked(Rest(c), pauses, was)
  BY RestBacked
<1>2. told' \subseteq NoticeType \X SubIds
  BY DEF SubInv, Typed
<1> QED BY <1>1, <1>2, AdvanceIsRest, HandlerMoves

LEMMA CheckActiveInv ==
    ASSUME SubInv, NEW h \in Handlers, CheckActive(h)
    PROVE  SubInv'
<1>1. /\ At(h, "checkActive") /\ UNCHANGED <<tables, told, now>>
      /\ Goto(h, Idle) \/ Advance(h, calls[h])
  BY DEF CheckActive
<1>2. /\ calls[h] \in Call /\ calls[h].todo # <<>> /\ Head(calls[h].todo) = "checkActive"
      /\ Knows(calls[h], "checkActive", pauses, was)
  BY <1>1, AtStep
<1>3. \A s \in After("checkActive") : Knows(calls[h], s, pauses, was)
  BY <1>2 DEF After, Knows
<1> QED BY <1>1, <1>2, <1>3, GivingUp, GoingOn

LEMMA InsertSubInv ==
    ASSUME SubInv, NEW h \in Handlers, NEW s \in SubIds, InsertSub(h, s)
    PROVE  SubInv'
<1> DEFINE c == calls[h]
           row == c.entity
           d == [c EXCEPT !.sub = s, !.entity = Absent]
<1>1. /\ At(h, "insertSub") /\ Store(s, row) /\ Advance(h, d)
      /\ UNCHANGED <<pauses, sharings, told, now>>
  BY DEF InsertSub
<1>2. /\ c \in Call /\ c.todo # <<>> /\ Head(c.todo) = "insertSub"
      /\ row \in Subscription /\ Charged(row, 0, {})
  BY <1>1, AtStep DEF Knows
<1>3. Charged(row, Cardinality(Paused(s, pauses)), was[s])
  BY <1>2, Counts, ChargedMore
<1>4. d \in Call /\ d.todo = c.todo /\ d.sub = s
  BY <1>2 DEF Call
<1> HIDE DEF d
<1>5. \A t \in After("insertSub") : Knows(d, t, pauses, was')
  BY <1>4 DEF After, Knows
<1>6. Rest(d) \in Call /\ CallBacked(Rest(d), pauses, was')
  BY <1>2, <1>4, <1>5, RestBacked
<1> QED BY <1>1, <1>2, <1>3, <1>6, AdvanceIsRest, SubStored

\* A handler stores a pause.
LEMMA PauseStored ==
    ASSUME SubInv, Grown, NEW h \in Handlers, NEW c \in Call, c.todo # <<>>,
           \A t \in After(Head(c.todo)) : Knows(c, t, pauses', was'), Advance(h, c),
           pauses' \in [PauseIds -> SubscriptionPause \cup {Absent}],
           UNCHANGED <<subs, sharings, was, told, now>>
    PROVE  SubInv'
<1>1. Rest(c) \in Call /\ CallBacked(Rest(c), pauses', was')
  BY RestBacked
<1>2. /\ subs' \in [SubIds -> Subscription \cup {Absent}] /\ subs' = subs
      /\ sharings' \in [SharingIds -> SubscriptionSharing \cup {Absent}]
      /\ told' \subseteq NoticeType \X SubIds /\ UNCHANGED now
      /\ was' \in [SubIds -> SUBSET History]
      /\ StatusKnown' /\ SharingsStand'
  BY DEF SubInv, Typed, StatusKnown, SharingsStand
<1> QED BY <1>1, <1>2, AdvanceIsRest, Assembled

\* A pause is recorded.
LEMMA PauseAddedGrows ==
    ASSUME SubInv, NEW p \in PauseIds, NEW row \in SubscriptionPause,
           pauses[p] = Absent, pauses' = [pauses EXCEPT ![p] = row], UNCHANGED was
    PROVE  /\ Grown /\ pauses' \in [PauseIds -> SubscriptionPause \cup {Absent}]
           /\ row.sub \in SubIds
           /\ Cardinality(Paused(row.sub, pauses')) = Cardinality(Paused(row.sub, pauses)) + 1
<1>1. /\ pauses \in [PauseIds -> SubscriptionPause \cup {Absent}]
      /\ row.sub \in SubIds
  BY DEF SubInv, Typed, SubscriptionPause
<1>2. \A s \in SubIds :
        /\ IsFiniteSet(Paused(s, pauses'))
        /\ Cardinality(Paused(s, pauses)) \in Nat /\ Cardinality(Paused(s, pauses')) \in Nat
        /\ Cardinality(Paused(s, pauses')) =
              Cardinality(Paused(s, pauses)) + IF s = row.sub THEN 1 ELSE 0
  BY <1>1, Counts, PauseAdded
<1>3. ASSUME NEW s \in SubIds
      PROVE  Cardinality(Paused(s, pauses)) <= Cardinality(Paused(s, pauses'))
  <2> DEFINE m == Cardinality(Paused(s, pauses))
             n == Cardinality(Paused(s, pauses'))
  <2>1. m \in Nat /\ (n = m + 1 \/ n = m + 0)
    BY <1>2
  <2> HIDE DEF m, n
  <2>2. m <= n
    BY <2>1
  <2> QED BY <2>2 DEF m, n
<1>4. Cardinality(Paused(row.sub, pauses')) = Cardinality(Paused(row.sub, pauses)) + 1
  BY <1>1, <1>2
<1>5. pauses' \in [PauseIds -> SubscriptionPause \cup {Absent}]
  BY <1>1
<1> QED BY <1>1, <1>2, <1>3, <1>4, <1>5 DEF Grown

LEMMA InsertPauseInv ==
    ASSUME SubInv, NEW h \in Handlers, NEW p \in PauseIds, InsertPause(h, p)
    PROVE  SubInv'
<1> DEFINE c == calls[h]
           row == c.item
           d == [c EXCEPT !.item = Absent]
<1>1. /\ At(h, "insertPause") /\ pauses[p] = Absent
      /\ pauses' = [pauses EXCEPT ![p] = row]
      /\ Advance(h, d) /\ UNCHANGED <<subs, sharings, was, told, now>>
  BY DEF InsertPause, FreePauses
<1>2. /\ c \in Call /\ c.todo # <<>> /\ Head(c.todo) = "insertPause"
      /\ c.sub \in SubIds /\ c.entity \in Subscription
      /\ Charged(c.entity, Cardinality(Paused(c.sub, pauses)) + 1, was[c.sub])
      /\ row \in SubscriptionPause /\ row.sub = c.sub
  BY <1>1, AtStep DEF Knows
<1> HIDE DEF row
<1>3. /\ Grown /\ pauses' \in [PauseIds -> SubscriptionPause \cup {Absent}]
      /\ Cardinality(Paused(c.sub, pauses')) = Cardinality(Paused(c.sub, pauses)) + 1
  BY <1>1, <1>2, PauseAddedGrows
<1>4. d \in Call /\ d.todo = c.todo /\ d.sub = c.sub /\ d.entity = c.entity
  BY <1>2 DEF Call
<1> HIDE DEF d
<1>5. \A t \in After("insertPause") : Knows(d, t, pauses', was')
  BY <1>1, <1>2, <1>3, <1>4 DEF After, Knows
<1> QED BY <1>1, <1>2, <1>3, <1>4, <1>5, PauseStored

LEMMA SelectSubInv ==
    ASSUME SubInv, NEW h \in Handlers, SelectSub(h)
    PROVE  SubInv'
<1> DEFINE c == calls[h]
           cols == Dirty(c.entity, subs[c.sub])
           d == [c EXCEPT !.cols = cols]
<1>1. /\ At(h, "selectSub") /\ subs[c.sub] # Absent /\ UNCHANGED <<tables, told, now>>
      /\ Goto(h, Idle) \/ Advance(h, d)
  BY DEF SelectSub
<1>2. /\ c \in Call /\ c.todo # <<>> /\ Head(c.todo) = "selectSub"
      /\ c.sub \in SubIds /\ c.entity \in Subscription
      /\ Charged(c.entity, Cardinality(Paused(c.sub, pauses)), was[c.sub])
  BY <1>1, AtStep DEF Knows
<1>3. cols \in SUBSET SubColumns /\ ("used" \in cols <=> "remaining" \in cols)
  BY <1>1, <1>2, TheSub, DirtyTogether
<1> HIDE DEF cols
<1>4. /\ d \in Call /\ d.todo = c.todo /\ d.sub = c.sub /\ d.entity = c.entity
      /\ d.cols = cols
  BY <1>2, <1>3 DEF Call
<1> HIDE DEF d
<1>5. \A t \in After("selectSub") : Knows(d, t, pauses, was)
  BY <1>2, <1>3, <1>4 DEF After, Knows
<1> QED BY <1>1, <1>2, <1>4, <1>5, GivingUp, GoingOn

LEMMA RestoreSubInv ==
    ASSUME SubInv, NEW h \in Handlers, RestoreSub(h)
    PROVE  SubInv'
<1> DEFINE c == calls[h]
           s == c.sub
           d == [c EXCEPT !.cols = {}]
<1>1. /\ At(h, "selectSub") /\ Store(s, c.entity) /\ Advance(h, d)
      /\ UNCHANGED <<pauses, sharings, told, now>>
  BY DEF RestoreSub
<1>2. /\ c \in Call /\ c.todo # <<>> /\ Head(c.todo) = "selectSub"
      /\ s \in SubIds /\ c.entity \in Subscription
      /\ Charged(c.entity, Cardinality(Paused(s, pauses)), was[s])
  BY <1>1, AtStep DEF Knows
<1>3. Charged(c.entity, Cardinality(Paused(s, pauses)), was'[s])
  BY <1>1, <1>2 DEF Charged, Store, SubInv, Typed
<1>4. /\ d \in Call /\ d.todo = c.todo /\ d.sub = s /\ d.entity = c.entity /\ d.cols = {}
  BY <1>2 DEF Call
<1> HIDE DEF d
<1>5. \A t \in After("selectSub") : Knows(d, t, pauses, was')
  BY <1>2, <1>3, <1>4 DEF After, Knows
<1>6. Rest(d) \in Call /\ CallBacked(Rest(d), pauses, was')
  BY <1>2, <1>4, <1>5, RestBacked
<1> QED BY <1>1, <1>2, <1>6, AdvanceIsRest, SubStored

LEMMA WriteSubInv ==
    ASSUME SubInv, NEW h \in Handlers, WriteSub(h)
    PROVE  SubInv'
<1> DEFINE c == calls[h]
           s == c.sub
           row == Patched(subs[s], c.entity, c.cols)
           d == [c EXCEPT !.entity = Absent, !.cols = {}]
<1>1. /\ At(h, "writeSub") /\ Advance(h, d)
      /\ UNCHANGED <<pauses, sharings, told, now>>
      /\ IF subs[s] = Absent THEN UNCHANGED <<subs, was>> ELSE Store(s, row)
  BY DEF WriteSub
<1>2. /\ c \in Call /\ c.todo # <<>> /\ Head(c.todo) = "writeSub"
      /\ s \in SubIds /\ c.entity \in Subscription
      /\ Charged(c.entity, Cardinality(Paused(s, pauses)), was[s])
      /\ "used" \in c.cols <=> "remaining" \in c.cols
      /\ c.cols \in SUBSET SubColumns
  BY <1>1, AtStep DEF Knows, Call
<1>3. d \in Call /\ d.todo = c.todo /\ d.sub = s
  BY <1>2 DEF Call
<1> HIDE DEF d
<1>4. \A t \in After("writeSub") : Knows(d, t, pauses, was')
  BY <1>2, <1>3 DEF After, Knows
<1>5. Rest(d) \in Call /\ CallBacked(Rest(d), pauses, was')
  BY <1>2, <1>3, <1>4, RestBacked
<1>6. CASE subs[s] = Absent
  <2>1. UNCHANGED <<tables, told, now>> /\ told' \subseteq NoticeType \X SubIds
    BY <1>1, <1>6 DEF tables, SubInv, Typed
  <2>2. CallBacked(Rest(d), pauses, was)
    BY <1>1, <1>5, <1>6
  <2> QED BY <1>1, <1>5, <2>1, <2>2, AdvanceIsRest, HandlerMoves
<1>7. CASE subs[s] # Absent
  <2>1. subs[s] \in Subscription /\ Charged(subs[s], Cardinality(Paused(s, pauses)), was[s])
    BY <1>2, <1>7, TheSub
  <2>2. /\ row \in Subscription
        /\ \/ row.used = c.entity.used /\ row.remaining = c.entity.remaining
           \/ row.used = subs[s].used /\ row.remaining = subs[s].remaining
    BY <1>2, <2>1, PatchedSub DEF SubColumns
  <2> HIDE DEF row
  <2>3. Charged(row, Cardinality(Paused(s, pauses)), was[s])
    BY <1>2, <2>1, <2>2 DEF Charged
  <2> QED BY <1>1, <1>2, <1>5, <1>7, <2>2, <2>3, AdvanceIsRest, SubStored
<1> QED BY <1>6, <1>7

LEMMA FindPauseInv ==
    ASSUME SubInv, NEW h \in Handlers, FindPause(h)
    PROVE  SubInv'
<1> DEFINE c == calls[h]
           n == Cardinality(Paused(c.sub, pauses))
<1>1. At(h, "findPause") /\ UNCHANGED <<tables, told, now>>
  BY DEF FindPause
<1>2. /\ c \in Call /\ c.todo \in Lists /\ c.todo # <<>> /\ Head(c.todo) = "findPause"
      /\ c.sub \in SubIds /\ c.entity \in Subscription
      /\ Charged(c.entity, n, was[c.sub])
  BY <1>1, AtStep DEF Knows
<1> DEFINE skip == [c EXCEPT !.todo = Tail(Tail(c.todo))]
           short(p) == Shortened(c.entity, pauses[p], c.at)
           item(p) == [pauses[p] EXCEPT !.end = c.at]
           d(p) == [c EXCEPT !.key = p, !.item = item(p), !.entity = short(p)]
<1>5. \/ calls' = [calls EXCEPT ![h] = skip]
      \/ \E p \in ActivePauses(c.sub, c.at) : Advance(h, d(p))
  BY DEF FindPause, Goto
<1>3. CASE calls' = [calls EXCEPT ![h] = skip]
  <2>1. /\ Tail(Tail(c.todo)) \in Lists /\ Tail(Tail(c.todo)) # <<>>
        /\ Head(Tail(Tail(c.todo))) = "selectSub"
    BY <1>2, ListsSkip
  <2>2. /\ skip \in Call /\ skip.todo = Tail(Tail(c.todo)) /\ skip.sub = c.sub
        /\ skip.entity = c.entity
    BY <1>2, <2>1 DEF Call
  <2> HIDE DEF skip
  <2>3. CallBacked(skip, pauses, was)
    BY <1>2, <2>1, <2>2 DEF CallBacked, Knows
  <2>4. told' \subseteq NoticeType \X SubIds
    BY <1>1 DEF SubInv, Typed
  <2> QED BY <1>1, <1>3, <2>2, <2>3, <2>4, HandlerMoves
<1>4. ASSUME NEW p \in ActivePauses(c.sub, c.at), Advance(h, d(p))
      PROVE  SubInv'
  <2>1. p \in PauseIds /\ pauses[p] # Absent /\ pauses[p].sub = c.sub
    BY DEF ActivePauses, PausesOf
  <2>2. pauses[p] \in SubscriptionPause
    BY <2>1 DEF SubInv, Typed
  <2>3. c.at \in Nat /\ pauses[p].end \in Nat /\ c.entity.end \in Int
    BY <1>2, <2>2 DEF Call, SubscriptionPause, Subscription
  <2>4. /\ short(p) \in Subscription
        /\ short(p).used = c.entity.used /\ short(p).remaining = c.entity.remaining
    <3>1. c.entity.end - (pauses[p].end - c.at) \in Int
      BY <2>3
    <3> QED BY <1>2, <3>1 DEF Shortened, Subscription
  <2>5. item(p) \in SubscriptionPause /\ item(p).sub = c.sub
    BY <2>1, <2>2, <2>3 DEF SubscriptionPause
  <2> HIDE DEF short, item
  <2>6. /\ d(p) \in Call /\ d(p).todo = c.todo /\ d(p).sub = c.sub /\ d(p).key = p
        /\ d(p).entity = short(p) /\ d(p).item = item(p)
    BY <1>2, <2>1, <2>4, <2>5 DEF Call
  <2> HIDE DEF d
  <2>7. Charged(short(p), n, was[c.sub])
    BY <1>2, <2>4 DEF Charged
  <2>8. \A t \in After("findPause") : Knows(d(p), t, pauses, was)
    BY <1>2, <2>1, <2>4, <2>5, <2>6, <2>7 DEF After, Knows
  <2> QED BY <1>1, <1>2, <1>4, <2>6, <2>8, GoingOn
<1> QED BY <1>3, <1>4, <1>5

\* A save updates the row, or meets none, or inserts its copy.
LEMMA SavedCases ==
    ASSUME NEW row, NEW copy, NEW cols, NEW parent, NEW new \in SavedAs(row, copy, cols, parent)
    PROVE  \/ row # Absent /\ new = Updated(row, copy, cols)
           \/ row = Absent /\ new = Absent
           \/ row = Absent /\ parent # Absent /\ new = copy
BY DEF SavedAs, Updated

LEMMA EndPauseInv ==
    ASSUME SubInv, NEW h \in Handlers, EndPause(h)
    PROVE  SubInv'
<1> DEFINE c == calls[h]
           p == c.key
           d == [c EXCEPT !.key = NoId]
<1>1. /\ At(h, "endPause") /\ Advance(h, d) /\ UNCHANGED <<subs, sharings, was, told, now>>
      /\ \E row \in SavedAs(pauses[p], c.item, {"end"}, subs[c.sub]) :
            pauses' = [pauses EXCEPT ![p] = row]
  BY DEF EndPause
<1>2. /\ c \in Call /\ c.todo # <<>> /\ Head(c.todo) = "endPause"
      /\ c.sub \in SubIds /\ c.entity \in Subscription
      /\ Charged(c.entity, Cardinality(Paused(c.sub, pauses)), was[c.sub])
      /\ p \in PauseIds /\ c.item \in SubscriptionPause
  BY <1>1, AtStep DEF Knows
<1>3. pauses \in [PauseIds -> SubscriptionPause \cup {Absent}]
  BY DEF SubInv, Typed
<1>4. Grown /\ pauses' \in [PauseIds -> SubscriptionPause \cup {Absent}]
  <2>1. CASE pauses[p] # Absent /\ pauses' = [pauses EXCEPT ![p] =
                                                    Updated(pauses[p], c.item, {"end"})]
    <3>1. /\ pauses' \in [PauseIds -> SubscriptionPause \cup {Absent}]
          /\ \A s : Paused(s, pauses') = Paused(s, pauses)
      BY <1>2, <1>3, <2>1, PauseEnded
    <3>2. \A s \in SubIds : Cardinality(Paused(s, pauses)) <= Cardinality(Paused(s, pauses'))
      BY <3>1, Counts
    <3> QED BY <1>1, <3>1, <3>2, Counts DEF Grown
  <2>2. CASE pauses[p] = Absent /\ pauses' = [pauses EXCEPT ![p] = Absent]
    BY <1>1, <1>3, <2>2, StaysGrown
  <2>3. CASE pauses[p] = Absent /\ pauses' = [pauses EXCEPT ![p] = c.item]
    BY <1>1, <1>2, <2>3, PauseAddedGrows
  <2>4. PICK row \in SavedAs(pauses[p], c.item, {"end"}, subs[c.sub]) :
               pauses' = [pauses EXCEPT ![p] = row]
    BY <1>1
  <2>5. \/ pauses[p] # Absent /\ row = Updated(pauses[p], c.item, {"end"})
        \/ pauses[p] = Absent /\ row = Absent
        \/ pauses[p] = Absent /\ row = c.item
    BY SavedCases
  <2> QED BY <2>1, <2>2, <2>3, <2>4, <2>5
<1>5. d \in Call /\ d.todo = c.todo /\ d.sub = c.sub /\ d.entity = c.entity
  BY <1>2 DEF Call
<1> HIDE DEF d
<1>6. Charged(c.entity, Cardinality(Paused(c.sub, pauses')), was'[c.sub])
  BY <1>2, <1>4, ChargedStays
<1>7. \A t \in After("endPause") : Knows(d, t, pauses', was')
  BY <1>2, <1>5, <1>6 DEF After, Knows
<1> QED BY <1>1, <1>2, <1>4, <1>5, <1>7, PauseStored

LEMMA CheckSharedInv ==
    ASSUME SubInv, NEW h \in Handlers, CheckShared(h)
    PROVE  SubInv'
<1>1. /\ At(h, "checkShared") /\ UNCHANGED <<tables, told, now>>
      /\ Goto(h, Idle) \/ Advance(h, calls[h])
  BY DEF CheckShared
<1>2. /\ calls[h] \in Call /\ calls[h].todo # <<>> /\ Head(calls[h].todo) = "checkShared"
      /\ Knows(calls[h], "checkShared", pauses, was)
  BY <1>1, AtStep
<1>3. \A s \in After("checkShared") : Knows(calls[h], s, pauses, was)
  BY <1>2 DEF After, Knows
<1> QED BY <1>1, <1>2, <1>3, GivingUp, GoingOn

\* The table of sharings gets a row or another status of one.
LEMMA SharingStored ==
    ASSUME SubInv, NEW h \in Handlers, NEW x \in SharingIds,
           NEW row \in SubscriptionSharing \cup {Absent},
           sharings' = [sharings EXCEPT ![x] = row], row # Absent => subs[row.sub] # Absent,
           NEW c \in Call, c.todo # <<>>, Advance(h, c),
           Head(c.todo) \in {"insertSharing", "writeSharing"}, c.sub \in SubIds,
           UNCHANGED <<subs, pauses, was, told, now>>
    PROVE  SubInv'
<1>1. Typed /\ StatusKnown /\ SharingsStand
  BY DEF SubInv
<1>2. \A y \in SharingIds : sharings'[y] = IF y = x THEN row ELSE sharings[y]
  BY <1>1 DEF Typed
<1>3. Grown
  BY StaysGrown
<1>4. \A t \in After(Head(c.todo)) : Knows(c, t, pauses', was')
  BY DEF After, Knows
<1>5. Rest(c) \in Call /\ CallBacked(Rest(c), pauses', was')
  BY <1>4, RestBacked
<1>6. /\ sharings' \in [SharingIds -> SubscriptionSharing \cup {Absent}]
      /\ SharingsStand' /\ StatusKnown'
  BY <1>1, <1>2 DEF Typed, SharingsStand, StatusKnown
<1>7. /\ subs' \in [SubIds -> Subscription \cup {Absent}] /\ subs' = subs
      /\ pauses' \in [PauseIds -> SubscriptionPause \cup {Absent}]
      /\ told' \subseteq NoticeType \X SubIds /\ UNCHANGED now
      /\ was' \in [SubIds -> SUBSET History]
  BY <1>1 DEF Typed
<1> QED BY <1>3, <1>5, <1>6, <1>7, AdvanceIsRest, Assembled

LEMMA InsertSharingInv ==
    ASSUME SubInv, NEW h \in Handlers, NEW x \in SharingIds, InsertSharing(h, x)
    PROVE  SubInv'
<1> DEFINE c == calls[h]
           d == [c EXCEPT !.item = Absent]
<1>1. /\ At(h, "insertSharing") /\ sharings' = [sharings EXCEPT ![x] = c.item]
      /\ subs[c.sub] # Absent
      /\ Advance(h, d) /\ UNCHANGED <<subs, pauses, was, told, now>>
  BY DEF InsertSharing
<1>2. /\ c \in Call /\ c.todo # <<>> /\ Head(c.todo) = "insertSharing"
      /\ c.sub \in SubIds /\ c.item \in SubscriptionSharing /\ c.item.sub = c.sub
  BY <1>1, AtStep DEF Knows
<1>3. d \in Call /\ d.todo = c.todo /\ d.sub = c.sub
  BY <1>2 DEF Call
<1> HIDE DEF d
<1> QED BY <1>1, <1>2, <1>3, SharingStored

\* A sharing gets another status.
LEMMA SharingUpdated ==
    ASSUME NEW row \in SubscriptionSharing, NEW copy \in SubscriptionSharing
    PROVE  LET new == Updated(row, copy, {"status"})
           IN  /\ new \in SubscriptionSharing /\ new # Absent
               /\ new.sub = row.sub /\ new.status = copy.status
<1> DEFINE new == [row EXCEPT !.status = copy.status]
<1>1. /\ new \in SubscriptionSharing /\ new.sub = row.sub /\ new.status = copy.status
  BY DEF SubscriptionSharing
<1>2. row # Absent
  BY AbsentIsNoRow
<1>3. Updated(row, copy, {"status"}) = new
  BY <1>2 DEF Updated, Patched, SubscriptionSharing
<1> HIDE DEF new
<1> QED BY <1>1, <1>3, AbsentIsNoRow

LEMMA WriteSharingInv ==
    ASSUME SubInv, NEW h \in Handlers, WriteSharing(h)
    PROVE  SubInv'
<1> DEFINE c == calls[h]
           x == c.key
<1>1. /\ At(h, "writeSharing") /\ Advance(h, c) /\ UNCHANGED <<subs, pauses, was, told, now>>
  BY DEF WriteSharing
<1>2. PICK row \in SavedAs(sharings[x], c.item, {"status"}, subs[c.sub]) :
          sharings' = [sharings EXCEPT ![x] = row]
  BY DEF WriteSharing
<1>3. /\ c \in Call /\ c.todo # <<>> /\ Head(c.todo) = "writeSharing"
      /\ c.sub \in SubIds /\ c.item \in SubscriptionSharing /\ c.item.sub = c.sub
      /\ x \in SharingIds
  BY <1>1, AtStep DEF Knows
<1>4. /\ row \in SubscriptionSharing \cup {Absent}
      /\ row # Absent => subs[row.sub] # Absent
  <2>1. CASE sharings[x] # Absent /\ row = Updated(sharings[x], c.item, {"status"})
    <3>1. sharings[x] \in SubscriptionSharing /\ subs[sharings[x].sub] # Absent
      BY <1>3, <2>1 DEF SubInv, Typed, SharingsStand
    <3> QED BY <1>3, <2>1, <3>1, SharingUpdated
  <2>2. CASE row = Absent
    BY <2>2
  <2>3. CASE subs[c.sub] # Absent /\ row = c.item
    BY <1>3, <2>3
  <2> QED BY <2>1, <2>2, <2>3, SavedCases
<1> QED BY <1>1, <1>2, <1>3, <1>4, SharingStored

LEMMA TellInv ==
    ASSUME SubInv, NEW h \in Handlers, NEW type \in NoticeType, Tell(h, type)
    PROVE  SubInv'
<1> DEFINE c == calls[h]
<1>1. /\ At(h, type) /\ told' = told \cup {<<type, c.sub>>}
      /\ Advance(h, c) /\ UNCHANGED <<tables, now>>
  BY DEF Tell
<1>2. /\ c \in Call /\ c.todo # <<>> /\ Head(c.todo) = type
      /\ c.sub \in SubIds
  BY <1>1, AtStep DEF Knows, NoticeType
<1>3. \A t \in After(type) : Knows(c, t, pauses, was)
  BY <1>2 DEF After, Knows, NoticeType
<1>4. Rest(c) \in Call /\ CallBacked(Rest(c), pauses, was)
  BY <1>2, <1>3, RestBacked
<1>5. told' \subseteq NoticeType \X SubIds
  BY <1>1, <1>2 DEF SubInv, Typed
<1> QED BY <1>1, <1>4, <1>5, AdvanceIsRest, HandlerMoves

----------------------------------------------------------------------------
(* Removals                                                                *)

\* What is left of the tables when the subscriptions gone are removed.
Left(gone) ==
    /\ \A s \in SubIds :
        /\ subs'[s] = IF s \in gone THEN Absent ELSE subs[s]
        /\ was'[s] = IF s \in gone THEN was[s] \cup {"deleted"} ELSE was[s]
        /\ Paused(s, pauses') \subseteq Paused(s, pauses)
        /\ s \notin gone => /\ Paused(s, pauses') = Paused(s, pauses)
                           /\ \A p \in Paused(s, pauses) : pauses'[p] = pauses[p]
    /\ \A p \in PauseIds : /\ pauses'[p] = Absent \/ pauses'[p] = pauses[p]
                           /\ pauses'[p] # Absent => pauses[p].sub \notin gone
    /\ \A x \in SharingIds : /\ sharings'[x] = Absent \/ sharings'[x] = sharings[x]
                             /\ sharings'[x] # Absent => sharings[x].sub \notin gone
    /\ UNCHANGED <<calls, told, now>>

LEMMA Remaining ==
    ASSUME NEW gone \in SUBSET SubIds, NEW lost, Cascade(gone, lost)
    PROVE  Left(gone)
<1>1. /\ \A s \in SubIds :
            /\ subs'[s] = IF s \in gone THEN Absent ELSE subs[s]
            /\ was'[s] = IF s \in gone THEN was[s] \cup {"deleted"} ELSE was[s]
      /\ \A p \in PauseIds : pauses'[p] =
            IF \E s \in gone : p \in PausesOf(s) THEN Absent ELSE pauses[p]
      /\ \A x \in SharingIds : sharings'[x] =
            IF x \in lost \/ \E s \in gone : x \in SharingsOf(s) THEN Absent ELSE sharings[x]
      /\ UNCHANGED <<calls, told, now>>
  BY DEF Cascade
<1>2. \A p \in PauseIds : /\ pauses'[p] = Absent \/ pauses'[p] = pauses[p]
                          /\ pauses'[p] # Absent => pauses[p].sub \notin gone
  BY <1>1 DEF PausesOf
<1>3. \A x \in SharingIds : /\ sharings'[x] = Absent \/ sharings'[x] = sharings[x]
                            /\ sharings'[x] # Absent => sharings[x].sub \notin gone
  BY <1>1 DEF SharingsOf
<1>4. ASSUME NEW s \in SubIds
      PROVE  /\ Paused(s, pauses') \subseteq Paused(s, pauses)
             /\ s \notin gone => /\ Paused(s, pauses') = Paused(s, pauses)
                                /\ \A p \in Paused(s, pauses) : pauses'[p] = pauses[p]
  <2>1. s \notin gone => \A p \in Paused(s, pauses) : pauses'[p] = pauses[p]
    BY <1>1 DEF Paused, PausesOf
  <2> QED BY <1>2, <2>1 DEF Paused
<1> QED BY <1>1, <1>2, <1>3, <1>4 DEF Left

LEMMA CascadeInv ==
    ASSUME SubInv, NEW gone \in SUBSET SubIds, NEW lost, Cascade(gone, lost)
    PROVE  SubInv'
<1>1. Typed /\ StatusKnown /\ SharingsStand /\ Left(gone)
  BY Remaining DEF SubInv
<1>2. /\ subs' \in [SubIds -> Subscription \cup {Absent}]
      /\ pauses' \in [PauseIds -> SubscriptionPause \cup {Absent}]
      /\ sharings' \in [SharingIds -> SubscriptionSharing \cup {Absent}]
      /\ was' \in [SubIds -> SUBSET History]
  BY <1>1 DEF Cascade, Typed, History
<1>3. Grown
  <2> SUFFICES ASSUME NEW s \in SubIds
               PROVE  /\ was[s] \subseteq was'[s] /\ IsFiniteSet(Paused(s, pauses'))
                      /\ \/ Cardinality(Paused(s, pauses)) <= Cardinality(Paused(s, pauses'))
                         \/ "deleted" \in was'[s]
    BY DEF Grown
  <2>1. IsFiniteSet(Paused(s, pauses')) /\ was[s] \subseteq was'[s]
    BY <1>1, Counts, FS_Subset DEF Left
  <2>2. CASE s \in gone
    BY <1>1, <2>1, <2>2 DEF Left
  <2>3. CASE s \notin gone
    <3>1. Paused(s, pauses') = Paused(s, pauses)
      BY <1>1, <2>3 DEF Left
    <3>2. Cardinality(Paused(s, pauses)) <= Cardinality(Paused(s, pauses'))
      BY <3>1, Counts
    <3> QED BY <2>1, <3>2
  <2> QED BY <2>2, <2>3
<1>4. StatusKnown' /\ SharingsStand'
  <2>1. StatusKnown'
    BY <1>1 DEF Left, StatusKnown
  <2>2. \A x \in SharingIds : sharings[x] # Absent => sharings[x].sub \in SubIds
    BY <1>1 DEF Typed, SubscriptionSharing
  <2>3. SharingsStand'
    BY <1>1, <2>2 DEF Left, SharingsStand
  <2> QED BY <2>1, <2>3
<1>5. \A s \in SubIds : subs'[s] # Absent => subs'[s] = subs[s]
  BY <1>1 DEF Left
<1>6. /\ calls' \in [Handlers -> Call] /\ \A g \in Handlers : calls'[g] = calls[g]
      /\ told' \subseteq NoticeType \X SubIds /\ UNCHANGED now
  BY <1>1 DEF Left, Typed
<1> QED BY <1>2, <1>3, <1>4, <1>5, <1>6, Assembling

\* A user or the parking is removed.
LEMMA Removals ==
    ASSUME NEW u, RemoveUser(u) \/ RemoveParking
    PROVE  \E gone \in SUBSET SubIds, lost \in SUBSET SharingIds : Cascade(gone, lost)
<1>1. CASE RemoveUser(u)
  <2> DEFINE gone == {s \in Subscribed : subs[s].user = u}
             lost == {x \in SharingIds : sharings[x] # Absent /\ sharings[x].user = u}
  <2>1. Cascade(gone, lost) /\ gone \in SUBSET SubIds /\ lost \in SUBSET SharingIds
    BY <1>1 DEF RemoveUser, Subscribed
  <2> HIDE DEF gone, lost
  <2> QED BY <2>1
<1>2. CASE RemoveParking
  BY <1>2 DEF RemoveParking, Subscribed
<1> QED BY <1>1, <1>2

----------------------------------------------------------------------------
(* The theorems that hold however requests interleave                      *)

LEMMA SubInvInit ==
    ASSUME Init
    PROVE  SubInv
<1>1. Typed
  BY Idling, SubConstants DEF Init, Typed, Time
<1>2. \A s : Paused(s, pauses) = {}
  BY DEF Init, Paused
<1>3. SubsCharged
  BY <1>2, FS_EmptySet DEF Init, SubsCharged
<1> QED BY <1>1, <1>3, Idling DEF SubInv, Init, CallsBacked, StatusKnown, SharingsStand

LEMMA SubInvNext ==
    ASSUME SubInv, [Next]_subVars
    PROVE  SubInv'
<1>1. ASSUME NEW h \in Handlers, NEW u \in Users, Request(h, u)
      PROVE  SubInv'
  BY <1>1, CreateInv, UpdateInv, CancelInv, PauseInv, ResumeInv, ShareInv, RespondInv,
     RevokeInv DEF Request
<1>2. ASSUME NEW h \in Handlers, Step(h)
      PROVE  SubInv'
  BY <1>2, CheckActiveInv, InsertSubInv, InsertPauseInv, SelectSubInv, RestoreSubInv,
     WriteSubInv, FindPauseInv, EndPauseInv, CheckSharedInv, InsertSharingInv,
     WriteSharingInv, GivingUp, TellInv DEF Step, Orphaned
<1>3. ASSUME NEW h \in Handlers, Fail(h)
      PROVE  SubInv'
  BY <1>3, GivingUp DEF Fail
<1>6. ASSUME NEW u, RemoveUser(u) \/ RemoveParking
      PROVE  SubInv'
  BY <1>6, Removals, CascadeInv
<1>4. CASE Tick
  <2>1. now' \in Time
    BY <1>4, SubConstants DEF Tick, SubInv, Typed, Time
  <2> QED BY <1>4, <2>1 DEF Tick, tables, SubInv, Typed, SubsCharged, CallsBacked,
                             StatusKnown, SharingsStand
<1>5. CASE UNCHANGED subVars
  BY <1>5 DEF subVars, tables, SubInv, Typed, SubsCharged, CallsBacked, StatusKnown,
              SharingsStand
<1> QED BY <1>1, <1>2, <1>3, <1>4, <1>5, <1>6 DEF Next

\* What is stored, and what every handler holds, stays as SubInv says however
\* requests interleave and die.
THEOREM SubInvariance == Spec => []SubInv
<1>1. Init => SubInv
  BY SubInvInit
<1>2. SubInv /\ [Next]_subVars => SubInv'
  BY SubInvNext
<1> QED BY <1>1, <1>2, PTL DEF Spec

\* Rows, handlers and history are what the entities and handlers of
\* subscriptions.service.ts can build.
THEOREM SubTypes == Spec => []SubTypeOK
<1>1. SubInv => SubTypeOK
  <2> SUFFICES ASSUME SubInv, NEW h \in Handlers
               PROVE  /\ calls[h].todo \in Seq(Steps)
                      /\ calls[h].sub \in SubIds \cup {NoId}
                      /\ calls[h].entity \in Subscription \cup {Absent}
                      /\ calls[h].key \in PauseIds \cup SharingIds \cup {NoId}
                      /\ calls[h].item \in SubscriptionPause \cup SubscriptionSharing
                                              \cup {Absent}
    BY DEF SubInv, Typed, SubTypeOK
  <2>1. calls[h] \in Call
    BY DEF SubInv, Typed
  <2> QED BY <2>1, ListsAreSteps DEF Call
<1> QED BY <1>1, SubInvariance, PTL

\* No subscription is charged for a pause that was not recorded, and what it
\* was charged and what remains make up the allowance, whichever stale copies
\* are saved (pauseSubscription, resumeSubscription, update, cancel).
THEOREM ChargesAreBacked == Spec => []PausesAreCharged
<1>1. SubInv => PausesAreCharged
  BY DEF SubInv, SubsCharged, PausesAreCharged, Subscribed, Charged, Paused, PausesOf
<1> QED BY <1>1, SubInvariance, PTL

----------------------------------------------------------------------------
(* What pauses took together.  MapThenSumSet adds them up in an order that *)
(* CHOOSE picks; the sum is the same in any.                               *)

\* Induction over a finite set.
LEMMA OneByOne ==
    ASSUME NEW S, IsFiniteSet(S), NEW A, {} \in A,
           \A T \in SUBSET S : (T # {} /\ \A x \in T : T \ {x} \in A) => T \in A
    PROVE  \A T \in SUBSET S : T \in A
<1> DEFINE R == StrictSubsetOrdering(S)
           F == FiniteSubsetsOf(S)
           B == (SUBSET S) \ A
<1>1. IsWellFoundedOn(R, F)
  BY FS_StrictSubsetOrderingWellFounded
<1>2. B \subseteq F
  BY FS_Subset DEF FiniteSubsetsOf
<1>3. SUFFICES ASSUME B # {} PROVE FALSE
  OBVIOUS
<1>4. PICK T \in B : \A U \in B : ~ (<<U, T>> \in R)
  <2> HIDE DEF B, R, F
  <2> QED BY <1>1, <1>2, <1>3, WFMin
<1>5. PICK x \in T : T \ {x} \notin A
  OBVIOUS
<1>6. <<T \ {x}, T>> \in R
  BY <1>5 DEF StrictSubsetOrdering
<1> QED BY <1>4, <1>5, <1>6

\* g gives every subset of S the sum of its members' d, whichever is added last.
Adds(g, d, S) ==
    /\ g \in [SUBSET S -> Int]
    /\ g[{}] = 0
    /\ \A T \in SUBSET S : \A x \in T : g[T] = d[x] + g[T \ {x}]

LEMMA SumsExist ==
    ASSUME NEW S, IsFiniteSet(S), NEW d \in [S -> Int]
    PROVE  \E g : Adds(g, d, S)
<1> DEFINE A == {T \in SUBSET S : \E g : Adds(g, d, T)}
<1>1. {} \in A
  <2>1. Adds([T \in {{}} |-> 0], d, {})
    BY DEF Adds
  <2> QED BY <2>1
<1>2. ASSUME NEW T \in SUBSET S, NEW x \in T, NEW f, Adds(f, d, T \ {x})
      PROVE  \E g : Adds(g, d, T)
  <2> DEFINE g == [U \in SUBSET T |-> IF x \in U THEN d[x] + f[U \ {x}] ELSE f[U]]
  <2>0. d[x] \in Int /\ \A U \in SUBSET T : f[U \ {x}] \in Int
    BY <1>2 DEF Adds
  <2>1. g \in [SUBSET T -> Int]
    <3>1. \A U \in SUBSET T : x \notin U => U \ {x} = U
      OBVIOUS
    <3>2. ASSUME NEW U \in SUBSET T
          PROVE  (IF x \in U THEN d[x] + f[U \ {x}] ELSE f[U]) \in Int
      <4> DEFINE rest == f[U \ {x}]
      <4>0. d[x] \in Int /\ rest \in Int
        BY <2>0
      <4>1. CASE x \in U
        <5>1. d[x] + rest \in Int
          BY <4>0
        <5> QED BY <4>1, <5>1
      <4>2. CASE x \notin U
        BY <2>0, <3>1, <4>2
      <4> QED BY <4>1, <4>2
    <3> QED BY <3>2
  <2>2. g[{}] = 0
    BY <1>2 DEF Adds
  <2>3. ASSUME NEW U \in SUBSET T, NEW y \in U
        PROVE  g[U] = d[y] + g[U \ {y}]
    <3>1. CASE y = x
      BY <3>1
    <3>2. CASE y # x /\ x \in U
      <4>1. (U \ {x}) \ {y} = (U \ {y}) \ {x}
        OBVIOUS
      <4>2. f[U \ {x}] = d[y] + f[(U \ {x}) \ {y}]
        <5>1. U \ {x} \in SUBSET (T \ {x}) /\ y \in U \ {x}
          BY <3>2
        <5> QED BY <1>2, <5>1 DEF Adds
      <4>3. g[U] = d[x] + f[U \ {x}] /\ g[U \ {y}] = d[x] + f[(U \ {y}) \ {x}]
        BY <3>2
      <4> DEFINE rest == f[(U \ {y}) \ {x}]
      <4>4. d[x] \in Int /\ d[y] \in Int /\ rest \in Int
        BY <2>0
      <4>5. g[U] = d[x] + (d[y] + rest) /\ g[U \ {y}] = d[x] + rest
        BY <4>1, <4>2, <4>3
      <4> HIDE DEF g, rest
      <4> QED BY <4>4, <4>5
    <3>3. CASE x \notin U
      <4>1. U \in SUBSET (T \ {x})
        BY <3>3
      <4> QED BY <1>2, <3>3, <4>1 DEF Adds
    <3> QED BY <3>1, <3>2, <3>3
  <2> HIDE DEF g
  <2>4. Adds(g, d, T)
    BY <2>1, <2>2, <2>3 DEF Adds
  <2> QED BY <2>4
<1>3. \A T \in SUBSET S : (T # {} /\ \A x \in T : T \ {x} \in A) => T \in A
  BY <1>2
<1> HIDE DEF A
<1>4. S \in A
  BY <1>1, <1>3, OneByOne
<1> QED BY <1>4 DEF A

\* The time that the pauses P took, as EndMakesUpForPauses has it.
Took(ps, P) == MapThenSumSet(LAMBDA p : ps[p].end - ps[p].start, P)

LEMMA TookIs ==
    ASSUME NEW ps, NEW S, IsFiniteSet(S), NEW d \in [S -> Int],
           \A p \in S : d[p] = ps[p].end - ps[p].start,
           NEW g, Adds(g, d, S)
    PROVE  Took(ps, S) = g[S]
<1> DEFINE step(f) == [T \in SUBSET S |->
                          IF T = {} THEN 0
                          ELSE LET p == CHOOSE x \in T : TRUE
                               IN  (ps[p].end - ps[p].start) + f[T \ {p}]]
           f == CHOOSE h : h = step(h)
<1>1. Took(ps, S) = f[S]
  BY DEF Took, MapThenSumSet, MapThenFoldSet
<1>2. g = step(g)
  <2>1. ASSUME NEW T \in SUBSET S, T # {}
        PROVE  LET p == CHOOSE x \in T : TRUE
               IN  g[T] = (ps[p].end - ps[p].start) + g[T \ {p}]
    BY <2>1 DEF Adds
  <2>2. g = [T \in SUBSET S |-> g[T]] /\ g[{}] = 0
    BY DEF Adds
  <2> QED BY <2>1, <2>2
<1>3. f = step(f)
  <2> HIDE DEF step
  <2> QED BY <1>2
<1> HIDE DEF f
<1> DEFINE A == {T \in SUBSET S : f[T] = g[T]}
<1>4. {} \in A
  <2>1. f[{}] = 0
    BY <1>3
  <2> QED BY <2>1 DEF Adds
<1>5. ASSUME NEW T \in SUBSET S, T # {}, \A x \in T : T \ {x} \in A
      PROVE  T \in A
  <2> DEFINE p == CHOOSE x \in T : TRUE
  <2>1. p \in T /\ T \ {p} \in SUBSET S
    BY <1>5
  <2>2. f[T] = (ps[p].end - ps[p].start) + f[T \ {p}]
    BY <1>3, <1>5
  <2>3. g[T] = d[p] + g[T \ {p}]
    BY <2>1 DEF Adds
  <2> HIDE DEF p
  <2> QED BY <1>5, <2>1, <2>2, <2>3
<1> HIDE DEF A
<1>6. S \in A
  BY <1>4, <1>5, OneByOne
<1> QED BY <1>1, <1>6 DEF A

LEMMA TookType ==
    ASSUME NEW ps, NEW S, IsFiniteSet(S), \A p \in S : ps[p].end - ps[p].start \in Int
    PROVE  Took(ps, S) \in Int
<1> DEFINE d == [p \in S |-> ps[p].end - ps[p].start]
<1>1. d \in [S -> Int] /\ \A p \in S : d[p] = ps[p].end - ps[p].start
  OBVIOUS
<1> HIDE DEF d
<1>2. PICK g : Adds(g, d, S)
  BY <1>1, SumsExist
<1>3. Took(ps, S) = g[S]
  BY <1>1, <1>2, TookIs
<1> QED BY <1>2, <1>3 DEF Adds

LEMMA TookNone ==
    ASSUME NEW ps
    PROVE  Took(ps, {}) = 0
<1> DEFINE d == [p \in {} |-> 0]
           g == [T \in {{}} |-> 0]
<1>1. d \in [{} -> Int] /\ IsFiniteSet({})
  BY FS_EmptySet
<1>2. Adds(g, d, {})
  BY DEF Adds
<1>3. g[{}] = 0
  OBVIOUS
<1> HIDE DEF d, g
<1> QED BY <1>1, <1>2, <1>3, TookIs

\* The pauses p and the others of S.
LEMMA TookOneMore ==
    ASSUME NEW ps, NEW S, IsFiniteSet(S), \A p \in S : ps[p].end - ps[p].start \in Int,
           NEW q \in S
    PROVE  Took(ps, S) = (ps[q].end - ps[q].start) + Took(ps, S \ {q})
<1> DEFINE d == [p \in S |-> ps[p].end - ps[p].start]
           R == S \ {q}
           e == [p \in R |-> d[p]]
<1>1. /\ d \in [S -> Int] /\ \A p \in S : d[p] = ps[p].end - ps[p].start
      /\ e \in [R -> Int] /\ \A p \in R : e[p] = ps[p].end - ps[p].start
      /\ \A p \in R : e[p] = d[p]
  OBVIOUS
<1> HIDE DEF d, e
<1>2. PICK g : Adds(g, d, S)
  BY <1>1, SumsExist
<1> DEFINE f == [T \in SUBSET R |-> g[T]]
<1>3. Adds(f, e, R)
  BY <1>1, <1>2 DEF Adds
<1>4. IsFiniteSet(R) /\ f[R] = g[R]
  BY FS_RemoveElement
<1> HIDE DEF f
<1>5. Took(ps, S) = g[S]
  BY <1>1, <1>2, TookIs
<1>6. Took(ps, R) = g[R]
  BY <1>1, <1>3, <1>4, TookIs
<1>7. g[S] = d[q] + g[R]
  BY <1>2 DEF Adds
<1> QED BY <1>1, <1>5, <1>6, <1>7

LEMMA TookSame ==
    ASSUME NEW ps, NEW qs, NEW S, IsFiniteSet(S),
           \A p \in S : ps[p].end - ps[p].start \in Int /\ qs[p] = ps[p]
    PROVE  Took(qs, S) = Took(ps, S)
<1> DEFINE d == [p \in S |-> ps[p].end - ps[p].start]
<1>1. /\ d \in [S -> Int] /\ \A p \in S : d[p] = ps[p].end - ps[p].start
      /\ \A p \in S : d[p] = qs[p].end - qs[p].start
  OBVIOUS
<1> HIDE DEF d
<1>2. PICK g : Adds(g, d, S)
  BY <1>1, SumsExist
<1> QED BY <1>1, <1>2, TookIs

----------------------------------------------------------------------------
(* While requests come one at a time                                       *)

\* The end of a row makes up for the pauses of s.
Balanced(s, row, ps) ==
    LET end == row.start + PlanLength + Took(ps, Paused(s, ps))
    IN  /\ row.end >= end
        /\ row.end <= end + (Day - 1) * Cardinality(Paused(s, ps))

\* What a handler will save over a row leaves it its user and start, and makes
\* it active only if it is, or was paused.
Keeps(row, new, had) ==
    /\ new.user = row.user /\ new.start = row.start
    /\ new.status = "active" => row.status = "active" \/ "paused" \in had

\* What a handler has read is still so when it comes to await s.
SeesAt(c, s, ss, ps, xs, ws) ==
    /\ s \in {"checkActive", "insertSub"} => c.entity.end = c.entity.start + PlanLength
    /\ s = "insertSub" =>
            \A r \in SubIds : ss[r] # Absent /\ ss[r].user = c.entity.user
                                => ss[r].status # "active"
    /\ s \in {"insertPause", "findPause", "endPause", "selectSub", "writeSub"} =>
            ss[c.sub] # Absent /\ Keeps(ss[c.sub], c.entity, ws[c.sub])
    /\ s = "insertPause" =>
            /\ c.item.start < c.item.end
            /\ c.entity.end = ss[c.sub].end + Days(c.item.start, c.item.end) * Day
    /\ s = "findPause" => c.entity.end = ss[c.sub].end
    /\ s = "endPause" =>
            /\ c.key \in Paused(c.sub, ps) /\ c.item.end = c.at
            /\ c.entity.end = ss[c.sub].end - (ps[c.key].end - c.at)
    /\ s \in {"selectSub", "writeSub"} => Balanced(c.sub, c.entity, ps)
    /\ s = "writeSub" => c.cols = Dirty(c.entity, ss[c.sub])
    /\ s = "writeSharing" => xs[c.key].status = "pending" \/ c.item.status = "revoked"

Sees(c, ss, ps, xs, ws) == c.todo # <<>> => SeesAt(c, Head(c.todo), ss, ps, xs, ws)
CallsSeen == \A h \in Handlers : Sees(calls[h], subs, pauses, sharings, was)

\* The handler is about to save s.
Saving(c, s) == c.todo # <<>> /\ Head(c.todo) \in {"selectSub", "writeSub"} /\ c.sub = s

Alone == \A g, h \in Handlers : calls[g] # Idle /\ calls[h] # Idle => g = h

OneActive ==
    \A s1, s2 \in Subscribed :
        (/\ s1 # s2 /\ subs[s1].user = subs[s2].user
         /\ subs[s1].status = "active" /\ subs[s2].status = "active")
            => "paused" \in was[s1] \cup was[s2]

\* A row that nobody is about to save is balanced.
RowsBalanced ==
    \A s \in Subscribed : \/ Balanced(s, subs[s], pauses)
                          \/ \E h \in Handlers : Saving(calls[h], s)

PausesStand == \A p \in PauseIds : pauses[p] # Absent => subs[pauses[p].sub] # Absent

CleanInv == clean => Alone /\ OneActive /\ RowsBalanced /\ PausesStand /\ CallsSeen

\* Handler h has no company: either it is idle and accepts a request, or it
\* goes on with the one it has.
Moves(h) == Accept(h) \/ (calls[h] # Idle /\ UNCHANGED clean)

\* The rows are balanced, when c is the one handler at work.
BalancedBut(c, ss, ps) ==
    \A s \in SubIds : ss[s] # Absent => Balanced(s, ss[s], ps) \/ Saving(c, s)

LEMMA IdleSees ==
    /\ \A ss, ps, xs, ws : Sees(Idle, ss, ps, xs, ws)
    /\ \A s : ~ Saving(Idle, s)
BY DEF Sees, Saving, Idle

LEMMA NoCompany ==
    ASSUME CleanInv, NEW h \in Handlers, Moves(h), clean'
    PROVE  /\ clean /\ OneActive /\ PausesStand
           /\ \A g \in Handlers : g # h => calls[g] = Idle
           /\ Sees(calls[h], subs, pauses, sharings, was)
           /\ BalancedBut(calls[h], subs, pauses)
<1>1. clean /\ \A g \in Handlers : g # h => calls[g] = Idle
  <2>1. CASE Accept(h)
    BY <2>1 DEF Accept
  <2>2. CASE calls[h] # Idle /\ UNCHANGED clean
    BY <2>2 DEF CleanInv, Alone
  <2> QED BY <2>1, <2>2 DEF Moves
<1>2. BalancedBut(calls[h], subs, pauses)
  BY <1>1, IdleSees DEF CleanInv, RowsBalanced, BalancedBut, Subscribed
<1> QED BY <1>1, <1>2 DEF CleanInv, CallsSeen

\* The handler moves on in the way of a clean execution.
LEMMA MovesOn ==
    ASSUME SubInv, CleanInv, NEW h \in Handlers, Moves(h), NEW c,
           calls' = [calls EXCEPT ![h] = c],
           clean' => /\ OneActive' /\ PausesStand' /\ BalancedBut(c, subs', pauses')
                     /\ Sees(c, subs', pauses', sharings', was')
    PROVE  CleanInv'
<1> SUFFICES ASSUME clean' PROVE (Alone /\ RowsBalanced /\ CallsSeen)'
  BY DEF CleanInv
<1>1. \A g \in Handlers : calls'[g] = IF g = h THEN c ELSE Idle
  BY NoCompany DEF SubInv, Typed
<1>2. Alone'
  BY <1>1 DEF Alone
<1>3. CallsSeen'
  BY <1>1, IdleSees DEF CallsSeen
<1>4. RowsBalanced'
  BY <1>1 DEF BalancedBut, RowsBalanced, Subscribed
<1> QED BY <1>2, <1>3, <1>4

\* No table changes but that of sharings.
LEMMA MovesKeeping ==
    ASSUME SubInv, CleanInv, NEW h \in Handlers, Moves(h), NEW c,
           calls' = [calls EXCEPT ![h] = c], UNCHANGED <<subs, pauses, was>>,
           clean => Sees(c, subs, pauses, sharings', was),
           \A s : Saving(calls[h], s) => Saving(c, s)
    PROVE  CleanInv'
<1>1. ASSUME clean'
      PROVE  /\ OneActive' /\ PausesStand' /\ BalancedBut(c, subs', pauses')
             /\ Sees(c, subs', pauses', sharings', was')
  <2>1. /\ clean /\ OneActive /\ PausesStand
        /\ BalancedBut(calls[h], subs, pauses)
    BY <1>1, NoCompany
  <2> QED BY <2>1 DEF OneActive, Subscribed, PausesStand, BalancedBut
<1> QED BY <1>1, MovesOn

\* A request is accepted.
LEMMA StartsClean ==
    ASSUME SubInv, CleanInv, NEW h \in Handlers, Accept(h), NEW c,
           calls' = [calls EXCEPT ![h] = c],
           (clean /\ BalancedBut(Idle, subs, pauses)) => Sees(c, subs, pauses, sharings, was)
    PROVE  CleanInv'
<1>1. Moves(h) /\ UNCHANGED <<subs, pauses, sharings, was>> /\ calls[h] = Idle
  BY DEF Moves, Accept, tables
<1>2. ASSUME clean' PROVE Sees(c, subs, pauses, sharings, was)
  BY <1>1, <1>2, NoCompany
<1>3. ASSUME clean'
      PROVE  /\ OneActive' /\ PausesStand' /\ BalancedBut(c, subs', pauses')
             /\ Sees(c, subs', pauses', sharings', was')
  <2>1. OneActive /\ PausesStand /\ BalancedBut(Idle, subs, pauses)
    BY <1>1, <1>3, NoCompany
  <2>2. BalancedBut(c, subs, pauses)
    BY <2>1, IdleSees DEF BalancedBut
  <2> QED BY <1>1, <1>2, <1>3, <2>1, <2>2 DEF OneActive, Subscribed, PausesStand, BalancedBut
<1> QED BY <1>1, <1>3, MovesOn

\* What a handler sees after its await.
LEMMA RestSees ==
    ASSUME NEW c \in Call, c.todo # <<>>, NEW ss, NEW ps, NEW xs, NEW ws,
           \A s \in After(Head(c.todo)) : SeesAt(c, s, ss, ps, xs, ws)
    PROVE  Sees(Rest(c), ss, ps, xs, ws)
<1>1. CASE Len(c.todo) = 1
  BY <1>1, IdleSees DEF Rest
<1>2. CASE Len(c.todo) # 1
  <2> DEFINE d == [c EXCEPT !.todo = Tail(c.todo)]
             s == Head(Tail(c.todo))
  <2>1. c.todo \in Lists
    BY DEF Call
  <2>2. Tail(c.todo) \in Lists /\ Tail(c.todo) # <<>> /\ s \in After(Head(c.todo))
    BY <1>2, <2>1, ListsLeft
  <2>3. Rest(c) = d
    BY <1>2 DEF Rest
  <2>4. /\ d \in Call /\ d.todo = Tail(c.todo) /\ d.sub = c.sub /\ d.entity = c.entity
        /\ d.cols = c.cols /\ d.key = c.key /\ d.item = c.item /\ d.at = c.at
    BY <2>2 DEF Call
  <2>5. SeesAt(c, s, ss, ps, xs, ws)
    BY <2>2
  <2> HIDE DEF d, s
  <2>6. SeesAt(d, s, ss, ps, xs, ws)
    BY <2>4, <2>5 DEF SeesAt
  <2> QED BY <2>2, <2>3, <2>4, <2>6 DEF Sees, s
<1> QED BY <1>1, <1>2

\* A pause that is recorded or ended, and a save that has looked, go on to
\* saving.
LEMMA GoesOnSaving ==
    ASSUME NEW c \in Call, c.todo # <<>>,
           Head(c.todo) \in {"insertPause", "endPause", "selectSub"}
    PROVE  Saving(Rest(c), c.sub)
<1>1. c.todo \in Lists
  BY DEF Call
<1>2. Len(c.todo) # 1
  BY <1>1, Tails DEF Lists
<1>3. /\ Tail(c.todo) # <<>> /\ Head(Tail(c.todo)) \in {"selectSub", "writeSub"}
      /\ Tail(c.todo) \in Lists
  BY <1>1, <1>2, ListsLeft DEF After
<1>4. Rest(c) = [c EXCEPT !.todo = Tail(c.todo)]
  BY <1>2 DEF Rest
<1>5. Rest(c).todo = Tail(c.todo) /\ Rest(c).sub = c.sub
  BY <1>4 DEF Call
<1> QED BY <1>3, <1>5 DEF Saving

\* A row whose start and end are those of a balanced one.
LEMMA SameBalance ==
    ASSUME NEW s, NEW ps, NEW row, NEW new, Balanced(s, row, ps),
           new.start = row.start, new.end = row.end
    PROVE  Balanced(s, new, ps)
BY DEF Balanced

----------------------------------------------------------------------------
(* Requests that come one at a time                                        *)

LEMMA CreateClean ==
    ASSUME SubInv, CleanInv, NEW h \in Handlers, NEW u \in Users, NEW start \in Starts,
           NEW autoRenew \in BOOLEAN, Create(h, u, start, autoRenew)
    PROVE  CleanInv'
<1> DEFINE todo == <<"checkActive", "insertSub", "created", "newSubscriber">>
           row == [user |-> u, start |-> start, end |-> start + PlanLength,
                   status |-> "active", autoRenew |-> autoRenew,
                   used |-> 0, remaining |-> Allowance]
           c == [Idle EXCEPT !.todo = todo, !.entity = row]
<1>1. calls' = [calls EXCEPT ![h] = c] /\ Accept(h)
  BY DEF Create, Goto
<1>2. row.end = row.start + PlanLength
  OBVIOUS
<1>3. todo # <<>> /\ Head(todo) = "checkActive"
  BY Tails
<1> HIDE DEF row, todo
<1>4. c.todo = todo /\ c.entity = row
  BY DEF Idle
<1> HIDE DEF c
<1>5. Sees(c, subs, pauses, sharings, was)
  BY <1>2, <1>3, <1>4 DEF Sees, SeesAt
<1> QED BY <1>1, <1>5, StartsClean

\* A new handler that saves a copy with the end of the row, or resumes it.
LEMMA SaveSees ==
    ASSUME NEW s \in SubIds, subs[s] # Absent, NEW c, c.sub = s,
           Keeps(subs[s], c.entity, was[s]), c.entity.end = subs[s].end,
           c.todo \in {SaveSub, ResumeSteps}, BalancedBut(Idle, subs, pauses)
    PROVE  Sees(c, subs, pauses, sharings, was)
<1>1. c.todo # <<>> /\ Head(c.todo) \in {"selectSub", "findPause"}
  BY ListsJoined
<1>2. Balanced(s, subs[s], pauses)
  BY IdleSees DEF BalancedBut
<1>3. Balanced(s, c.entity, pauses)
  BY <1>2, SameBalance DEF Keeps
<1> QED BY <1>1, <1>3 DEF Sees, SeesAt

LEMMA UpdateClean ==
    ASSUME SubInv, CleanInv, NEW h \in Handlers, NEW u, NEW s \in SubIds,
           NEW autoRenew \in BOOLEAN, Update(h, u, s, autoRenew)
    PROVE  CleanInv'
<1> DEFINE entity == [subs[s] EXCEPT !.autoRenew = autoRenew]
           c == Loaded(s, entity, SaveSub)
<1>1. subs[s] # Absent /\ Goto(h, c) /\ Accept(h)
  BY DEF Update, May
<1>2. entity \in Subscription /\ Keeps(subs[s], entity, was[s]) /\ entity.end = subs[s].end
  BY <1>1, TheSub DEF Subscription, Keeps
<1> HIDE DEF entity
<1>3. c.entity = entity /\ c.sub = s /\ c.todo = SaveSub
  BY <1>2, LoadedCall, ListsJoined
<1> HIDE DEF c
<1> QED BY <1>1, <1>2, <1>3, SaveSees, StartsClean DEF Goto

LEMMA CancelClean ==
    ASSUME SubInv, CleanInv, NEW h \in Handlers, NEW u, NEW s \in SubIds, Cancel(h, u, s)
    PROVE  CleanInv'
<1> DEFINE entity == [subs[s] EXCEPT !.status = "cancelled"]
           c == Loaded(s, entity, SaveSub)
<1>1. subs[s] # Absent /\ Goto(h, c) /\ Accept(h)
  BY DEF Cancel, May
<1>2. entity \in Subscription /\ Keeps(subs[s], entity, was[s]) /\ entity.end = subs[s].end
  BY <1>1, TheSub DEF Subscription, SubscriptionStatus, Keeps
<1> HIDE DEF entity
<1>3. c.entity = entity /\ c.sub = s /\ c.todo = SaveSub
  BY <1>2, LoadedCall, ListsJoined
<1> HIDE DEF c
<1> QED BY <1>1, <1>2, <1>3, SaveSees, StartsClean DEF Goto

LEMMA ResumeClean ==
    ASSUME SubInv, CleanInv, NEW h \in Handlers, NEW u, NEW s \in SubIds,
           ResumeSubscription(h, u, s)
    PROVE  CleanInv'
<1> DEFINE entity == [subs[s] EXCEPT !.status = "active"]
           l == Loaded(s, entity, ResumeSteps)
           c == [l EXCEPT !.at = now]
<1>1. subs[s] # Absent /\ subs[s].status = "paused" /\ Goto(h, c) /\ Accept(h)
  BY DEF ResumeSubscription, May, ResumeSteps
<1>2. "paused" \in was[s]
  BY <1>1, TheSub
<1>3. entity \in Subscription /\ Keeps(subs[s], entity, was[s]) /\ entity.end = subs[s].end
  BY <1>1, <1>2, TheSub DEF Subscription, SubscriptionStatus, Keeps
<1> HIDE DEF entity
<1>4. l \in Call /\ l.entity = entity /\ l.sub = s /\ l.todo = ResumeSteps
  BY <1>3, LoadedCall, ListsJoined
<1> HIDE DEF l
<1>5. c.entity = entity /\ c.sub = s /\ c.todo = ResumeSteps
  BY <1>4 DEF Call
<1> HIDE DEF c
<1> QED BY <1>1, <1>3, <1>5, SaveSees, StartsClean DEF Goto

LEMMA PauseClean ==
    ASSUME SubInv, CleanInv, NEW h \in Handlers, NEW u, NEW s \in SubIds,
           NEW start \in PauseDates, NEW end \in PauseDates,
           PauseSubscription(h, u, s, start, end)
    PROVE  CleanInv'
<1> DEFINE row == subs[s]
           entity == AsPaused(row, start, end)
           item == [sub |-> s, start |-> start, end |-> end]
           l == Loaded(s, entity, PauseSteps)
           c == [l EXCEPT !.item = item]
<1>1. row # Absent /\ calls' = [calls EXCEPT ![h] = c] /\ Accept(h) /\ start < end
  BY DEF PauseSubscription, May, Goto
<1>2. row \in Subscription
  BY <1>1, TheSub
<1>3. /\ Keeps(row, entity, was[s]) /\ entity.end = row.end + Days(start, end) * Day
  BY <1>2 DEF AsPaused, Keeps, Subscription
<1>4. item.start = start /\ item.end = end
  OBVIOUS
<1>5. l = [Idle EXCEPT !.todo = PauseSteps, !.sub = s, !.entity = entity,
                       !.seen = ChildrenOf(s)]
  BY DEF Loaded
<1> HIDE DEF entity, item
<1>6. c.todo = PauseSteps /\ c.sub = s /\ c.entity = entity /\ c.item = item
  BY <1>5 DEF Idle
<1> HIDE DEF c, l
<1>7. Sees(c, subs, pauses, sharings, was)
  BY <1>1, <1>3, <1>4, <1>6, ListsJoined DEF Sees, SeesAt
<1> QED BY <1>1, <1>7, StartsClean

LEMMA ShareClean ==
    ASSUME SubInv, CleanInv, NEW h \in Handlers, NEW u, NEW s \in SubIds, NEW target \in Users,
           ShareSubscription(h, u, s, target)
    PROVE  CleanInv'
<1> DEFINE todo == <<"checkShared", "insertSharing", "shared">>
           item == [sub |-> s, user |-> target, status |-> "pending"]
           c == [Idle EXCEPT !.todo = todo, !.sub = s, !.item = item]
<1>1. calls' = [calls EXCEPT ![h] = c] /\ Accept(h)
  BY DEF ShareSubscription, Goto
<1>2. todo # <<>> /\ Head(todo) = "checkShared"
  BY Tails
<1> HIDE DEF todo, item
<1>3. c.todo = todo
  BY DEF Idle
<1> HIDE DEF c
<1>4. Sees(c, subs, pauses, sharings, was)
  BY <1>2, <1>3 DEF Sees, SeesAt
<1> QED BY <1>1, <1>4, StartsClean

\* Who answers a sharing has read that it is pending.
LEMMA SharingClean ==
    ASSUME SubInv, CleanInv, NEW h \in Handlers, NEW x, NEW item,
           NEW last, NEW s, Accept(h),
           Goto(h, [Idle EXCEPT !.todo = <<"writeSharing", last>>, !.sub = s,
                                !.key = x, !.item = item]),
           sharings[x].status = "pending" \/ item.status = "revoked"
    PROVE  CleanInv'
<1> DEFINE todo == <<"writeSharing", last>>
           c == [Idle EXCEPT !.todo = todo, !.sub = s, !.key = x, !.item = item]
<1>1. calls' = [calls EXCEPT ![h] = c]
  BY DEF Goto
<1>2. todo # <<>> /\ Head(todo) = "writeSharing"
  BY Tails
<1> HIDE DEF todo
<1>3. c.todo = todo /\ c.key = x /\ c.item = item
  BY DEF Idle
<1> HIDE DEF c
<1>4. Sees(c, subs, pauses, sharings, was)
  BY <1>2, <1>3 DEF Sees, SeesAt
<1> QED BY <1>1, <1>4, StartsClean

LEMMA RespondClean ==
    ASSUME SubInv, CleanInv, NEW h \in Handlers, NEW u, NEW x \in SharingIds,
           NEW accept \in BOOLEAN, RespondToSharing(h, u, x, accept)
    PROVE  CleanInv'
<1> DEFINE item == [sharings[x] EXCEPT !.status = IF accept THEN "accepted" ELSE "rejected"]
<1>1. /\ Accept(h) /\ sharings[x].status = "pending"
      /\ Goto(h, [Idle EXCEPT !.todo = <<"writeSharing", "answered">>,
                              !.sub = sharings[x].sub, !.key = x, !.item = item])
  BY DEF RespondToSharing, Answerable
<1> HIDE DEF item
<1> QED BY <1>1, SharingClean

LEMMA RevokeClean ==
    ASSUME SubInv, CleanInv, NEW h \in Handlers, NEW u, NEW x \in SharingIds,
           RevokeSharing(h, u, x)
    PROVE  CleanInv'
<1> DEFINE item == [sharings[x] EXCEPT !.status = "revoked"]
<1>1. /\ Accept(h) /\ sharings[x] # Absent
      /\ Goto(h, [Idle EXCEPT !.todo = <<"writeSharing", "revoked">>,
                              !.sub = sharings[x].sub, !.key = x, !.item = item])
  BY DEF RevokeSharing
<1>2. item.status = "revoked"
  BY <1>1 DEF SubInv, Typed, SubscriptionSharing
<1> HIDE DEF item
<1> QED BY <1>1, <1>2, SharingClean

----------------------------------------------------------------------------
(* Steps of the one handler at work                                        *)

\* A step that reads, or writes nothing but sharings.
LEMMA StepClean ==
    ASSUME SubInv, CleanInv, NEW h \in Handlers, NEW s, At(h, s),
           s \notin {"selectSub", "writeSub"}, NEW c \in Call, c.todo = calls[h].todo,
           Advance(h, c), UNCHANGED <<subs, pauses, was, clean>>,
           clean => \A t \in After(s) : SeesAt(c, t, subs, pauses, sharings', was)
    PROVE  CleanInv'
<1>1. /\ c.todo # <<>> /\ Head(c.todo) = s
      /\ \A r : ~ Saving(calls[h], r)
  BY DEF At, Saving
<1>2. calls' = [calls EXCEPT ![h] = Rest(c)] /\ Moves(h)
  BY AdvanceIsRest DEF At, Idle, Moves
<1>3. clean => Sees(Rest(c), subs, pauses, sharings', was)
  BY <1>1, RestSees
<1> QED BY <1>1, <1>2, <1>3, MovesKeeping

\* A handler that is not about to save ends.
LEMMA EndsClean ==
    ASSUME SubInv, CleanInv, NEW h \in Handlers, NEW s, At(h, s),
           s \notin {"selectSub", "writeSub"},
           Goto(h, Idle), UNCHANGED <<subs, pauses, sharings, was, clean>>
    PROVE  CleanInv'
<1>1. \A r : ~ Saving(calls[h], r)
  BY DEF At, Saving
<1>2. calls' = [calls EXCEPT ![h] = Idle] /\ Moves(h)
  BY DEF At, Idle, Moves, Goto
<1> QED BY <1>1, <1>2, IdleSees, MovesKeeping

\* What the one handler at work sees.
LEMMA SeesHere ==
    ASSUME CleanInv, clean, NEW h \in Handlers, NEW s, At(h, s)
    PROVE  SeesAt(calls[h], s, subs, pauses, sharings, was)
BY DEF CleanInv, CallsSeen, Sees, At

LEMMA CheckActiveClean ==
    ASSUME SubInv, CleanInv, NEW h \in Handlers, CheckActive(h)
    PROVE  CleanInv'
<1> DEFINE c == calls[h]
<1>1. /\ At(h, "checkActive") /\ UNCHANGED <<subs, pauses, sharings, was, clean>>
      /\ \/ Goto(h, Idle)
         \/ ActiveSubs(c.entity) = {} /\ Advance(h, c)
  BY DEF CheckActive, tables
<1>2. c \in Call
  BY <1>1, AtStep
<1>3. ASSUME clean, ActiveSubs(c.entity) = {}, NEW t \in After("checkActive")
      PROVE  SeesAt(c, t, subs, pauses, sharings, was)
  <2>1. t = "insertSub"
    BY <1>3 DEF After
  <2>2. c.entity.end = c.entity.start + PlanLength
    BY <1>1, <1>3, SeesHere DEF SeesAt
  <2>3. \A r \in SubIds : subs[r] # Absent /\ subs[r].user = c.entity.user
                              => subs[r].status # "active"
    BY <1>3 DEF ActiveSubs
  <2> QED BY <2>1, <2>2, <2>3 DEF SeesAt
<1> HIDE DEF c
<1> QED BY <1>1, <1>2, <1>3, EndsClean, StepClean DEF c

LEMMA InsertSubClean ==
    ASSUME SubInv, CleanInv, NEW h \in Handlers, NEW s \in SubIds, InsertSub(h, s)
    PROVE  CleanInv'
<1> DEFINE c == calls[h]
           row == c.entity
           d == [c EXCEPT !.sub = s, !.entity = Absent]
<1>1. /\ At(h, "insertSub") /\ was[s] = {} /\ Store(s, row) /\ Advance(h, d)
      /\ UNCHANGED <<pauses, sharings, clean>>
  BY DEF InsertSub
<1>2. /\ c \in Call /\ c.todo # <<>> /\ Head(c.todo) = "insertSub" /\ row \in Subscription
  BY <1>1, AtStep DEF Knows
<1>3. d \in Call /\ d.todo = c.todo
  BY <1>2 DEF Call
<1>4. calls' = [calls EXCEPT ![h] = Rest(d)] /\ Moves(h)
  BY <1>1, AdvanceIsRest DEF At, Idle, Moves
<1> HIDE DEF d
<1>5. Sees(Rest(d), subs', pauses', sharings', was')
  BY <1>2, <1>3, RestSees DEF After, SeesAt
<1>6. \A r \in SubIds : /\ subs'[r] = IF r = s THEN row ELSE subs[r]
                        /\ was[r] \subseteq was'[r]
  BY <1>1 DEF Store, SubInv, Typed
<1>7. subs[s] = Absent
  BY <1>1, TheSub
<1>8. ASSUME clean'
      PROVE  OneActive' /\ PausesStand' /\ BalancedBut(Rest(d), subs', pauses')
  <2>1. /\ OneActive /\ PausesStand /\ BalancedBut(c, subs, pauses)
        /\ SeesAt(c, "insertSub", subs, pauses, sharings, was)
    BY <1>1, <1>4, <1>8, NoCompany, SeesHere
  <2>2. \A r \in SubIds : subs[r] # Absent /\ subs[r].user = row.user
                                => subs[r].status # "active"
    BY <2>1 DEF SeesAt
  <2>3. OneActive'
    BY <1>6, <2>1, <2>2 DEF OneActive, Subscribed
  <2>4. PausesStand'
    <3>1. row # Absent
      BY <1>2, AbsentIsNoRow
    <3>2. \A p \in PauseIds : pauses[p] # Absent => pauses[p].sub \in SubIds
      BY DEF SubInv, Typed, SubscriptionPause
    <3> QED BY <1>1, <1>6, <2>1, <3>1, <3>2 DEF PausesStand
  <2>5. Balanced(s, row, pauses)
    <3>1. Paused(s, pauses) = {}
      BY <1>7, <2>1 DEF Paused, PausesStand
    <3>2. /\ Took(pauses, Paused(s, pauses)) = 0
          /\ Cardinality(Paused(s, pauses)) = 0
      BY <3>1, TookNone, FS_EmptySet
    <3>3. row.end = row.start + PlanLength /\ row.start \in Nat /\ PlanLength \in Nat
          /\ Day \in Nat
      BY <1>2, <2>1, SubConstants DEF SeesAt, Subscription
    <3> QED BY <3>2, <3>3 DEF Balanced
  <2>6. \A r : ~ Saving(c, r)
    BY <1>2 DEF Saving
  <2>7. BalancedBut(Rest(d), subs', pauses')
    BY <1>1, <1>6, <2>1, <2>5, <2>6 DEF BalancedBut
  <2> QED BY <2>3, <2>4, <2>7
<1> QED BY <1>4, <1>5, <1>8, MovesOn

LEMMA SelectSubClean ==
    ASSUME SubInv, CleanInv, NEW h \in Handlers, SelectSub(h)
    PROVE  CleanInv'
<1> DEFINE c == calls[h]
           cols == Dirty(c.entity, subs[c.sub])
           d == [c EXCEPT !.cols = cols]
<1>1. /\ At(h, "selectSub") /\ UNCHANGED <<subs, pauses, sharings, was>>
      /\ subs[c.sub] # Absent
      /\ \/ clean' = FALSE
         \/ Advance(h, d) /\ UNCHANGED clean
  BY DEF SelectSub, tables
<1>2. CASE clean' = FALSE
  BY <1>2 DEF CleanInv
<1>3. CASE Advance(h, d) /\ UNCHANGED clean
  <2>1. /\ c \in Call /\ c.todo # <<>> /\ Head(c.todo) = "selectSub"
        /\ c.sub \in SubIds /\ subs[c.sub] # Absent /\ c.entity \in Subscription
    BY <1>1, AtStep DEF Knows
  <2>2. cols \in SUBSET SubColumns
    BY <2>1 DEF Dirty, Subscription, SubColumns
  <2>3. calls' = [calls EXCEPT ![h] = Rest(d)] /\ Moves(h)
    BY <1>1, <1>3, AdvanceIsRest DEF At, Idle, Moves
  <2> HIDE DEF cols
  <2>4. /\ d \in Call /\ d.todo = c.todo /\ d.sub = c.sub /\ d.entity = c.entity
        /\ d.cols = cols
    BY <2>1, <2>2 DEF Call
  <2> HIDE DEF d
  <2>5. ASSUME clean
        PROVE  Sees(Rest(d), subs, pauses, sharings, was)
    <3>1. SeesAt(c, "selectSub", subs, pauses, sharings, was)
      BY <1>1, <2>5, SeesHere
    <3>2. \A t \in After("selectSub") : SeesAt(d, t, subs, pauses, sharings, was)
      BY <2>4, <3>1 DEF After, SeesAt, cols
    <3> QED BY <2>1, <2>4, <3>2, RestSees
  <2>6. Saving(Rest(d), c.sub)
    BY <2>1, <2>4, GoesOnSaving
  <2>7. \A r : Saving(c, r) => Saving(Rest(d), r)
    BY <2>6 DEF Saving
  <2> QED BY <1>1, <2>3, <2>5, <2>7, MovesKeeping
<1> QED BY <1>1, <1>2, <1>3

\* Nothing has changed since save looked: the row becomes the entity.
LEMMA PatchedIsEntity ==
    ASSUME NEW row \in Subscription, NEW entity \in Subscription
    PROVE  LET p == Patched(row, entity, Dirty(entity, row))
           IN  p \in Subscription /\ \A c \in SubColumns : p[c] = entity[c]
<1>1. Dirty(entity, row) = {c \in SubColumns : entity[c] # row[c]}
  BY DEF Dirty, Subscription, SubColumns
<1>2. Dirty(entity, row) \in SUBSET SubColumns
  BY <1>1
<1> QED BY <1>1, <1>2, PatchedSub

LEMMA WriteSubClean ==
    ASSUME SubInv, CleanInv, NEW h \in Handlers, WriteSub(h)
    PROVE  CleanInv'
<1> DEFINE c == calls[h]
           s == c.sub
           row == Patched(subs[s], c.entity, c.cols)
           d == [c EXCEPT !.entity = Absent, !.cols = {}]
<1> SUFFICES ASSUME clean PROVE CleanInv'
  BY DEF WriteSub, CleanInv
<1>0. At(h, "writeSub") /\ subs[s] # Absent
  BY SeesHere DEF WriteSub, SeesAt
<1>1. /\ At(h, "writeSub") /\ Store(s, row) /\ Advance(h, d)
      /\ UNCHANGED <<pauses, sharings, clean>>
  BY <1>0 DEF WriteSub
<1>2. /\ c \in Call /\ c.todo # <<>> /\ Head(c.todo) = "writeSub"
      /\ s \in SubIds /\ subs[s] # Absent /\ c.entity \in Subscription
  BY <1>0, AtStep DEF Knows
<1>3. d \in Call /\ d.todo = c.todo
  BY <1>2 DEF Call
<1>4. calls' = [calls EXCEPT ![h] = Rest(d)] /\ Moves(h)
  BY <1>1, AdvanceIsRest DEF At, Idle, Moves
<1> HIDE DEF d
<1>5. Sees(Rest(d), subs', pauses', sharings', was')
  BY <1>2, <1>3, RestSees DEF After, SeesAt
<1>6. \A r \in SubIds : /\ subs'[r] = IF r = s THEN row ELSE subs[r]
                        /\ was[r] \subseteq was'[r]
  BY <1>1, <1>2 DEF Store, SubInv, Typed
<1>7. ASSUME clean'
      PROVE  OneActive' /\ PausesStand' /\ BalancedBut(Rest(d), subs', pauses')
  <2>1. /\ OneActive /\ PausesStand /\ BalancedBut(c, subs, pauses)
        /\ SeesAt(c, "writeSub", subs, pauses, sharings, was)
    BY <1>1, <1>4, <1>7, NoCompany, SeesHere
  <2>2. /\ row \in Subscription
        /\ row.user = c.entity.user /\ row.start = c.entity.start
        /\ row.end = c.entity.end /\ row.status = c.entity.status
    BY <1>2, <2>1, TheSub, PatchedIsEntity DEF SeesAt, SubColumns
  <2>3. row # Absent
    BY <2>2, AbsentIsNoRow
  <2> HIDE DEF row
  <2>4. Keeps(subs[s], c.entity, was[s]) /\ Balanced(s, c.entity, pauses)
    BY <2>1 DEF SeesAt
  <2>5. OneActive'
    BY <1>2, <1>6, <2>1, <2>2, <2>4 DEF OneActive, Subscribed, Keeps
  <2>6. PausesStand'
    <3>1. \A p \in PauseIds : pauses[p] # Absent => pauses[p].sub \in SubIds
      BY DEF SubInv, Typed, SubscriptionPause
    <3> QED BY <1>1, <1>6, <2>1, <2>3, <3>1 DEF PausesStand
  <2>7. Balanced(s, row, pauses)
    BY <2>2, <2>4, SameBalance
  <2>8. BalancedBut(Rest(d), subs', pauses')
    BY <1>1, <1>6, <2>1, <2>7 DEF BalancedBut, Saving
  <2> QED BY <2>5, <2>6, <2>8
<1> QED BY <1>4, <1>5, <1>7, MovesOn

\* No row is gone that a handler at work saves.
LEMMA RestoreSubClean ==
    ASSUME SubInv, CleanInv, NEW h \in Handlers, RestoreSub(h)
    PROVE  CleanInv'
<1> SUFFICES ASSUME clean PROVE FALSE
  BY DEF RestoreSub, CleanInv
<1>1. At(h, "selectSub") /\ subs[calls[h].sub] = Absent
  BY DEF RestoreSub
<1> QED BY <1>1, SeesHere DEF SeesAt

\* A pause that is recorded takes its days, the last of them begun.
LEMMA WholeDays ==
    ASSUME NEW start \in Nat, NEW end \in Nat, start < end
    PROVE  LET n == Days(start, end)
           IN  n * Day \in Int /\ n * Day >= end - start /\ n * Day <= (end - start) + (Day - 1)
<1> DEFINE x == end - start + Day - 1
           n == x \div Day
<1>1. Day \in Nat \ {0} /\ x \in Nat
  BY SubConstants
<1> HIDE DEF x
<1>2. n \in Int /\ x % Day \in 0..(Day - 1) /\ x = (Day * n) + (x % Day)
  BY <1>1
<1>3. n * Day \in Int /\ n * Day = Day * n
  BY <1>1, <1>2
<1> HIDE DEF n
<1>4. n * Day = x - (x % Day)
  BY <1>1, <1>2, <1>3
<1>5. n * Day <= x /\ n * Day >= x - (Day - 1)
  BY <1>1, <1>2, <1>3, <1>4
<1>6. Days(start, end) = n /\ x = end - start + Day - 1
  BY DEF Days, n, x
<1> QED BY <1>1, <1>3, <1>5, <1>6

\* Pauses have lengths.
LEMMA Lengths ==
    ASSUME NEW ps \in [PauseIds -> SubscriptionPause \cup {Absent}], NEW s
    PROVE  \A p \in Paused(s, ps) : ps[p].end - ps[p].start \in Int
<1> SUFFICES ASSUME NEW p \in Paused(s, ps) PROVE ps[p].end - ps[p].start \in Int
  OBVIOUS
<1>1. ps[p] \in SubscriptionPause
  BY DEF Paused
<1> QED BY <1>1 DEF SubscriptionPause

LEMMA InsertPauseClean ==
    ASSUME SubInv, CleanInv, NEW h \in Handlers, NEW p \in PauseIds, InsertPause(h, p)
    PROVE  CleanInv'
<1> DEFINE c == calls[h]
           s == c.sub
           row == c.item
           d == [c EXCEPT !.item = Absent]
<1>1. /\ At(h, "insertPause") /\ pauses[p] = Absent /\ subs[s] # Absent
      /\ pauses' = [pauses EXCEPT ![p] = row]
      /\ Advance(h, d) /\ UNCHANGED <<subs, sharings, was, clean>>
  BY DEF InsertPause, FreePauses
<1>2. /\ c \in Call /\ c.todo # <<>> /\ Head(c.todo) = "insertPause"
      /\ s \in SubIds /\ subs[s] # Absent /\ c.entity \in Subscription
      /\ row \in SubscriptionPause /\ row.sub = s
  BY <1>1, AtStep DEF Knows
<1>3. /\ d \in Call /\ d.todo = c.todo /\ d.sub = s /\ d.entity = c.entity
  BY <1>2 DEF Call
<1>4. calls' = [calls EXCEPT ![h] = Rest(d)] /\ Moves(h)
  BY <1>1, AdvanceIsRest DEF At, Idle, Moves
<1> HIDE DEF d
<1>5. /\ pauses \in [PauseIds -> SubscriptionPause \cup {Absent}]
      /\ pauses' \in [PauseIds -> SubscriptionPause \cup {Absent}]
      /\ row # Absent
  BY <1>1, <1>2, AbsentIsNoRow DEF SubInv, Typed
<1>6. \A q \in PauseIds : pauses'[q] = IF q = p THEN row ELSE pauses[q]
  BY <1>1, <1>5
<1> HIDE DEF row
<1>7. ASSUME NEW r \in SubIds, r # s
      PROVE  /\ Paused(r, pauses') = Paused(r, pauses)
             /\ Took(pauses', Paused(r, pauses)) = Took(pauses, Paused(r, pauses))
  <2>1. /\ Paused(r, pauses') = Paused(r, pauses)
        /\ \A q \in Paused(r, pauses) : pauses'[q] = pauses[q]
    BY <1>1, <1>2, <1>6, <1>7 DEF Paused
  <2> QED BY <1>5, <2>1, Lengths, Counts, TookSame
<1>8. ASSUME clean
      PROVE  Balanced(s, c.entity, pauses')
  <2> DEFINE old == Paused(s, pauses)
             new == Paused(s, pauses')
             n == Days(row.start, row.end)
  <2>1. /\ row.start < row.end /\ row.start \in Nat /\ row.end \in Nat
        /\ c.entity.end = subs[s].end + n * Day /\ c.entity.start = subs[s].start
    BY <1>1, <1>2, <1>8, SeesHere DEF SeesAt, Keeps, SubscriptionPause, row
  <2>2. new = old \cup {p} /\ p \notin old /\ p \in new /\ new \ {p} = old
    BY <1>1, <1>2, <1>5, <1>6 DEF Paused
  <2>3. /\ IsFiniteSet(old) /\ IsFiniteSet(new) /\ Cardinality(old) \in Nat
        /\ Cardinality(new) = Cardinality(old) + 1
    BY <1>2, <2>2, Counts, FS_AddElement, FS_CardinalityType
  <2>4. /\ Took(pauses', new) = (pauses'[p].end - pauses'[p].start) + Took(pauses', new \ {p})
    BY <1>5, <2>2, <2>3, Lengths, TookOneMore
  <2>5. Took(pauses', old) = Took(pauses, old)
    <3>1. \A q \in old : pauses'[q] = pauses[q]
      BY <1>6, <2>2 DEF Paused
    <3> QED BY <1>5, <2>3, <3>1, Lengths, TookSame
  <2>6. Took(pauses', new) = (row.end - row.start) + Took(pauses, old)
    BY <1>6, <2>2, <2>4, <2>5
  <2>7. Took(pauses, old) \in Int
    BY <1>5, <2>3, Lengths, TookType
  <2>8. Balanced(s, subs[s], pauses)
    <3>1. BalancedBut(c, subs, pauses) /\ ~ Saving(c, s)
      BY <1>1, <1>2, <1>4, <1>8, NoCompany DEF Saving
    <3> QED BY <1>2, <3>1 DEF BalancedBut
  <2>9. /\ n * Day \in Int /\ n * Day >= row.end - row.start
        /\ n * Day <= (row.end - row.start) + (Day - 1)
    BY <2>1, WholeDays
  <2>10. subs[s].start \in Nat /\ subs[s].end \in Int /\ PlanLength \in Nat /\ Day \in Nat
    BY <1>2, TheSub, SubConstants DEF Subscription
  <2> DEFINE k == Cardinality(old)
             x == n * Day
             T == Took(pauses, old)
             B == (Day - 1) * k
             a == row.end - row.start
  <2>11. /\ subs[s].end >= subs[s].start + PlanLength + T
         /\ subs[s].end <= (subs[s].start + PlanLength + T) + B
    BY <2>8 DEF Balanced
  <2>12. B \in Int /\ (Day - 1) * (k + 1) = B + (Day - 1)
    BY <2>3, <2>10
  <2>13. a \in Int /\ T \in Int /\ x \in Int /\ x >= a /\ x <= a + (Day - 1)
    BY <2>1, <2>7, <2>9
  <2>14. Took(pauses', new) = a + T /\ Cardinality(new) = k + 1
    BY <2>3, <2>6
  <2>15. c.entity.end = subs[s].end + x /\ c.entity.start = subs[s].start
    BY <2>1
  <2> HIDE DEF new, old, n, k, x, T, B, a
  <2>16. /\ subs[s].end + x >= subs[s].start + PlanLength + (a + T)
         /\ subs[s].end + x <= (subs[s].start + PlanLength + (a + T)) + (B + (Day - 1))
    BY <2>10, <2>11, <2>12, <2>13
  <2> QED BY <2>12, <2>14, <2>15, <2>16 DEF Balanced, new
<1>9. ASSUME clean
      PROVE  Sees(Rest(d), subs', pauses', sharings', was')
  <2>1. Keeps(subs[s], c.entity, was[s])
    BY <1>1, <1>9, SeesHere DEF SeesAt
  <2>2. \A t \in After("insertPause") : SeesAt(d, t, subs', pauses', sharings', was')
    BY <1>1, <1>3, <1>8, <1>9, <2>1 DEF After, SeesAt
  <2> QED BY <1>2, <1>3, <2>2, RestSees
<1>10. ASSUME clean'
       PROVE  OneActive' /\ PausesStand' /\ BalancedBut(Rest(d), subs', pauses')
  <2>1. clean /\ OneActive /\ PausesStand /\ BalancedBut(c, subs, pauses)
    BY <1>4, <1>10, NoCompany
  <2>2. OneActive'
    BY <1>1, <2>1 DEF OneActive, Subscribed
  <2>3. PausesStand'
    BY <1>1, <1>2, <1>6, <2>1 DEF PausesStand
  <2>4. Saving(Rest(d), s)
    BY <1>2, <1>3, GoesOnSaving
  <2>5. \A r : ~ Saving(c, r)
    BY <1>2 DEF Saving
  <2>6. BalancedBut(Rest(d), subs', pauses')
    BY <1>1, <1>7, <2>1, <2>4, <2>5 DEF BalancedBut, Balanced
  <2> QED BY <2>2, <2>3, <2>6
<1> QED BY <1>1, <1>4, <1>9, <1>10, MovesOn

LEMMA FindPauseClean ==
    ASSUME SubInv, CleanInv, NEW h \in Handlers, FindPause(h)
    PROVE  CleanInv'
<1> DEFINE c == calls[h]
           s == c.sub
<1>1. At(h, "findPause") /\ UNCHANGED <<subs, pauses, sharings, was, clean>>
  BY DEF FindPause, tables
<1>2. /\ c \in Call /\ c.todo \in Lists /\ c.todo # <<>> /\ Head(c.todo) = "findPause"
      /\ s \in SubIds /\ c.entity \in Subscription
  BY <1>1, AtStep DEF Knows
<1>3. ASSUME clean
      PROVE  /\ Keeps(subs[s], c.entity, was[s]) /\ c.entity.end = subs[s].end
             /\ Balanced(s, c.entity, pauses) /\ subs[s] # Absent
  <2>1. /\ Keeps(subs[s], c.entity, was[s]) /\ c.entity.end = subs[s].end
        /\ subs[s] # Absent
    BY <1>1, <1>3, SeesHere DEF SeesAt
  <2>2. BalancedBut(c, subs, pauses) /\ ~ Saving(c, s)
    BY <1>1, <1>2, <1>3, NoCompany DEF Saving, Moves, At, Idle
  <2> QED BY <1>2, <2>1, <2>2, SameBalance DEF BalancedBut, Keeps
<1> DEFINE skip == [c EXCEPT !.todo = Tail(Tail(c.todo))]
           short(p) == Shortened(c.entity, pauses[p], c.at)
           item(p) == [pauses[p] EXCEPT !.end = c.at]
           d(p) == [c EXCEPT !.key = p, !.item = item(p), !.entity = short(p)]
<1>6. \/ calls' = [calls EXCEPT ![h] = skip]
      \/ \E p \in ActivePauses(s, c.at) : Advance(h, d(p))
  BY DEF FindPause, Goto
<1>4. CASE calls' = [calls EXCEPT ![h] = skip]
  <2>1. Tail(Tail(c.todo)) # <<>> /\ Head(Tail(Tail(c.todo))) = "selectSub"
    BY <1>2, ListsSkip
  <2>2. skip.todo = Tail(Tail(c.todo)) /\ skip.sub = s /\ skip.entity = c.entity
    BY <1>2 DEF Call
  <2> HIDE DEF skip
  <2>3. clean => Sees(skip, subs, pauses, sharings', was)
    BY <1>3, <2>1, <2>2 DEF Sees, SeesAt
  <2>4. Moves(h) /\ \A r : ~ Saving(c, r)
    BY <1>1, <1>2 DEF Moves, At, Idle, Saving
  <2> QED BY <1>1, <1>4, <2>3, <2>4, MovesKeeping
<1>5. ASSUME NEW p \in ActivePauses(s, c.at), Advance(h, d(p))
      PROVE  CleanInv'
  <2>1. p \in PauseIds /\ p \in Paused(s, pauses) /\ pauses[p] \in SubscriptionPause
    BY DEF ActivePauses, PausesOf, Paused, SubInv, Typed
  <2>2. c.at \in Nat /\ pauses[p].end \in Nat /\ c.entity.end \in Int
    BY <1>2, <2>1 DEF Call, SubscriptionPause, Subscription
  <2>3. /\ short(p) \in Subscription
        /\ short(p).user = c.entity.user /\ short(p).start = c.entity.start
        /\ short(p).status = c.entity.status
        /\ short(p).end = c.entity.end - (pauses[p].end - c.at)
    <3>1. c.entity.end - (pauses[p].end - c.at) \in Int
      BY <2>2
    <3> QED BY <1>2, <3>1 DEF Shortened, Subscription
  <2>6. item(p) \in SubscriptionPause /\ item(p).end = c.at
    BY <2>1, <2>2 DEF SubscriptionPause
  <2> HIDE DEF short, item
  <2>4. /\ d(p) \in Call /\ d(p).todo = c.todo /\ d(p).sub = s /\ d(p).key = p
        /\ d(p).entity = short(p) /\ d(p).at = c.at /\ d(p).item = item(p)
    BY <1>2, <2>1, <2>3, <2>6 DEF Call
  <2> HIDE DEF d
  <2>5. ASSUME clean, NEW t \in After("findPause")
        PROVE  SeesAt(d(p), t, subs, pauses, sharings', was)
    <3>1. t = "endPause"
      BY <2>5 DEF After
    <3>2. Keeps(subs[s], short(p), was[s]) /\ short(p).end = subs[s].end - (pauses[p].end - c.at)
      BY <1>3, <2>3, <2>5 DEF Keeps
    <3> QED BY <1>3, <2>1, <2>4, <2>5, <2>6, <3>1, <3>2 DEF SeesAt
  <2> QED BY <1>1, <1>5, <2>4, <2>5, StepClean
<1> QED BY <1>4, <1>5, <1>6

LEMMA EndPauseClean ==
    ASSUME SubInv, CleanInv, NEW h \in Handlers, EndPause(h)
    PROVE  CleanInv'
<1> DEFINE c == calls[h]
           s == c.sub
           p == c.key
           row == pauses'[p]
           d == [c EXCEPT !.key = NoId]
<1> SUFFICES ASSUME clean PROVE CleanInv'
  BY DEF EndPause, CleanInv
<1>0. /\ At(h, "endPause") /\ Advance(h, d) /\ UNCHANGED <<subs, sharings, was, clean>>
      /\ \E new \in SavedAs(pauses[p], c.item, {"end"}, subs[s]) :
            pauses' = [pauses EXCEPT ![p] = new]
  BY DEF EndPause
<1>1. subs[s] # Absent /\ p \in Paused(s, pauses) /\ c.item.end = c.at
  BY <1>0, SeesHere DEF SeesAt
<1>2. /\ c \in Call /\ c.todo # <<>> /\ Head(c.todo) = "endPause"
      /\ s \in SubIds /\ subs[s] # Absent /\ c.entity \in Subscription
      /\ p \in PauseIds /\ pauses[p] # Absent /\ c.at \in Nat
      /\ c.item \in SubscriptionPause
  <2>1. /\ c \in Call /\ c.todo # <<>> /\ Head(c.todo) = "endPause"
        /\ Knows(c, "endPause", pauses, was)
    BY <1>0, AtStep
  <2>2. s \in SubIds /\ c.entity \in Subscription /\ p \in PauseIds /\ c.item \in SubscriptionPause
    BY <2>1 DEF Knows
  <2>3. c.at \in Nat
    BY <2>1 DEF Call
  <2> QED BY <1>1, <2>1, <2>2, <2>3 DEF Paused
<1>3. /\ pauses \in [PauseIds -> SubscriptionPause \cup {Absent}]
      /\ pauses[p] \in SubscriptionPause
  BY <1>2 DEF SubInv, Typed
<1>12. pauses' = [pauses EXCEPT ![p] = Updated(pauses[p], c.item, {"end"})]
  BY <1>0, <1>2, SavedCases
<1>4. /\ pauses' \in [PauseIds -> SubscriptionPause \cup {Absent}]
      /\ \A r : Paused(r, pauses') = Paused(r, pauses)
  BY <1>2, <1>3, <1>12, PauseEnded
<1>5. /\ row.sub = pauses[p].sub /\ row.start = pauses[p].start /\ row.end = c.at
      /\ row # Absent
      /\ \A q \in PauseIds : pauses'[q] = IF q = p THEN row ELSE pauses[q]
  BY <1>1, <1>2, <1>3, <1>12, PauseEnded
<1> HIDE DEF row
<1>6. d \in Call /\ d.todo = c.todo /\ d.sub = s /\ d.entity = c.entity
  BY <1>2 DEF Call
<1>7. calls' = [calls EXCEPT ![h] = Rest(d)] /\ Moves(h)
  BY <1>0, AdvanceIsRest DEF At, Idle, Moves
<1> HIDE DEF d
<1>8. ASSUME NEW r \in SubIds, p \notin Paused(r, pauses)
      PROVE  Took(pauses', Paused(r, pauses)) = Took(pauses, Paused(r, pauses))
  <2>1. \A q \in Paused(r, pauses) : pauses'[q] = pauses[q]
    BY <1>5, <1>8 DEF Paused
  <2> QED BY <1>3, <2>1, Lengths, Counts, TookSame
<1>9. ASSUME clean
      PROVE  /\ Keeps(subs[s], c.entity, was[s]) /\ Balanced(s, c.entity, pauses')
             /\ p \in Paused(s, pauses)
  <2> DEFINE S == Paused(s, pauses)
             R == S \ {p}
             T == Took(pauses, S)
             U == Took(pauses', S)
             V == Took(pauses, R)
             a == pauses[p].end - pauses[p].start
             b == c.at - pauses[p].start
  <2>1. /\ Keeps(subs[s], c.entity, was[s]) /\ p \in S
        /\ c.entity.end = subs[s].end - (pauses[p].end - c.at)
    BY <1>0, <1>9, SeesHere DEF SeesAt
  <2>2. IsFiniteSet(S) /\ IsFiniteSet(R)
    BY <1>2, Counts, FS_RemoveElement
  <2>3. T = a + V
    <3>1. \A q \in S : pauses[q].end - pauses[q].start \in Int
      BY <1>3, Lengths
    <3>2. p \in S /\ IsFiniteSet(S)
      BY <2>1, <2>2
    <3> HIDE DEF S
    <3>3. Took(pauses, S) = (pauses[p].end - pauses[p].start) + Took(pauses, S \ {p})
      BY <3>1, <3>2, TookOneMore
    <3> QED BY <3>3
  <2>4. U = b + Took(pauses', R)
    <3> DEFINE new == Paused(s, pauses')
    <3>1. new = S
      BY <1>4
    <3>2. IsFiniteSet(new) /\ p \in new
      BY <2>1, <2>2, <3>1
    <3>3. Took(pauses', new) = (pauses'[p].end - pauses'[p].start) + Took(pauses', new \ {p})
      BY <1>4, <3>2, Lengths, TookOneMore
    <3> QED BY <1>2, <1>5, <3>1, <3>3
  <2>5. Took(pauses', R) = V
    <3>1. \A q \in R : pauses'[q] = pauses[q]
      BY <1>5 DEF Paused
    <3>2. \A q \in R : pauses[q].end - pauses[q].start \in Int
      BY <1>3, Lengths
    <3> QED BY <2>2, <3>1, <3>2, TookSame
  <2>6. V \in Int
    <3>1. \A q \in R : pauses[q].end - pauses[q].start \in Int
      BY <1>3, Lengths
    <3> QED BY <2>2, <3>1, TookType
  <2>7. /\ pauses[p].end \in Nat /\ pauses[p].start \in Nat /\ c.at \in Nat
        /\ subs[s].start \in Nat /\ subs[s].end \in Int /\ PlanLength \in Nat /\ Day \in Nat
        /\ Cardinality(S) \in Nat
    BY <1>2, <1>3, TheSub, Counts, SubConstants DEF Subscription, SubscriptionPause
  <2>8. Balanced(s, subs[s], pauses)
    <3>1. BalancedBut(c, subs, pauses) /\ ~ Saving(c, s)
      BY <1>0, <1>2, <1>7, <1>9, NoCompany DEF Saving
    <3> QED BY <1>2, <3>1 DEF BalancedBut
  <2> DEFINE B == (Day - 1) * Cardinality(S)
  <2>9. /\ subs[s].end >= subs[s].start + PlanLength + T
        /\ subs[s].end <= (subs[s].start + PlanLength + T) + B
    BY <2>8 DEF Balanced
  <2>10. B \in Int
    BY <2>7
  <2>11. c.entity.start = subs[s].start /\ Paused(s, pauses') = S
    BY <1>4, <2>1 DEF Keeps
  <2> HIDE DEF S, R, T, U, V, B
  <2>12. /\ subs[s].end - (pauses[p].end - c.at) >= subs[s].start + PlanLength + U
         /\ subs[s].end - (pauses[p].end - c.at) <= (subs[s].start + PlanLength + U) + B
    BY <2>3, <2>4, <2>5, <2>6, <2>7, <2>9, <2>10
  <2>13. Balanced(s, c.entity, pauses')
    BY <2>1, <2>11, <2>12 DEF Balanced, U, B
  <2> QED BY <2>1, <2>13 DEF S
<1>10. ASSUME clean
       PROVE  Sees(Rest(d), subs', pauses', sharings', was')
  <2>1. \A t \in After("endPause") : SeesAt(d, t, subs', pauses', sharings', was')
    BY <1>0, <1>1, <1>6, <1>9, <1>10 DEF After, SeesAt
  <2> QED BY <1>2, <1>6, <2>1, RestSees
<1>11. ASSUME clean'
       PROVE  OneActive' /\ PausesStand' /\ BalancedBut(Rest(d), subs', pauses')
  <2>1. clean /\ OneActive /\ PausesStand /\ BalancedBut(c, subs, pauses)
    BY <1>7, <1>11, NoCompany
  <2>2. OneActive'
    BY <1>0, <2>1 DEF OneActive, Subscribed
  <2>3. PausesStand'
    BY <1>0, <1>2, <1>5, <2>1 DEF PausesStand
  <2>4. Saving(Rest(d), s)
    BY <1>2, <1>6, GoesOnSaving
  <2>5. \A r : ~ Saving(c, r)
    BY <1>2 DEF Saving
  <2>6. \A r \in SubIds : r # s => p \notin Paused(r, pauses)
    BY <1>9, <2>1 DEF Paused
  <2>7. BalancedBut(Rest(d), subs', pauses')
    <3> SUFFICES ASSUME NEW r \in SubIds, subs[r] # Absent, r # s
                 PROVE  Balanced(r, subs[r], pauses')
      BY <1>0, <2>4 DEF BalancedBut
    <3>1. Balanced(r, subs[r], pauses)
      BY <2>1, <2>5 DEF BalancedBut
    <3>2. /\ Took(pauses', Paused(r, pauses)) = Took(pauses, Paused(r, pauses))
          /\ Paused(r, pauses') = Paused(r, pauses)
      BY <1>4, <1>8, <2>6
    <3> QED BY <3>1, <3>2 DEF Balanced
  <2> QED BY <2>2, <2>3, <2>7
<1> QED BY <1>0, <1>7, <1>10, <1>11, MovesOn

LEMMA CheckSharedClean ==
    ASSUME SubInv, CleanInv, NEW h \in Handlers, CheckShared(h)
    PROVE  CleanInv'
<1>1. /\ At(h, "checkShared") /\ UNCHANGED <<subs, pauses, sharings, was, clean>>
      /\ Goto(h, Idle) \/ Advance(h, calls[h])
  BY DEF CheckShared, tables
<1>2. calls[h] \in Call
  BY <1>1, AtStep
<1>3. \A t \in After("checkShared") : SeesAt(calls[h], t, subs, pauses, sharings', was)
  BY DEF After, SeesAt
<1> QED BY <1>1, <1>2, <1>3, EndsClean, StepClean

LEMMA InsertSharingClean ==
    ASSUME SubInv, CleanInv, NEW h \in Handlers, NEW x \in SharingIds, InsertSharing(h, x)
    PROVE  CleanInv'
<1> DEFINE c == calls[h]
           d == [c EXCEPT !.item = Absent]
<1>1. /\ At(h, "insertSharing") /\ Advance(h, d) /\ UNCHANGED <<subs, pauses, was, clean>>
  BY DEF InsertSharing
<1>2. c \in Call
  BY <1>1, AtStep
<1>3. d \in Call /\ d.todo = c.todo
  BY <1>2 DEF Call
<1> HIDE DEF d
<1>4. \A t \in After("insertSharing") : SeesAt(d, t, subs, pauses, sharings', was)
  BY DEF After, SeesAt
<1> QED BY <1>1, <1>3, <1>4, StepClean

LEMMA WriteSharingClean ==
    ASSUME SubInv, CleanInv, NEW h \in Handlers, WriteSharing(h)
    PROVE  CleanInv'
<1>1. /\ At(h, "writeSharing") /\ Advance(h, calls[h])
      /\ UNCHANGED <<subs, pauses, was, clean>>
  BY DEF WriteSharing
<1>2. calls[h] \in Call
  BY <1>1, AtStep
<1>3. \A t \in After("writeSharing") : SeesAt(calls[h], t, subs, pauses, sharings', was)
  BY DEF After, SeesAt
<1> QED BY <1>1, <1>2, <1>3, StepClean

LEMMA TellClean ==
    ASSUME SubInv, CleanInv, NEW h \in Handlers, NEW type \in NoticeType, Tell(h, type)
    PROVE  CleanInv'
<1>1. /\ At(h, type) /\ Advance(h, calls[h])
      /\ UNCHANGED <<subs, pauses, sharings, was, clean>>
      /\ type \notin {"selectSub", "writeSub"}
  BY DEF Tell, tables, NoticeType
<1>2. calls[h] \in Call
  BY <1>1, AtStep
<1>3. \A t \in After(type) : SeesAt(calls[h], t, subs, pauses, sharings', was)
  BY DEF After, SeesAt, NoticeType
<1> QED BY <1>1, <1>2, <1>3, StepClean

\* Subscriptions, pauses and sharings go, while no request is in progress.
LEMMA CascadeClean ==
    ASSUME SubInv, CleanInv, NEW gone \in SUBSET SubIds, NEW lost, Cascade(gone, lost)
    PROVE  CleanInv'
<1> SUFFICES ASSUME clean'
             PROVE  (Alone /\ OneActive /\ RowsBalanced /\ PausesStand /\ CallsSeen)'
  BY DEF CleanInv
<1>1. clean /\ AllIdle
  BY DEF Cascade
<1>2. /\ Alone /\ OneActive /\ RowsBalanced /\ PausesStand
      /\ Left(gone) /\ \A h \in Handlers : calls'[h] = Idle
  BY <1>1, Remaining DEF CleanInv, AllIdle, Left
<1>3. Alone' /\ CallsSeen'
  BY <1>2, IdleSees DEF Alone, CallsSeen
<1>4. OneActive'
  BY <1>2 DEF Left, OneActive, Subscribed
<1>5. PausesStand'
  <2>1. \A p \in PauseIds : pauses[p] # Absent => pauses[p].sub \in SubIds
    BY DEF SubInv, Typed, SubscriptionPause
  <2> QED BY <1>2, <2>1 DEF Left, PausesStand
<1>6. ASSUME NEW s \in SubIds, subs'[s] # Absent
      PROVE  Balanced(s, subs'[s], pauses')
  <2>1. s \notin gone /\ subs'[s] = subs[s] /\ s \in Subscribed
    BY <1>2, <1>6 DEF Left, Subscribed
  <2>2. Balanced(s, subs[s], pauses)
    BY <1>1, <1>2, <2>1, IdleSees DEF RowsBalanced, AllIdle
  <2>3. /\ Paused(s, pauses') = Paused(s, pauses)
        /\ \A p \in Paused(s, pauses) : pauses'[p] = pauses[p]
    BY <1>2, <2>1 DEF Left
  <2>4. Took(pauses', Paused(s, pauses)) = Took(pauses, Paused(s, pauses))
    <3>1. pauses \in [PauseIds -> SubscriptionPause \cup {Absent}]
      BY DEF SubInv, Typed
    <3> QED BY <2>3, <3>1, Counts, Lengths, TookSame
  <2> QED BY <2>1, <2>2, <2>3, <2>4 DEF Balanced
<1>7. RowsBalanced'
  BY <1>6 DEF RowsBalanced, Subscribed
<1> QED BY <1>3, <1>4, <1>5, <1>7

----------------------------------------------------------------------------
(* The theorems that hold while requests come one at a time                *)

LEMMA CleanInvNext ==
    ASSUME SubInv, CleanInv, [Next]_subVars
    PROVE  CleanInv'
<1>1. ASSUME NEW h \in Handlers, NEW u \in Users, Request(h, u)
      PROVE  CleanInv'
  BY <1>1, CreateClean, UpdateClean, CancelClean, PauseClean, ResumeClean, ShareClean,
     RespondClean, RevokeClean DEF Request
<1>2. ASSUME NEW h \in Handlers, Step(h)
      PROVE  CleanInv'
  <2>1. CASE Orphaned(h)
    BY <2>1 DEF Orphaned, CleanInv
  <2> QED BY <1>2, <2>1, CheckActiveClean, InsertSubClean, InsertPauseClean, SelectSubClean,
             RestoreSubClean, WriteSubClean, FindPauseClean, EndPauseClean, CheckSharedClean,
             InsertSharingClean, WriteSharingClean, TellClean DEF Step
<1>3. ASSUME NEW h \in Handlers, Fail(h)
      PROVE  CleanInv'
  BY <1>3 DEF Fail, CleanInv
<1>4. CASE UNCHANGED <<subs, pauses, sharings, was, calls, clean>>
  BY <1>4 DEF CleanInv, Alone, OneActive, Subscribed, RowsBalanced, PausesStand, CallsSeen
<1>5. CASE Tick
  BY <1>4, <1>5 DEF Tick, tables
<1>6. CASE UNCHANGED subVars
  BY <1>4, <1>6 DEF subVars, tables
<1>7. ASSUME NEW u, RemoveUser(u) \/ RemoveParking
      PROVE  CleanInv'
  BY <1>7, Removals, CascadeClean
<1> QED BY <1>1, <1>2, <1>3, <1>5, <1>6, <1>7 DEF Next

\* As long as no requests overlap and all run to their end, what the handler
\* at work has read is still so, and rows are as CleanInv says.
THEOREM CleanInvariance == Spec => []CleanInv
<1>1. Init => CleanInv
  BY IdleSees DEF Init, CleanInv, Alone, OneActive, Subscribed, RowsBalanced, PausesStand,
                  CallsSeen
<1>2. SubInv /\ CleanInv /\ [Next]_subVars => CleanInv'
  BY CleanInvNext
<1> QED BY <1>1, <1>2, SubInvariance, PTL DEF Spec

\* A user gets a second active subscription only by pausing the first, which
\* create then does not find (subscriptions.service.ts: create, resume).
THEOREM SecondsComeFromPauses == Spec => []TwoActiveOnlyByPausing
<1>1. CleanInv => TwoActiveOnlyByPausing
  BY DEF CleanInv, OneActive, TwoActiveOnlyByPausing
<1> QED BY <1>1, CleanInvariance, PTL

\* Whatever a user did with a subscription, its end makes up for the time it
\* was paused (pauseSubscription, resumeSubscription).
THEOREM EndsMakeUp == Spec => []EndMakesUpForPauses
<1>1. SubInv /\ CleanInv => EndMakesUpForPauses
  <2> SUFFICES ASSUME SubInv, CleanInv, clean, AllIdle, NEW s \in Subscribed
               PROVE  LET end == subs[s].start + PlanLength + Took(pauses, PausesOf(s))
                      IN  /\ subs[s].end >= end
                          /\ subs[s].end <= end + (Day - 1) * Cardinality(PausesOf(s))
    BY DEF EndMakesUpForPauses, Took
  <2>1. \A h \in Handlers : ~ Saving(calls[h], s)
    BY IdleSees DEF AllIdle
  <2>2. Balanced(s, subs[s], pauses)
    BY <2>1 DEF CleanInv, RowsBalanced
  <2>3. PausesOf(s) = Paused(s, pauses)
    BY DEF PausesOf, Paused
  <2> QED BY <2>2, <2>3 DEF Balanced
<1> QED BY <1>1, SubInvariance, CleanInvariance, PTL

\* No step takes a revocation back: who answers a sharing has read that it is
\* pending, and nothing has happened since (respondToSharing, revokeSharing).
THEOREM RevocationsAreFinal == Spec => RevokedStaysRevoked
<1> DEFINE Kept == \A x \in SharingIds :
                      (/\ sharings[x] # Absent /\ sharings[x].status = "revoked"
                       /\ sharings'[x] # Absent /\ clean')
                          => sharings'[x].status = "revoked"
<1>1. ASSUME SubInv, CleanInv, [Next]_subVars
      PROVE  Kept
  <2>1. CASE UNCHANGED sharings
    BY <2>1
  <2>2. ASSUME NEW h \in Handlers, NEW x \in SharingIds, InsertSharing(h, x)
        PROVE  Kept
    <3>1. sharings[x] = Absent /\ sharings' = [sharings EXCEPT ![x] = calls[h].item]
      BY <2>2 DEF InsertSharing, FreeSharings
    <3> QED BY <1>1, <3>1 DEF SubInv, Typed
  <2>3. ASSUME NEW h \in Handlers, WriteSharing(h)
        PROVE  Kept
    <3> DEFINE c == calls[h]
               x == c.key
    <3>1. /\ At(h, "writeSharing") /\ UNCHANGED clean
          /\ \E row \in SavedAs(sharings[x], c.item, {"status"}, subs[c.sub]) :
                sharings' = [sharings EXCEPT ![x] = row]
      BY <2>3 DEF WriteSharing
    <3>2. PICK row \in SavedAs(sharings[x], c.item, {"status"}, subs[c.sub]) :
                 sharings' = [sharings EXCEPT ![x] = row]
      BY <3>1
    <3>3. clean => sharings[x].status = "pending" \/ c.item.status = "revoked"
      BY <1>1, <3>1, SeesHere DEF SeesAt
    <3>4. /\ x \in SharingIds /\ c.item \in SubscriptionSharing
          /\ sharings \in [SharingIds -> SubscriptionSharing \cup {Absent}]
      BY <1>1, <3>1, AtStep DEF Knows, SubInv, Typed
    <3>5. /\ sharings'[x] = row
          /\ \A y \in SharingIds : y # x => sharings'[y] = sharings[y]
      BY <3>2, <3>4
    <3>6. sharings[x] # Absent => row.status = c.item.status
      <4>1. ASSUME sharings[x] # Absent
            PROVE  row = Updated(sharings[x], c.item, {"status"})
        BY <4>1, SavedCases
      <4> QED BY <3>4, <4>1, SharingUpdated
    <3> HIDE DEF x
    <3> QED BY <3>1, <3>3, <3>5, <3>6
  <2>4. ASSUME NEW h \in Handlers, NEW u \in Users, Request(h, u)
        PROVE  Kept
    <3>1. UNCHANGED sharings
      BY <2>4 DEF Request, Create, Update, Cancel, PauseSubscription, ResumeSubscription,
                  ShareSubscription, RespondToSharing, RevokeSharing, Accept, tables
    <3> QED BY <2>1, <3>1
  <2>5. ASSUME NEW h \in Handlers, Step(h)
        PROVE  Kept
    <3>1. \/ UNCHANGED sharings
          \/ \E x \in SharingIds : InsertSharing(h, x)
          \/ WriteSharing(h)
      BY <2>5 DEF Step, CheckActive, InsertSub, InsertPause, SelectSub, RestoreSub, WriteSub,
                  FindPause, EndPause, CheckShared, Orphaned, Tell, tables
    <3> QED BY <2>1, <2>2, <2>3, <3>1
  <2>6. CASE UNCHANGED subVars \/ Tick \/ \E h \in Handlers : Fail(h)
    BY <2>1, <2>6 DEF subVars, Tick, Fail, tables
  <2>7. ASSUME NEW u, RemoveUser(u) \/ RemoveParking
        PROVE  Kept
    <3>1. \A x \in SharingIds : sharings'[x] = Absent \/ sharings'[x] = sharings[x]
      BY <2>7, Removals, Remaining DEF Left
    <3> QED BY <3>1
  <2> HIDE DEF Kept
  <2> QED BY <1>1, <2>4, <2>5, <2>6, <2>7 DEF Next
<1>2. SubInv /\ CleanInv /\ [Next]_subVars => [Kept]_subVars
  BY <1>1
<1> QED BY <1>2, SubInvariance, CleanInvariance, PTL DEF Spec, RevokedStaysRevoked
=============================================================================

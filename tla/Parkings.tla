------------------------------ MODULE Parkings ------------------------------
(***************************************************************************)
(* ParkingsService and PriceRulesService (src/modules/parkings/services)   *)
(* and PricingService (src/modules/pricing/pricing.service.ts): the        *)
(* parkings, the rows that hang from them, and the price suggestions.      *)
(*                                                                         *)
(* The child tables are one set of rows, kids.  A row has a key <<kind,    *)
(* request, value>>: its table, the request that made it, and what does    *)
(* not change in it (the name of a feature, the weekday of a schedule, the *)
(* price suggested; of an exception its date, whether the parking is       *)
(* available, and which of the exceptions asked for it is).  Its slots are *)
(* the time slots of a schedule or exception; its flag says that a rule is *)
(* active or that a suggestion was applied.                                *)
(*                                                                         *)
(* A handler is a record in calls.  Its program, todo, is the sequence of  *)
(* the queries it still has ahead; what it does up to the first of them is *)
(* one action, each query is another.                                      *)
(***************************************************************************)
EXTENDS Naturals, SequencesExt, TypeOrm

CONSTANTS
    ParkingIds,     \* primary keys
    Users,
    Level,          \* user -> verification level
    Limit,          \* parkings of a user of level 3, 3 in the code
    Handlers,       \* requests that can be in progress at the same time
    NoId,           \* no parking
    Unset,          \* what a request leaves out
    Names,          \* features and photos
    WeekDays,       \* the days of the week, Monday first
    Dates,
    Slots,          \* time slots <<from, to>>
    Prices,
    Asks,           \* what the clients of this instance ask of create and update
    Queries,        \* the periods the clients ask for, by their date, day and hours
    ParkOps,        \* the operations the clients of this instance call
    MaxRequests,    \* bound on the requests that clients send
    MaxFailures     \* bound on the handlers that die half way

VARIABLES
    parkings,   \* the table of parkings: id -> row
    kids,       \* the rows of the child tables
    calls,      \* the handlers
    priced,     \* history: id -> the prices its stored row has had, with
                \*   Absent once it was removed
    offered,    \* history: id -> the hours last asked for, if no other request
                \*   and no failure interfered
    alone,      \* history: nothing overlapped the last request accepted
    requests,   \* requests accepted so far
    failures    \* handlers that died so far

parkVars == <<parkings, kids, calls, priced, offered, alone, requests, failures>>

Days == Range(WeekDays)

\* The hours a client asks for: the slots of every weekday, and the dates that
\* differ.
IsHours(hours) ==
    /\ hours.week \in [Days -> SUBSET Slots]
    /\ hours.exceptions \in Seq([date : Dates, available : BOOLEAN, slots : SUBSET Slots])

ASSUME ParkConstants ==
    /\ Level \in [Users -> 0..4] /\ Limit \in Nat
    /\ NoId \notin ParkingIds /\ IsFiniteSet(ParkingIds)
    /\ Handlers # {} /\ IsFiniteSet(Handlers)
    /\ WeekDays \in Seq(Days)
    /\ \A q \in Queries : q.date \in Dates /\ q.day \in Days
    /\ \A ask \in Asks :
        /\ ask.price \in Prices \cup {Unset}
        /\ \A names \in {ask.feature, ask.photo} \ {Unset} :
            names \subseteq Names /\ IsFiniteSet(names)
        /\ ask.hours # Unset => IsHours(ask.hours)
    /\ MaxRequests \in Nat /\ MaxFailures \in Nat

Parking == [owner : Users, price : Prices]

ASSUME AbsentIsNoParking == Absent \notin Parking

Related == {"feature", "photo", "schedule", "exception", "rule"}
Kinds == Related \cup {"suggestion"}
Timed == {"schedule", "exception"}
Flagged == {"rule", "suggestion"}

Kind(k) == k.key[1]
Keys(rows) == {k.key : k \in rows}
OfKind(rows, kind) == {k \in rows : Kind(k) = kind}
TheRow(rows, key) == CHOOSE k \in rows : k.key = key

\* The parking with the rows its entity is related to, as findOne loads it,
\* provided that the driver can join size, which has no join column.
Loaded(p) == [row |-> parkings[p],
              kids |-> {k \in kids : k.parking = p /\ Kind(k) \in Related}]
Nothing == [row |-> Absent, kids |-> {}]

Idle == [todo |-> <<>>, user |-> Unset, parking |-> NoId, entity |-> Nothing,
         stored |-> Nothing, hours |-> Unset]

OwnedBy(u) == {p \in ParkingIds : parkings[p] # Absent /\ parkings[p].owner = u}

----------------------------------------------------------------------------
(* Faulty variants of definitions below, each a slip that a change of the  *)
(* code could bring; the properties at the end must notice them.           *)

WithinLimit_OffByOne(u) == Level[u] = 3 => Cardinality(OwnedBy(u)) <= Limit
HoursRemoved_NoExceptions(rows) ==
    IF OfKind(rows, "schedule") = {} THEN <<>>
    ELSE <<[do |-> "delete", keys |-> Keys(OfKind(rows, "schedule"))]>>
ApplySteps_MarkFirst(k) ==
    <<[do |-> "put", row |-> [k EXCEPT !.flag = TRUE]], [do |-> "load", price |-> k.key[3]],
      [do |-> "select"], [do |-> "write"]>>
Fresh_NotAwaited(c, keys) ==
    {[key |-> key, parking |-> NoId, slots |-> {}, flag |-> FALSE] : key \in keys}

----------------------------------------------------------------------------
(* Programs                                                                *)

SaveParking == <<[do |-> "select"], [do |-> "write"]>>

\* Rows of one table with these values, saved as an array.
Inserted(kind, values) ==
    IF values = {} THEN <<>>
    ELSE <<[do |-> "insert", keys |-> {<<kind, requests, v>> : v \in values}]>>

\* A row and then its slots.
Timetabled(kind, value, slots) ==
    Inserted(kind, {value}) \o
        IF slots = {} THEN <<>>
        ELSE <<[do |-> "fill", key |-> <<kind, requests, value>>, slots |-> slots]>>

DayInserted(day, slots) == IF slots = {} THEN <<>> ELSE Timetabled("schedule", day, slots)

ExceptionInserted(e, i) ==
    Timetabled("exception", [date |-> e.date, available |-> e.available, nth |-> i],
               IF e.available THEN e.slots ELSE {})

\* The schedules day by day, then the exceptions, as create and update both
\* insert them.
HoursInserted(hours) ==
    FlattenSeq([i \in DOMAIN WeekDays |-> DayInserted(WeekDays[i], hours.week[WeekDays[i]])])
        \o FlattenSeq([i \in DOMAIN hours.exceptions |-> ExceptionInserted(hours.exceptions[i], i)])

\* The loaded rows of a kind are removed, the slots of each one first.
Removed(rows, kind) ==
    LET gone == OfKind(rows, kind)
        slotted == SetToSeq({k \in gone : k.slots # {}})
    IN  IF gone = {} THEN <<>>
        ELSE [i \in DOMAIN slotted |-> [do |-> "clear", row |-> slotted[i]]]
                \o <<[do |-> "delete", keys |-> Keys(gone)]>>

HoursRemoved(rows) == Removed(rows, "schedule") \o Removed(rows, "exception")

CreateSteps(ask) ==
    <<[do |-> "count"], [do |-> "insertParking"]>>
        \o (IF ask.feature = Unset THEN <<>> ELSE Inserted("feature", ask.feature))
        \o (IF ask.photo = Unset THEN <<>> ELSE Inserted("photo", ask.photo))
        \o (IF ask.hours = Unset THEN <<>> ELSE HoursInserted(ask.hours))

UpdateSteps(rows, ask) ==
    SaveParking
        \o (IF ask.feature = Unset THEN <<>>
            ELSE Removed(rows, "feature") \o Inserted("feature", ask.feature))
        \o (IF ask.photo = Unset THEN <<>>
            ELSE Removed(rows, "photo") \o Inserted("photo", ask.photo))
        \o (IF ask.hours = Unset THEN <<>>
            ELSE HoursRemoved(rows) \o HoursInserted(ask.hours))

\* The price first, in ParkingsService.updateBasePrice, then the mark.
ApplySteps(k) ==
    <<[do |-> "load", price |-> k.key[3]]>> \o SaveParking
        \o <<[do |-> "put", row |-> [k EXCEPT !.flag = TRUE]]>>

----------------------------------------------------------------------------
(* Handlers                                                                *)

Goto(h, c) == calls' = [calls EXCEPT ![h] = c]

Forgotten == [p \in ParkingIds |-> Unset]

\* A client's request reaches an idle handler; hit are the parkings whose
\* hours it is about to change.
Accept(h, op, hit, c) ==
    /\ op \in ParkOps
    /\ calls[h] = Idle
    /\ requests < MaxRequests
    /\ requests' = requests + 1
    /\ alone' = \A g \in Handlers : calls[g] = Idle
    /\ offered' = [p \in ParkingIds |-> IF alone' /\ p \notin hit THEN offered[p] ELSE Unset]
    /\ Goto(h, c)
    /\ UNCHANGED <<parkings, kids, priced, failures>>

\* The next query of handler h is s.
At(h, s) == calls[h].todo # <<>> /\ Head(calls[h].todo).do = s
Query(h) == Head(calls[h].todo)

\* It is over, and c is what the handler has become: on to the next one.
Advance(h, c) ==
    /\ Goto(h, IF Len(c.todo) = 1 THEN Idle ELSE [c EXCEPT !.todo = Tail(@)])
    /\ offered' = IF Len(c.todo) > 1 THEN offered
                  ELSE IF ~alone THEN Forgotten
                  ELSE IF c.hours = Unset THEN offered
                  ELSE [offered EXCEPT ![c.parking] = c.hours]
    /\ UNCHANGED <<alone, requests, failures>>

\* It threw: the request ends, what was written stays.
Throw(h) ==
    /\ Goto(h, Idle)
    /\ offered' = Forgotten
    /\ UNCHANGED <<parkings, kids, priced, alone, requests, failures>>

\* UPDATE or INSERT of a parking.
Store(p, row) ==
    /\ parkings' = [parkings EXCEPT ![p] = row]
    /\ priced' = [priced EXCEPT ![p] = @ \cup {IF row = Absent THEN Absent ELSE row.price}]

----------------------------------------------------------------------------
(* Requests                                                                *)

\* Bound: every parking about to be created can still be given a key.
KeysLeft ==
    Cardinality({g \in Handlers : \E i \in DOMAIN calls[g].todo :
                                     calls[g].todo[i].do = "insertParking"})
        < Cardinality({p \in ParkingIds : priced[p] = {}})

\* create, for users of level 3 and above; the price is required.
Create(h, u, ask) ==
    /\ Level[u] >= 3
    /\ ask.price # Unset
    /\ KeysLeft
    /\ Accept(h, "create", {},
              [Idle EXCEPT !.todo = CreateSteps(ask), !.user = u, !.hours = ask.hours,
                           !.entity.row = [owner |-> u, price |-> ask.price]])

\* update, by the owner, with what the client gives.
Update(h, p, ask) ==
    LET e == Loaded(p)
    IN  /\ parkings[p] # Absent
        /\ Accept(h, "update", IF ask.hours = Unset THEN {} ELSE {p},
                  [Idle EXCEPT !.todo = UpdateSteps(e.kids, ask), !.user = parkings[p].owner,
                               !.parking = p, !.hours = ask.hours,
                               !.entity = IF ask.price = Unset THEN e
                                          ELSE [e EXCEPT !.row.price = ask.price]])

\* remove, by the owner.
RemoveParking(h, p) ==
    /\ parkings[p] # Absent
    /\ Accept(h, "remove", {},
              [Idle EXCEPT !.todo = <<[do |-> "remove"]>>, !.user = parkings[p].owner,
                           !.parking = p])

\* PriceRulesService.create, by the owner of the parking.
CreateRule(h, p) ==
    /\ parkings[p] # Absent
    /\ Accept(h, "rule", {},
              [Idle EXCEPT !.todo = Inserted("rule", {0}), !.user = parkings[p].owner,
                           !.parking = p])

\* PriceRulesService.update and remove of a rule k; the parking and its owner
\* are looked up after the rule.
ChangeRule(h, u, k, active) ==
    Accept(h, "rule", {},
           [Idle EXCEPT !.todo = <<[do |-> "owner"],
                                   [do |-> "put", row |-> [k EXCEPT !.flag = active]]>>,
                        !.user = u, !.parking = k.parking])

RemoveRule(h, u, k) ==
    Accept(h, "rule", {},
           [Idle EXCEPT !.todo = <<[do |-> "owner"], [do |-> "delete", keys |-> {k.key}]>>,
                        !.user = u, !.parking = k.parking])

\* suggestPrice, or getPriceForTimeRange when it finds no suggestion, by
\* anybody; the heuristics may come to any price.
SuggestPrice(h, p, price) ==
    /\ parkings[p] # Absent
    /\ Accept(h, "price", {},
              [Idle EXCEPT !.todo = Inserted("suggestion", {price}), !.parking = p])

\* applyPriceSuggestion; also to a suggestion that was applied already.
ApplyPriceSuggestion(h, k) ==
    Accept(h, "price", {}, [Idle EXCEPT !.todo = ApplySteps(k), !.parking = k.parking])

----------------------------------------------------------------------------
(* Queries                                                                 *)

\* A user of level 3 has fewer parkings than the limit; level 4 has none.
WithinLimit(u) == Level[u] = 3 => Cardinality(OwnedBy(u)) < Limit

CountParkings(h) ==
    /\ At(h, "count")
    /\ \/ /\ WithinLimit(calls[h].user)
          /\ Advance(h, calls[h])
          /\ UNCHANGED <<parkings, kids, priced>>
       \/ /\ ~WithinLimit(calls[h].user)
          /\ Throw(h)

InsertParking(h, p) ==
    /\ At(h, "insertParking")
    /\ priced[p] = {}
    /\ Store(p, calls[h].entity.row)
    /\ Advance(h, [calls[h] EXCEPT !.parking = p, !.entity = Nothing])
    /\ UNCHANGED kids

\* New rows of the parking that handler c works on.
Fresh(c, keys) ==
    {[key |-> key, parking |-> c.parking, slots |-> {}, flag |-> key[1] = "rule"] :
        key \in keys}

\* parkingId is a foreign key: the insert fails when the parking is gone.
InsertKids(h) ==
    /\ At(h, "insert")
    /\ \/ /\ parkings[calls[h].parking] # Absent
          /\ kids' = kids \cup Fresh(calls[h], Query(h).keys)
          /\ Advance(h, calls[h])
          /\ UNCHANGED <<parkings, priced>>
       \/ /\ parkings[calls[h].parking] = Absent
          /\ Throw(h)

\* The slots of a schedule or exception; its id is a foreign key.
FillSlots(h) ==
    /\ At(h, "fill")
    /\ \/ /\ Query(h).key \in Keys(kids)
          /\ kids' = {IF k.key = Query(h).key
                      THEN [k EXCEPT !.slots = @ \cup Query(h).slots] ELSE k : k \in kids}
          /\ Advance(h, calls[h])
          /\ UNCHANGED <<parkings, priced>>
       \/ /\ Query(h).key \notin Keys(kids)
          /\ Throw(h)

ClearSlots(h) ==
    /\ At(h, "clear")
    /\ LET row == Query(h).row
       IN  kids' = {IF k.key = row.key THEN [k EXCEPT !.slots = @ \ row.slots] ELSE k : k \in kids}
    /\ Advance(h, calls[h])
    /\ UNCHANGED <<parkings, priced>>

\* Removing rows that are gone already is no error.
DeleteKids(h) ==
    /\ At(h, "delete")
    /\ kids' = {k \in kids : k.key \notin Query(h).keys}
    /\ Advance(h, calls[h])
    /\ UNCHANGED <<parkings, priced>>

\* save of a rule or a suggestion, of which only the flag changes, so that its
\* two queries amount to one: a row that is gone is inserted again, if its
\* parking is there, as it is whenever the row is.
PutKid(h) ==
    LET row == Query(h).row
    IN  /\ At(h, "put")
        /\ \/ /\ parkings[row.parking] # Absent
              /\ kids' = {k \in kids : k.key # row.key} \cup {row}
              /\ Advance(h, calls[h])
              /\ UNCHANGED <<parkings, priced>>
           \/ /\ parkings[row.parking] = Absent
              /\ Throw(h)

\* The parking of a rule, and whose it is.
CheckOwner(h) ==
    LET c == calls[h]
    IN  /\ At(h, "owner")
        /\ \/ /\ c.parking \in OwnedBy(c.user)
              /\ Advance(h, c)
              /\ UNCHANGED <<parkings, kids, priced>>
           \/ /\ c.parking \notin OwnedBy(c.user)
              /\ Throw(h)

\* updateBasePrice loads the parking and everything related to it.
LoadParking(h) ==
    LET p == calls[h].parking
    IN  /\ At(h, "load")
        /\ \/ /\ parkings[p] # Absent
              /\ Advance(h, [calls[h] EXCEPT
                    !.entity = [Loaded(p) EXCEPT !.row.price = Query(h).price]])
              /\ UNCHANGED <<parkings, kids, priced>>
           \/ /\ parkings[p] = Absent
              /\ Throw(h)

\* The row goes, and by cascade everything that refers to it.
DeleteParking(h) ==
    LET p == calls[h].parking
    IN  /\ At(h, "remove")
        /\ Store(p, Absent)
        /\ kids' = {k \in kids : k.parking # p}
        /\ Advance(h, calls[h])

----------------------------------------------------------------------------
(* save of a parking e when the first query of save has found s: related   *)
(* rows that e lacks are detached, rows that only e has are inserted (not  *)
(* price rules, which do not cascade), slots likewise.  All writes of one  *)
(* save are one transaction.                                               *)

SelectParking(h) ==
    /\ At(h, "select")
    /\ Advance(h, [calls[h] EXCEPT !.stored = Loaded(calls[h].parking)])
    /\ UNCHANGED <<parkings, kids, priced>>

Lost(e, s) == {k \in s.kids : k.key \notin Keys(e.kids)}
Extra(e, s) == {k \in e.kids : k.key \notin Keys(s.kids) /\ Kind(k) # "rule"}
Both(e, s) == {k \in e.kids : k.key \in Keys(s.kids) /\ Kind(k) \in Timed}
Gained(e, s) == {k \in Both(e, s) : ~(k.slots \subseteq TheRow(s.kids, k.key).slots)}

\* A detached row has no parking, which the columns do not allow; an inserted
\* row may clash with one inserted meanwhile, or refer to one that is gone.
Refused(p, e, s) ==
    \/ Keys(Lost(e, s)) \cap Keys(kids) # {}
    \/ Keys(Extra(e, s)) \cap Keys(kids) # {}
    \/ s.row = Absent /\ parkings[p] # Absent
    \/ s.row # Absent /\ parkings[p] = Absent /\ Extra(e, s) # {}
    \/ ~(Keys(Gained(e, s)) \subseteq Keys(kids))

Reslotted(k, e, s) ==
    IF k.key \notin Keys(Both(e, s)) THEN k
    ELSE LET new == TheRow(e.kids, k.key).slots
             old == TheRow(s.kids, k.key).slots
         IN  [k EXCEPT !.slots = (@ \ (old \ new)) \cup (new \ old)]

WriteParking(h) ==
    LET c == calls[h]
        p == c.parking
        e == c.entity
        s == c.stored
    IN  /\ At(h, "write")
        /\ \/ /\ ~Refused(p, e, s)
              /\ Store(p, IF s.row = Absent THEN e.row
                          ELSE Updated(parkings[p], e.row, Dirty(e.row, s.row)))
              /\ kids' = {Reslotted(k, e, s) : k \in kids} \cup Extra(e, s)
              /\ Advance(h, [c EXCEPT !.entity = Nothing, !.stored = Nothing])
           \/ /\ Refused(p, e, s)
              /\ Throw(h)

\* A query fails or the replica is killed: what was written stays.
Fail(h) ==
    /\ calls[h] # Idle
    /\ failures < MaxFailures
    /\ failures' = failures + 1
    /\ Goto(h, Idle)
    /\ offered' = Forgotten
    /\ UNCHANGED <<parkings, kids, priced, alone, requests>>

----------------------------------------------------------------------------
(* checkAvailability: only the day the period starts on is looked at, and  *)
(* of the period only its hours.  The date is the one in UTC, day and      *)
(* hours are those where the server stands, so that they need not agree.   *)

Covers(slots, q) == \E s \in slots : q.from >= s[1] /\ q.to <= s[2]

CheckAvailability(p, q) ==
    LET rows == Loaded(p).kids
        exceptions == {k \in OfKind(rows, "exception") : k.key[3].date = q.date}
        schedules == {k \in OfKind(rows, "schedule") : k.key[3] = q.day}
    IN  IF exceptions # {}
        THEN LET k == CHOOSE k \in exceptions : TRUE
             IN  k.key[3].available /\ (k.slots # {} => Covers(k.slots, q))
        ELSE schedules # {} /\ Covers((CHOOSE k \in schedules : TRUE).slots, q)

----------------------------------------------------------------------------
Init ==
    /\ parkings = [p \in ParkingIds |-> Absent]
    /\ kids = {}
    /\ calls = [h \in Handlers |-> Idle]
    /\ priced = [p \in ParkingIds |-> {}]
    /\ offered = Forgotten
    /\ alone = TRUE
    /\ requests = 0
    /\ failures = 0

Request(h) ==
    \/ \E ask \in Asks :
        \/ \E u \in Users : Create(h, u, ask)
        \/ \E p \in ParkingIds : Update(h, p, ask)
    \/ \E p \in ParkingIds : RemoveParking(h, p)

RuleRequest(h) ==
    \/ \E p \in ParkingIds : CreateRule(h, p)
    \/ \E k \in OfKind(kids, "rule"), u \in Users :
        \/ \E active \in BOOLEAN : ChangeRule(h, u, k, active)
        \/ RemoveRule(h, u, k)

PriceRequest(h) ==
    \/ \E p \in ParkingIds, price \in Prices : SuggestPrice(h, p, price)
    \/ \E k \in OfKind(kids, "suggestion") : ApplyPriceSuggestion(h, k)

Step(h) ==
    \/ CountParkings(h)
    \/ \E p \in ParkingIds : InsertParking(h, p)
    \/ InsertKids(h)
    \/ FillSlots(h)
    \/ ClearSlots(h)
    \/ DeleteKids(h)
    \/ PutKid(h)
    \/ CheckOwner(h)
    \/ LoadParking(h)
    \/ DeleteParking(h)
    \/ SelectParking(h)
    \/ WriteParking(h)

Next == \E h \in Handlers :
    Request(h) \/ RuleRequest(h) \/ PriceRequest(h) \/ Step(h) \/ Fail(h)

Spec == Init /\ [][Next]_parkVars

----------------------------------------------------------------------------
(* What parkings promise, however requests interleave and fail.            *)

\* Every variable has its type: rows refer to a parking, and handlers hold
\* what findOne can load.
ParkTypeOK ==
    /\ parkings \in [ParkingIds -> Parking \cup {Absent}]
    /\ \A k \in kids :
        /\ Kind(k) \in Kinds
        /\ k.parking \in ParkingIds
        /\ parkings[k.parking] # Absent
        /\ k.slots \subseteq Slots
        /\ k.slots # {} => Kind(k) \in Timed
        /\ k.flag \in BOOLEAN
        /\ k.flag => Kind(k) \in Flagged
    /\ \A h \in Handlers :
        /\ calls[h].parking \in ParkingIds \cup {NoId}
        /\ calls[h].entity.row \in Parking \cup {Absent}
        /\ calls[h].stored.row \in Parking \cup {Absent}
    /\ priced \in [ParkingIds -> SUBSET (Prices \cup {Absent})]
    /\ \A p \in ParkingIds : offered[p] # Unset => IsHours(offered[p])

\* create counts and inserts in two queries, and a save brings back a parking
\* that was removed after it was loaded; but every handler can exceed the
\* limit of level 3 by one parking at most, and one of them has to respect it.
LimitExceededByOverlapsOnly ==
    \A u \in Users :
        Level[u] = 3 =>
            Cardinality(OwnedBy(u)) + 1 <= Limit + Cardinality(Handlers)

\* A suggestion counts as applied only if its price has been the price of the
\* parking: applyPriceSuggestion sets the price before it marks.  Only for a
\* parking that was removed, and brought back by the save of an update, may it
\* be otherwise: the UPDATE of the price met no row, which save does not notice.
AppliedWasSet ==
    \A k \in OfKind(kids, "suggestion") :
        k.flag => priced[k.parking] \cap {k.key[3], Absent} # {}

----------------------------------------------------------------------------
\* What hours mean: an exception for the date decides, without slots for the
\* whole day, and otherwise the weekday.
ExceptionsFor(hours, date) == {i \in DOMAIN hours.exceptions : hours.exceptions[i].date = date}
OpensByException(e, q) == e.available /\ (e.slots # {} => Covers(e.slots, q))

\* A create or update of the hours that nothing overlaps leaves the parking
\* open at exactly the hours asked for, whatever the requests before it that
\* overlapped or died have left in the tables, until the next one.  Of several
\* exceptions for a date any may decide: checkAvailability takes the first it
\* finds among rows without an order.
OpenAsAsked ==
    \A p \in ParkingIds :
        (parkings[p] # Absent /\ offered[p] # Unset) =>
            \A q \in Queries :
                LET hours == offered[p]
                    dates == ExceptionsFor(hours, q.date)
                IN  IF dates = {}
                    THEN CheckAvailability(p, q) <=> Covers(hours.week[q.day], q)
                    ELSE \E i \in dates :
                            CheckAvailability(p, q) <=> OpensByException(hours.exceptions[i], q)
=============================================================================

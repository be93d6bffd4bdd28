------------------------- MODULE ParkingLimitProofs -------------------------
(***************************************************************************)
(* Proof that users of level 3 exceed their limit of parkings only by as   *)
(* many as requests overlap, for any number of users, parkings and         *)
(* handlers.                                                               *)
(*                                                                         *)
(* Two things take a user over the limit: requests that have all counted   *)
(* and then all insert, and saves that bring back a parking removed since  *)
(* they loaded it.  The proof counts, together with the parkings a user    *)
(* has, those that can still become theirs by either: each of these is due *)
(* to a handler, and no handler stands for two.                            *)
(***************************************************************************)
EXTENDS ParkingsProofs

Copies(c) == {c.entity.row, c.stored.row} \ {Absent}

\* The row of parking p, or the copy of it that a handler has, says that it
\* belongs to u.
RowClaims(p, u) == parkings[p] # Absent /\ parkings[p].owner = u

CopyClaims(c, p, u) == c.parking = p /\ \E row \in Copies(c) : row.owner = u

Claims(p, u) == RowClaims(p, u) \/ \E h \in Handlers : CopyClaims(calls[h], p, u)

\* Nobody changes whose a parking is.
OneOwner ==
    \A p \in ParkingIds, u \in Users, v \in Users : Claims(p, u) /\ Claims(p, v) => u = v

Held(u) == {p \in ParkingIds : Claims(p, u)}

Inserting(u) == {h \in Handlers : At(h, "insertParking") /\ calls[h].user = u}

Bounded ==
    \A u \in Users : Level[u] = 3 =>
        Cardinality(Held(u)) + Cardinality(Inserting(u)) + 1 <= Limit + Cardinality(Handlers)

LimitInv == ParkInv /\ OneOwner /\ Bounded

----------------------------------------------------------------------------
(* Sets of parkings and handlers                                           *)

LEMMA HeldFinite ==
    \A u : /\ IsFiniteSet(Held(u)) /\ Cardinality(Held(u)) \in Nat
           /\ IsFiniteSet(Inserting(u)) /\ Cardinality(Inserting(u)) \in Nat
           /\ IsFiniteSet(OwnedBy(u)) /\ Cardinality(OwnedBy(u)) \in Nat
<1> SUFFICES ASSUME NEW u
             PROVE  /\ IsFiniteSet(Held(u)) /\ Cardinality(Held(u)) \in Nat
                    /\ IsFiniteSet(Inserting(u)) /\ Cardinality(Inserting(u)) \in Nat
                    /\ IsFiniteSet(OwnedBy(u)) /\ Cardinality(OwnedBy(u)) \in Nat
  OBVIOUS
<1>1. Held(u) \subseteq ParkingIds /\ OwnedBy(u) \subseteq ParkingIds
      /\ Inserting(u) \subseteq Handlers
  BY DEF Held, OwnedBy, Inserting
<1> QED
  BY <1>1, ParkConstants, FS_Subset, FS_CardinalityType

\* Sets of which one is larger by an element at most.
LEMMA OneMore ==
    ASSUME NEW S, NEW T, NEW x, IsFiniteSet(S), T \subseteq S \cup {x}
    PROVE  /\ IsFiniteSet(T) /\ Cardinality(T) \in Nat /\ Cardinality(S) \in Nat
           /\ Cardinality(T) <= Cardinality(S) + 1
<1>1. /\ IsFiniteSet(S \cup {x})
      /\ Cardinality(S \cup {x}) = IF x \in S THEN Cardinality(S) ELSE Cardinality(S) + 1
  BY FS_AddElement
<1>2. IsFiniteSet(T) /\ Cardinality(T) <= Cardinality(S \cup {x})
  BY <1>1, FS_Subset
<1> QED
  BY <1>1, <1>2, FS_CardinalityType

LEMMA OneLess ==
    ASSUME NEW S, NEW T, NEW x \in S, IsFiniteSet(S), T \subseteq S \ {x}
    PROVE  /\ IsFiniteSet(T) /\ Cardinality(T) \in Nat /\ Cardinality(S) \in Nat
           /\ Cardinality(T) + 1 <= Cardinality(S)
<1>1. IsFiniteSet(S \ {x}) /\ Cardinality(S \ {x}) = Cardinality(S) - 1
  BY FS_RemoveElement
<1>2. IsFiniteSet(T) /\ Cardinality(T) <= Cardinality(S \ {x})
  BY <1>1, FS_Subset
<1> QED
  BY <1>1, <1>2, FS_CardinalityType

----------------------------------------------------------------------------
(* Steps that make no parking anybody's                                    *)

\* A handler about to insert a parking works on none yet.
LEMMA InsertsAnew ==
    ASSUME NEW c \in Call, NEW prices, Knows(c, prices), c.todo # <<>>,
           Head(c.todo).do = "insertParking"
    PROVE  /\ c.parking = NoId /\ c.stored = Nothing
           /\ c.entity.row \in Parking /\ c.entity.row.owner = c.user
<1>1. c.todo \in Seq(AnyQuery) /\ Head(c.todo) = c.todo[1] /\ c.todo[1] \in AnyQuery
  BY HeadTailProperties DEF Call
<1>2. ~NowLate(c.todo) /\ c # Idle
  BY <1>1, QueryFields DEF NowLate, LateFrom, Idle
<1>3. /\ ~ChecksOwner(c.todo) /\ ~Writes(c.todo) /\ ~Selects(c.todo) /\ ~Loads(c.todo)
  BY <1>1 DEF ChecksOwner, Writes, Selects, Loads
<1> QED
  BY <1>2, <1>3 DEF Knows

\* What handler h becomes: c, whose copies say of its parking no more than was
\* said before, and which is not about to insert.
Meek(h, c) ==
    /\ \A p \in ParkingIds : \A u \in Users : CopyClaims(c, p, u) => Claims(p, u)
    /\ c.todo = <<>> \/ Head(c.todo).do # "insertParking"

\* A step of handler h after which nothing belongs to anybody that did not.
LEMMA Narrowed ==
    ASSUME LimitInv, ParkInv', NEW h \in Handlers, NEW c, Goto(h, c), Meek(h, c),
           \A p \in ParkingIds, u \in Users : RowClaims(p, u)' => Claims(p, u)
    PROVE  LimitInv'
<1>1. \A g \in Handlers : calls'[g] = IF g = h THEN c ELSE calls[g]
  BY DEF LimitInv, ParkInv, Handled, Goto
<1>2. ASSUME NEW p \in ParkingIds, NEW u \in Users, Claims(p, u)' PROVE Claims(p, u)
  <2>1. CASE RowClaims(p, u)'
    BY <2>1
  <2>2. CASE \E g \in Handlers : CopyClaims(calls'[g], p, u)
    <3>1. PICK g \in Handlers : CopyClaims(calls'[g], p, u)
      BY <2>2
    <3>2. CASE g = h
      BY <1>1, <3>1, <3>2 DEF Meek
    <3>3. CASE g # h
      BY <1>1, <3>1, <3>3 DEF Claims
    <3> QED
      BY <3>2, <3>3
  <2> QED
    BY <1>2, <2>1, <2>2 DEF Claims
<1>3. OneOwner'
  BY <1>2 DEF OneOwner, LimitInv
<1>4. ASSUME NEW u \in Users, Level[u] = 3
      PROVE  Cardinality(Held(u)') + Cardinality(Inserting(u)') + 1
                <= Limit + Cardinality(Handlers)
  <2>1. Held(u)' \subseteq Held(u)
    BY <1>2 DEF Held
  <2>2. Inserting(u)' \subseteq Inserting(u)
    BY <1>1 DEF Inserting, At, Meek
  <2>3. /\ Cardinality(Held(u)') <= Cardinality(Held(u)) /\ Cardinality(Held(u)') \in Nat
        /\ Cardinality(Inserting(u)') <= Cardinality(Inserting(u))
        /\ Cardinality(Inserting(u)') \in Nat
    BY <2>1, <2>2, HeldFinite, FS_Subset, FS_CardinalityType
  <2>4. Cardinality(Held(u)) + Cardinality(Inserting(u)) + 1 <= Limit + Cardinality(Handlers)
    BY <1>4 DEF LimitInv, Bounded
  <2>5. Limit \in Nat /\ Cardinality(Handlers) \in Nat
    BY ParkConstants, FS_CardinalityType
  <2> QED
    BY <2>3, <2>4, <2>5, HeldFinite
<1> QED
  BY <1>3, <1>4 DEF LimitInv, Bounded

\* The handler goes on, or has done.
LEMMA Narrowing ==
    ASSUME LimitInv, ParkInv', NEW h \in Handlers, NEW c \in Call, Advance(h, c), c.todo # <<>>,
           c.parking \in ParkingIds,
           \A u \in Users : CopyClaims(c, c.parking, u) => Claims(c.parking, u),
           \A p \in ParkingIds, u \in Users : RowClaims(p, u)' => Claims(p, u)
    PROVE  LimitInv'
<1> DEFINE d == IF Len(c.todo) = 1 THEN Idle ELSE Rest(c)
<1>1. Goto(h, d)
  BY DEF Advance, Rest
<1>2. calls'[h] = d /\ d \in Call /\ Knows(d, priced')
  BY <1>1 DEF LimitInv, ParkInv, Handled, CallsKnow, Goto
<1>3. /\ Rest(c).parking = c.parking /\ Copies(Rest(c)) = Copies(c)
      /\ Idle.todo = <<>> /\ Idle.parking = NoId
  BY DEF Rest, Call, Copies, Idle
<1>4. d = Idle \/ (d.parking = c.parking /\ Copies(d) = Copies(c))
  BY <1>3
<1> HIDE DEF d
<1>5. ASSUME NEW p \in ParkingIds, NEW u \in Users, CopyClaims(d, p, u) PROVE Claims(p, u)
  BY <1>3, <1>4, <1>5, ParkConstants DEF CopyClaims
<1>6. d.todo = <<>> \/ Head(d.todo).do # "insertParking"
  BY <1>2, <1>3, <1>4, InsertsAnew, ParkConstants
<1>7. Meek(h, d)
  BY <1>5, <1>6 DEF Meek
<1> QED
  BY <1>1, <1>7, Narrowed

LEMMA SameRows ==
    ASSUME UNCHANGED parkings
    PROVE  \A p \in ParkingIds, u \in Users : RowClaims(p, u)' => Claims(p, u)
  BY DEF RowClaims, Claims

\* A request ends, whatever is left to do.
LEMMA LimitEnded ==
    ASSUME LimitInv, ParkInv', NEW h \in Handlers, Goto(h, Idle), UNCHANGED parkings
    PROVE  LimitInv'
<1>1. Idle.todo = <<>> /\ Idle.parking = NoId
  BY DEF Idle
<1>2. Meek(h, Idle)
  BY <1>1, ParkConstants DEF Meek, CopyClaims
<1> QED
  BY <1>2, SameRows, Narrowed

\* A request is accepted that will not insert a parking next; what it has
\* loaded belongs to whom it belonged.
LEMMA LimitAccepted ==
    ASSUME LimitInv, ParkInv', NEW h \in Handlers, NEW op, NEW hit, NEW c, Accept(h, op, hit, c),
           \A p \in ParkingIds, u \in Users : CopyClaims(c, p, u) => Claims(p, u),
           Head(c.todo).do # "insertParking"
    PROVE  LimitInv'
<1>1. Meek(h, c)
  BY DEF Meek
<1> QED
  BY <1>1, SameRows, Narrowed DEF Accept

\* Many requests work without a copy.
LEMMA AcceptedBlank ==
    ASSUME LimitInv, ParkInv', NEW h \in Handlers, NEW op, NEW hit, NEW c, Accept(h, op, hit, c),
           c.entity = Nothing, c.stored = Nothing, Head(c.todo).do # "insertParking"
    PROVE  LimitInv'
<1>1. \A p, u : ~CopyClaims(c, p, u)
  BY DEF CopyClaims, Copies, Nothing
<1> QED
  BY <1>1, LimitAccepted

\* What findOne answers is whose it is, whatever price it is given.
LEMMA LoadedClaims ==
    ASSUME ParkInv, NEW p \in ParkingIds, NEW u \in Users, NEW row,
           parkings[p] # Absent, row.owner = u,
           row = parkings[p] \/ \E price : row = [parkings[p] EXCEPT !.price = price]
    PROVE  RowClaims(p, u)
<1>1. parkings[p] \in Parking
  BY DEF ParkInv, Tables
<1>2. row.owner = parkings[p].owner
  BY <1>1 DEF Parking
<1> QED
  BY <1>2 DEF RowClaims

----------------------------------------------------------------------------
(* Requests                                                                *)

LEMMA CreateBounded ==
    ASSUME LimitInv, ParkInv', NEW h \in Handlers, NEW u \in Users, NEW ask \in Asks,
           Create(h, u, ask)
    PROVE  LimitInv'
<1> DEFINE todo == CreateSteps(ask)
           c == [Idle EXCEPT !.todo = todo, !.user = u, !.hours = ask.hours,
                             !.entity.row = [owner |-> u, price |-> ask.price]]
<1>1. Accept(h, "create", {}, c)
  BY DEF Create
<1>2. Head(todo).do # "insertParking"
  <2>1. Counts(todo)
    BY CreateStepsType DEF LimitInv, ParkInv, Handled
  <2>2. todo \in Seq(AnyQuery) /\ Len(todo) >= 2 /\ todo[1].do = "count"
    <3> HIDE DEF todo
    <3> QED
      BY <2>1 DEF Counts, LateFrom
  <2> HIDE DEF todo
  <2>3. Head(todo) = todo[1]
    BY <2>2, HeadTailProperties
  <2> QED
    BY <2>2, <2>3
<1> HIDE DEF todo
<1>3. c.todo = todo /\ c.parking = NoId
  BY DEF Idle
<1> HIDE DEF c
<1>4. \A p \in ParkingIds, v \in Users : CopyClaims(c, p, v) => Claims(p, v)
  BY <1>3, ParkConstants DEF CopyClaims
<1> QED
  BY <1>1, <1>2, <1>3, <1>4, LimitAccepted

LEMMA UpdateBounded ==
    ASSUME LimitInv, ParkInv', NEW h \in Handlers, NEW p \in ParkingIds, NEW ask \in Asks,
           Update(h, p, ask)
    PROVE  LimitInv'
<1> DEFINE e == Loaded(p)
           entity == IF ask.price = Unset THEN e ELSE [e EXCEPT !.row.price = ask.price]
           todo == UpdateSteps(e.kids, ask)
           c == [Idle EXCEPT !.todo = todo, !.user = parkings[p].owner, !.parking = p,
                             !.hours = ask.hours, !.entity = entity]
           hit == IF ask.hours = Unset THEN {} ELSE {p}
<1>1. /\ parkings[p] # Absent /\ Accept(h, "update", hit, c) /\ ParkInv
      /\ e \in Copy /\ e.row = parkings[p]
  BY LoadedFits DEF Update, LimitInv
<1>2. \/ entity.row = parkings[p]
      \/ entity.row = [parkings[p] EXCEPT !.price = ask.price]
  <2> HIDE DEF e
  <2> QED
    BY <1>1 DEF Copy
<1>3. Head(todo).do # "insertParking"
  <2>1. e.kids \in SUBSET Kid /\ IsFiniteSet(e.kids) /\ requests \in Nat
    BY <1>1 DEF Copy, ParkInv, Handled
  <2> HIDE DEF e
  <2>2. Selects(todo)
    BY <2>1, UpdateStepsType
  <2> HIDE DEF todo
  <2>3. todo \in Seq(AnyQuery) /\ Len(todo) >= 2 /\ todo[1].do = "select"
    BY <2>2 DEF Selects, LateFrom
  <2>4. Head(todo) = todo[1]
    BY <2>3, HeadTailProperties
  <2> QED
    BY <2>3, <2>4
<1> HIDE DEF todo, entity, hit
<1>4. /\ c.todo = todo /\ c.parking = p /\ c.entity = entity /\ c.stored = Nothing
  BY DEF Idle
<1> HIDE DEF c
<1>5. ASSUME NEW q \in ParkingIds, NEW u \in Users, CopyClaims(c, q, u) PROVE Claims(q, u)
  <2>1. q = p /\ entity.row.owner = u
    BY <1>4, <1>5 DEF CopyClaims, Copies, Nothing
  <2>2. RowClaims(p, u)
    BY <1>1, <1>2, <2>1, LoadedClaims
  <2> QED
    BY <2>1, <2>2 DEF Claims
<1> QED
  BY <1>1, <1>3, <1>4, <1>5, LimitAccepted

LEMMA HeadInserted ==
    ASSUME NEW kind, NEW values, values # {}
    PROVE  Head(Inserted(kind, values)).do # "insertParking"
  BY DEF Inserted

LEMMA RequestsBounded ==
    ASSUME LimitInv, ParkInv', NEW h \in Handlers, Request(h) \/ RuleRequest(h) \/ PriceRequest(h)
    PROVE  LimitInv'
<1>1. ASSUME NEW u \in Users, NEW ask \in Asks, Create(h, u, ask) PROVE LimitInv'
  BY <1>1, CreateBounded
<1>2. ASSUME NEW p \in ParkingIds, NEW ask \in Asks, Update(h, p, ask) PROVE LimitInv'
  BY <1>2, UpdateBounded
<1>3. ASSUME NEW p \in ParkingIds, RemoveParking(h, p) PROVE LimitInv'
  <2> DEFINE todo == <<[do |-> "remove"]>>
             c == [Idle EXCEPT !.todo = todo, !.user = parkings[p].owner, !.parking = p]
  <2>1. Accept(h, "remove", {}, c)
    BY <1>3 DEF RemoveParking
  <2>2. Head(todo).do # "insertParking"
    OBVIOUS
  <2> HIDE DEF todo
  <2>3. c.todo = todo /\ c.entity = Nothing /\ c.stored = Nothing
    BY DEF Idle
  <2> HIDE DEF c
  <2> QED
    BY <2>1, <2>2, <2>3, AcceptedBlank
<1>4. ASSUME NEW p \in ParkingIds, CreateRule(h, p) PROVE LimitInv'
  <2> DEFINE todo == Inserted("rule", {0})
             c == [Idle EXCEPT !.todo = todo, !.user = parkings[p].owner, !.parking = p]
  <2>1. Accept(h, "rule", {}, c)
    BY <1>4 DEF CreateRule
  <2>2. Head(todo).do # "insertParking"
    BY HeadInserted
  <2> HIDE DEF todo
  <2>3. c.todo = todo /\ c.entity = Nothing /\ c.stored = Nothing
    BY DEF Idle
  <2> HIDE DEF c
  <2> QED
    BY <2>1, <2>2, <2>3, AcceptedBlank
<1>5. ASSUME NEW u \in Users, NEW k, NEW active, ChangeRule(h, u, k, active) PROVE LimitInv'
  <2> DEFINE todo == <<[do |-> "owner"], [do |-> "put", row |-> [k EXCEPT !.flag = active]]>>
             c == [Idle EXCEPT !.todo = todo, !.user = u, !.parking = k.parking]
  <2>1. Accept(h, "rule", {}, c)
    BY <1>5 DEF ChangeRule
  <2>2. Head(todo).do # "insertParking"
    OBVIOUS
  <2> HIDE DEF todo
  <2>3. c.todo = todo /\ c.entity = Nothing /\ c.stored = Nothing
    BY DEF Idle
  <2> HIDE DEF c
  <2> QED
    BY <2>1, <2>2, <2>3, AcceptedBlank
<1>6. ASSUME NEW u \in Users, NEW k, RemoveRule(h, u, k) PROVE LimitInv'
  <2> DEFINE todo == <<[do |-> "owner"], [do |-> "delete", keys |-> {k.key}]>>
             c == [Idle EXCEPT !.todo = todo, !.user = u, !.parking = k.parking]
  <2>1. Accept(h, "rule", {}, c)
    BY <1>6 DEF RemoveRule
  <2>2. Head(todo).do # "insertParking"
    OBVIOUS
  <2> HIDE DEF todo
  <2>3. c.todo = todo /\ c.entity = Nothing /\ c.stored = Nothing
    BY DEF Idle
  <2> HIDE DEF c
  <2> QED
    BY <2>1, <2>2, <2>3, AcceptedBlank
<1>7. ASSUME NEW p \in ParkingIds, NEW price, SuggestPrice(h, p, price) PROVE LimitInv'
  <2> DEFINE todo == Inserted("suggestion", {price})
             c == [Idle EXCEPT !.todo = todo, !.parking = p]
  <2>1. Accept(h, "price", {}, c)
    BY <1>7 DEF SuggestPrice
  <2>2. Head(todo).do # "insertParking"
    BY HeadInserted
  <2> HIDE DEF todo
  <2>3. c.todo = todo /\ c.entity = Nothing /\ c.stored = Nothing
    BY DEF Idle
  <2> HIDE DEF c
  <2> QED
    BY <2>1, <2>2, <2>3, AcceptedBlank
<1>8. ASSUME NEW k, ApplyPriceSuggestion(h, k) PROVE LimitInv'
  <2> DEFINE todo == ApplySteps(k)
             c == [Idle EXCEPT !.todo = todo, !.parking = k.parking]
  <2>1. Accept(h, "price", {}, c)
    BY <1>8 DEF ApplyPriceSuggestion
  <2>2. Head(todo).do # "insertParking"
    BY DEF ApplySteps, SaveParking
  <2> HIDE DEF todo
  <2>3. c.todo = todo /\ c.entity = Nothing /\ c.stored = Nothing
    BY DEF Idle
  <2> HIDE DEF c
  <2> QED
    BY <2>1, <2>2, <2>3, AcceptedBlank
<1> QED
  BY <1>1, <1>2, <1>3, <1>4, <1>5, <1>6, <1>7, <1>8 DEF Request, RuleRequest, PriceRequest

----------------------------------------------------------------------------
(* Queries                                                                 *)

\* A query of a handler that keeps its copies, or forgets them, changes no
\* parking's row.
LEMMA SameCopies ==
    ASSUME LimitInv, ParkInv', NEW h \in Handlers, NEW s, At(h, s),
           s \notin {"insertParking", "count"}, Advance(h, calls[h]), UNCHANGED parkings
    PROVE  LimitInv'
<1> DEFINE c == calls[h]
<1>1. c \in Call /\ c.todo # <<>> /\ c.parking \in ParkingIds
  BY KnowsAt DEF LimitInv
<1>2. \A u \in Users : CopyClaims(c, c.parking, u) => Claims(c.parking, u)
  BY DEF Claims
<1> HIDE DEF c
<1> QED
  BY <1>1, <1>2, SameRows, Narrowing DEF c

LEMMA LoadBounded ==
    ASSUME LimitInv, ParkInv', NEW h \in Handlers, LoadParking(h)
    PROVE  LimitInv'
<1> DEFINE p == calls[h].parking
           price == Query(h).price
           entity == [Loaded(p) EXCEPT !.row.price = price]
           c == [calls[h] EXCEPT !.entity = entity]
<1>1. CASE Throw(h)
  BY <1>1, LimitEnded DEF Throw
<1>2. CASE parkings[p] # Absent /\ Advance(h, c) /\ UNCHANGED parkings
  <2>1. /\ calls[h] \in Call /\ calls[h].todo # <<>> /\ p \in ParkingIds
        /\ price \in Prices /\ ParkInv
    BY KnowsAt, QueryFields DEF LoadParking, LimitInv
  <2>2. /\ entity \in Copy
        /\ entity.row = [parkings[p] EXCEPT !.price = price]
    <3>1. /\ Loaded(p) \in Copy /\ Loaded(p).row = parkings[p] /\ parkings[p] \in Parking
      BY <1>2, <2>1, LoadedFits
    <3> DEFINE row == [parkings[p] EXCEPT !.price = price]
    <3>2. row \in Parking
      BY <2>1, <3>1 DEF Parking
    <3>3. entity = [row |-> row, kids |-> Loaded(p).kids]
      BY <3>1 DEF Copy
    <3> HIDE DEF row, entity, price, p
    <3> QED
      BY <3>1, <3>2, <3>3 DEF Copy, row
  <2> HIDE DEF entity, price, p
  <2>3. c \in Call /\ c.todo = calls[h].todo /\ c.parking = p /\ c.entity = entity
        /\ c.stored = calls[h].stored
    BY <2>1, <2>2 DEF Call, p
  <2> HIDE DEF c
  <2>4. ASSUME NEW u \in Users, CopyClaims(c, p, u) PROVE Claims(p, u)
    <3>1. CASE entity.row.owner = u
      <4>1. RowClaims(p, u)
        BY <1>2, <2>1, <2>2, <3>1, LoadedClaims
      <4> QED
        BY <4>1 DEF Claims
    <3>2. CASE entity.row.owner # u
      <4>1. CopyClaims(calls[h], p, u)
        BY <2>3, <2>4, <3>2 DEF CopyClaims, Copies, p
      <4> QED
        BY <4>1 DEF Claims
    <3> QED
      BY <3>1, <3>2
  <2> QED
    BY <1>2, <2>1, <2>3, <2>4, SameRows, Narrowing
<1> QED
  BY <1>1, <1>2 DEF LoadParking

LEMMA SelectBounded ==
    ASSUME LimitInv, ParkInv', NEW h \in Handlers, SelectParking(h)
    PROVE  LimitInv'
<1> DEFINE p == calls[h].parking
           stored == Loaded(p)
           c == [calls[h] EXCEPT !.stored = stored]
<1>1. Advance(h, c) /\ UNCHANGED parkings
  BY DEF SelectParking
<1>2. calls[h] \in Call /\ calls[h].todo # <<>> /\ p \in ParkingIds /\ ParkInv
  BY KnowsAt DEF SelectParking, LimitInv
<1>3. stored \in Copy /\ stored.row = parkings[p]
  BY <1>2, LoadedFits
<1> HIDE DEF stored, p
<1>4. c \in Call /\ c.todo = calls[h].todo /\ c.parking = p /\ c.entity = calls[h].entity
      /\ c.stored = stored
  BY <1>2, <1>3 DEF Call, p
<1> HIDE DEF c
<1>5. ASSUME NEW u \in Users, CopyClaims(c, p, u) PROVE Claims(p, u)
  <2>1. CASE stored.row # Absent /\ stored.row.owner = u
    BY <1>3, <2>1 DEF Claims, RowClaims
  <2>2. CASE ~(stored.row # Absent /\ stored.row.owner = u)
    <3>1. CopyClaims(calls[h], p, u)
      BY <1>4, <1>5, <2>2 DEF CopyClaims, Copies, p
    <3> QED
      BY <3>1 DEF Claims
  <2> QED
    BY <2>1, <2>2
<1> QED
  BY <1>1, <1>2, <1>4, <1>5, SameRows, Narrowing

LEMMA DeleteParkingBounded ==
    ASSUME LimitInv, ParkInv', NEW h \in Handlers, DeleteParking(h)
    PROVE  LimitInv'
<1> DEFINE c == calls[h]
<1>1. /\ c \in Call /\ c.todo # <<>> /\ c.parking \in ParkingIds
      /\ Store(c.parking, Absent) /\ Advance(h, c)
  BY KnowsAt DEF LimitInv, DeleteParking
<1>2. \A u \in Users : CopyClaims(c, c.parking, u) => Claims(c.parking, u)
  BY DEF Claims
<1>3. \A p \in ParkingIds, u \in Users : RowClaims(p, u)' => Claims(p, u)
  BY <1>1 DEF Store, RowClaims, Claims, LimitInv, ParkInv, Tables
<1> HIDE DEF c
<1> QED
  BY <1>1, <1>2, <1>3, Narrowing

LEMMA WriteBounded ==
    ASSUME LimitInv, ParkInv', NEW h \in Handlers, WriteParking(h)
    PROVE  LimitInv'
<1> DEFINE c == calls[h]
           p == c.parking
           e == c.entity
           s == c.stored
           row == IF s.row = Absent THEN e.row
                  ELSE Updated(parkings[p], e.row, Dirty(e.row, s.row))
           d == [c EXCEPT !.entity = Nothing, !.stored = Nothing]
<1>1. CASE Throw(h)
  BY <1>1, LimitEnded DEF Throw
<1>2. CASE Store(p, row) /\ Advance(h, d)
  <2>1. /\ c \in Call /\ c.todo # <<>> /\ p \in ParkingIds /\ e.row \in Parking
        /\ s.row \in Parking \cup {Absent} /\ ParkInv
    <3>1. /\ c \in Call /\ c.todo # <<>> /\ p \in ParkingIds /\ Saving(c) /\ ParkInv
      BY KnowsAt DEF LimitInv, WriteParking
    <3> HIDE DEF c
    <3> QED
      BY <3>1 DEF Saving, Call, Copy
  <2>2. Nothing \in Copy
    BY FS_EmptySet DEF Nothing, Copy
  <2> DEFINE owner == e.row.owner
  <2>3. owner \in Users /\ Claims(p, owner)
    <3>1. CopyClaims(c, p, owner)
      BY <2>1, AbsentIsNoParking DEF CopyClaims, Copies
    <3> QED
      BY <2>1, <3>1 DEF Claims, Parking
  <2>4. s.row # Absent => s.row.owner = owner
    <3> SUFFICES ASSUME s.row # Absent PROVE s.row.owner = owner
      OBVIOUS
    <3>1. CopyClaims(c, p, s.row.owner) /\ s.row.owner \in Users
      BY <2>1 DEF CopyClaims, Copies, Parking
    <3>2. Claims(p, s.row.owner)
      BY <3>1 DEF Claims
    <3> QED
      BY <2>1, <2>3, <3>1, <3>2 DEF OneOwner, LimitInv
  <2>5. parkings[p] # Absent => parkings[p].owner = owner
    <3> SUFFICES ASSUME parkings[p] # Absent PROVE parkings[p].owner = owner
      OBVIOUS
    <3>1. parkings[p].owner \in Users
      BY <2>1 DEF ParkInv, Tables, Parking
    <3>2. Claims(p, parkings[p].owner)
      BY DEF Claims, RowClaims
    <3> QED
      BY <2>1, <2>3, <3>1, <3>2 DEF OneOwner, LimitInv
  <2>6. d \in Call /\ d.todo = c.todo /\ d.parking = p /\ d.entity = Nothing /\ d.stored = Nothing
    BY <2>1, <2>2 DEF Call
  <2> HIDE DEF d
  <2>7. \A u \in Users : CopyClaims(d, p, u) => Claims(p, u)
    BY <2>6 DEF CopyClaims, Copies, Nothing
  <2>8. row # Absent => row.owner = owner
    <3>1. parkings[p] \in Parking \cup {Absent}
      BY <2>1 DEF ParkInv, Tables
    <3> HIDE DEF c
    <3> QED
      BY <2>1, <2>4, <2>5, <3>1, SavedRow
  <2>9. parkings' = [parkings EXCEPT ![p] = row]
    BY <1>2 DEF Store
  <2> HIDE DEF row, owner, s, e, p
  <2>10. \A q \in ParkingIds, u \in Users : RowClaims(q, u)' => Claims(q, u)
    BY <2>1, <2>3, <2>8, <2>9 DEF RowClaims, Claims, ParkInv, Tables
  <2> HIDE DEF c
  <2> QED
    BY <1>2, <2>1, <2>6, <2>7, <2>10, Narrowing
<1> QED
  BY <1>1, <1>2 DEF WriteParking

\* Parkings that handlers can bring back, and handlers that are going to
\* insert one, are no more than there are handlers.
LEMMA HandlersStandForOne ==
    ASSUME NEW B, IsFiniteSet(B), B \subseteq ParkingIds,
           \A p \in B : \E g \in Handlers : calls[g].parking = p,
           NEW I, I \subseteq Handlers, \A g \in I : calls[g].parking = NoId
    PROVE  Cardinality(B) + Cardinality(I) <= Cardinality(Handlers)
<1> DEFINE f == [p \in B |-> CHOOSE g \in Handlers : calls[g].parking = p]
           T == Handlers \ I
<1>1. \A p \in B : f[p] \in Handlers /\ calls[f[p]].parking = p
  OBVIOUS
<1>2. f \in [B -> T]
  BY <1>1, ParkConstants
<1>3. \A p, q \in B : f[p] = f[q] => p = q
  BY <1>1
<1> HIDE DEF f
<1>4. f \in Injection(B, T)
  BY <1>2, <1>3 DEF Injection, IsInjective
<1>5. /\ IsFiniteSet(T)
      /\ Cardinality(T) = Cardinality(Handlers) - Cardinality(Handlers \cap I)
  BY ParkConstants, FS_Difference
<1>6. Handlers \cap I = I /\ IsFiniteSet(I)
  BY ParkConstants, FS_Subset
<1>7. Cardinality(T) = Cardinality(Handlers) - Cardinality(I)
  BY <1>5, <1>6
<1> HIDE DEF T
<1>8. Cardinality(B) <= Cardinality(T)
  BY <1>4, <1>5, FS_Injection
<1>9. /\ Cardinality(B) \in Nat /\ Cardinality(T) \in Nat /\ Cardinality(I) \in Nat
      /\ Cardinality(Handlers) \in Nat
  BY <1>5, <1>6, ParkConstants, FS_CardinalityType
<1> QED
  BY <1>7, <1>8, <1>9

\* create counts: the parkings the user has are fewer than the limit, and
\* what can still be added is due to the handlers, this one included.
LEMMA CountBounded ==
    ASSUME LimitInv, ParkInv', NEW h \in Handlers, CountParkings(h)
    PROVE  LimitInv'
<1> DEFINE c == calls[h]
           owner == c.user
<1>1. CASE Throw(h)
  BY <1>1, LimitEnded DEF Throw
<1>2. CASE WithinLimit(owner) /\ Advance(h, c) /\ UNCHANGED <<parkings, kids, priced>>
  <2>1. c \in Call /\ c.parking = NoId /\ Counts(c.todo) /\ ParkInv
    BY KnowsAt DEF CountParkings, LimitInv
  <2>2. \A g \in Handlers : calls'[g] = IF g = h THEN Rest(c) ELSE calls[g]
    <3>1. Len(c.todo) # 1
      <4> HIDE DEF c
      <4> QED
        BY <2>1 DEF Counts, LateFrom
    <3> QED
      BY <1>2, <2>1, <3>1 DEF Advance, Goto, Rest, ParkInv, Handled
  <2>3. Rest(c).parking = NoId /\ Rest(c).user = owner
    BY <2>1 DEF Rest, Call
  <2>4. ASSUME NEW p \in ParkingIds, NEW u \in Users, Claims(p, u)' PROVE Claims(p, u)
    <3>1. CASE RowClaims(p, u)'
      BY <1>2, <3>1 DEF RowClaims, Claims
    <3>2. CASE \E g \in Handlers : CopyClaims(calls'[g], p, u)
      <4>1. PICK g \in Handlers : CopyClaims(calls'[g], p, u)
        BY <3>2
      <4>2. g # h
        BY <2>2, <2>3, <4>1, ParkConstants DEF CopyClaims
      <4>3. CopyClaims(calls[g], p, u)
        BY <2>2, <4>1, <4>2
      <4> QED
        BY <4>3 DEF Claims
    <3> QED
      BY <2>4, <3>1, <3>2 DEF Claims
  <2>5. OneOwner'
    BY <2>4 DEF OneOwner, LimitInv
  <2>6. Limit \in Nat /\ Cardinality(Handlers) \in Nat
    BY ParkConstants, FS_CardinalityType
  <2>7. ASSUME NEW u \in Users, Level[u] = 3
        PROVE  Cardinality(Held(u)') + Cardinality(Inserting(u)') + 1
                  <= Limit + Cardinality(Handlers)
    <3>1. Held(u)' \subseteq Held(u)
      BY <2>4 DEF Held
    <3>2. IsFiniteSet(Held(u)') /\ Cardinality(Held(u)') \in Nat
          /\ Cardinality(Held(u)') <= Cardinality(Held(u))
      BY <3>1, HeldFinite, FS_Subset, FS_CardinalityType
    <3>3. CASE u # owner
      <4>1. Inserting(u)' \subseteq Inserting(u)
        BY <2>2, <2>3, <3>3 DEF Inserting, At
      <4>2. Cardinality(Inserting(u)') <= Cardinality(Inserting(u))
            /\ Cardinality(Inserting(u)') \in Nat
        BY <4>1, HeldFinite, FS_Subset, FS_CardinalityType
      <4>3. Cardinality(Held(u)) + Cardinality(Inserting(u)) + 1 <= Limit + Cardinality(Handlers)
        BY <2>7 DEF LimitInv, Bounded
      <4> QED
        BY <2>6, <3>2, <4>2, <4>3, HeldFinite
    <3>4. CASE u = owner
      <4> DEFINE B == Held(u)' \ OwnedBy(u)
                 I == Inserting(u)'
      <4>1. Cardinality(OwnedBy(u)) + 1 <= Limit
        BY <1>2, <2>6, <2>7, <3>4, HeldFinite DEF WithinLimit
      <4>2. IsFiniteSet(B) /\ Cardinality(B) \in Nat /\ B \subseteq ParkingIds
        <5>1. IsFiniteSet(B)
          BY <3>2, FS_Difference
        <5>2. B \subseteq ParkingIds
          BY DEF Held
        <5> HIDE DEF B
        <5> QED
          BY <5>1, <5>2, FS_CardinalityType
      <4>3. ASSUME NEW p \in B PROVE \E g \in Handlers : calls[g].parking = p
        <5>1. p \in ParkingIds /\ Claims(p, u) /\ p \notin OwnedBy(u)
          BY <3>1 DEF Held
        <5>2. ~RowClaims(p, u)
          BY <5>1 DEF RowClaims, OwnedBy
        <5> QED
          BY <5>1, <5>2 DEF Claims, CopyClaims
      <4>4. ASSUME NEW g \in I PROVE g \in Handlers /\ calls[g].parking = NoId
        <5>1. /\ g \in Handlers /\ calls'[g].todo # <<>>
              /\ Head(calls'[g].todo).do = "insertParking"
          BY DEF Inserting, At
        <5>2. calls'[g] \in Call /\ Knows(calls'[g], priced')
          BY <5>1 DEF ParkInv, Handled, CallsKnow
        <5>3. calls'[g].parking = NoId
          BY <5>1, <5>2, InsertsAnew
        <5> QED
          BY <2>1, <2>2, <5>1, <5>3
      <4>5. IsFiniteSet(I) /\ Cardinality(I) \in Nat
        BY <4>4, ParkConstants, FS_Subset, FS_CardinalityType
      <4> HIDE DEF B, I
      <4>6. Cardinality(B) + Cardinality(I) <= Cardinality(Handlers)
        BY <4>2, <4>3, <4>4, HandlersStandForOne
      <4>7. Cardinality(Held(u)') <= Cardinality(OwnedBy(u)) + Cardinality(B)
        <5>1. Held(u)' \subseteq OwnedBy(u) \cup B
          BY DEF B
        <5>2. /\ IsFiniteSet(OwnedBy(u) \cup B)
              /\ Cardinality(OwnedBy(u) \cup B)
                   = Cardinality(OwnedBy(u)) + Cardinality(B) - Cardinality(OwnedBy(u) \cap B)
          BY <4>2, HeldFinite, FS_Union
        <5>3. OwnedBy(u) \cap B = {} /\ Cardinality(OwnedBy(u) \cap B) = 0
          BY FS_EmptySet DEF B
        <5>4. Cardinality(Held(u)') <= Cardinality(OwnedBy(u) \cup B)
          BY <5>1, <5>2, FS_Subset
        <5> QED
          BY <4>2, <5>2, <5>3, <5>4, HeldFinite
      <4> QED
        BY <2>6, <3>2, <4>1, <4>2, <4>5, <4>6, <4>7, HeldFinite DEF I
    <3> QED
      BY <3>3, <3>4
  <2> QED
    BY <2>5, <2>7 DEF LimitInv, Bounded
<1> QED
  BY <1>1, <1>2 DEF CountParkings

\* Nobody has a copy of a parking that was never created.
LEMMA NeverClaimed ==
    ASSUME ParkInv, NEW p \in ParkingIds, priced[p] = {}
    PROVE  \A u : ~Claims(p, u)
<1>1. parkings[p] = Absent
  BY LoadedFits
<1>2. ASSUME NEW g \in Handlers PROVE calls[g].parking # p
  <2>1. Knows(calls[g], priced)
    BY DEF ParkInv, Handled, CallsKnow
  <2> QED
    BY <2>1, ParkConstants DEF Knows, Idle
<1> QED
  BY <1>1, <1>2 DEF Claims, RowClaims, CopyClaims

\* The parking about to be inserted has become one of the user's.
LEMMA InsertParkingBounded ==
    ASSUME LimitInv, ParkInv', NEW h \in Handlers, NEW p \in ParkingIds, InsertParking(h, p)
    PROVE  LimitInv'
<1> DEFINE c == calls[h]
           owner == c.user
           row == c.entity.row
           e == [c EXCEPT !.parking = p, !.entity = Nothing]
           d == IF Len(e.todo) = 1 THEN Idle ELSE Rest(e)
<1>1. /\ At(h, "insertParking") /\ priced[p] = {} /\ Store(p, row) /\ Advance(h, e)
  BY DEF InsertParking
<1>2. /\ c \in Call /\ c.parking = NoId /\ c.stored = Nothing /\ row.owner = owner /\ ParkInv
  BY <1>1, KnowsAt DEF LimitInv
<1>3. \A u : ~Claims(p, u)
  BY <1>1, <1>2, NeverClaimed
<1>4. /\ e.parking = p /\ e.entity = Nothing /\ e.stored = Nothing
  BY <1>2 DEF Call
<1>5. \A g \in Handlers : calls'[g] = IF g = h THEN d ELSE calls[g]
  BY <1>1 DEF Advance, Goto, Rest, LimitInv, ParkInv, Handled
<1>6. /\ d = Idle \/ d.parking = p
      /\ d.entity = Nothing /\ d.stored = Nothing
  <2>1. \A x \in {"parking", "entity", "stored"} : Rest(e)[x] = e[x]
    BY <1>2 DEF Rest, Call
  <2>2. Idle.entity = Nothing /\ Idle.stored = Nothing
    BY DEF Idle
  <2>3. Rest(e).parking = p /\ Rest(e).entity = Nothing /\ Rest(e).stored = Nothing
    <3> HIDE DEF e
    <3> QED
      BY <1>4, <2>1
  <2> HIDE DEF e
  <2> QED
    BY <2>2, <2>3
<1>7. ~(d.todo # <<>> /\ Head(d.todo).do = "insertParking")
  <2>1. d \in Call /\ Knows(d, priced')
    <3> HIDE DEF d
    <3> QED
      BY <1>5 DEF ParkInv, Handled, CallsKnow
  <2>2. Idle.todo = <<>>
    BY DEF Idle
  <2> HIDE DEF d
  <2> QED
    BY <1>6, <2>1, <2>2, InsertsAnew, ParkConstants
<1>8. \A q \in ParkingIds : parkings'[q] = IF q = p THEN row ELSE parkings[q]
  BY <1>1 DEF Store, LimitInv, ParkInv, Tables
<1> HIDE DEF d, e, row
<1>9. ASSUME NEW q \in ParkingIds, NEW u \in Users, Claims(q, u)'
      PROVE  IF q = p THEN u = owner ELSE Claims(q, u)
  <2>1. CASE RowClaims(q, u)'
    BY <1>2, <1>8, <2>1 DEF RowClaims, Claims
  <2>2. CASE \E g \in Handlers : CopyClaims(calls'[g], q, u)
    <3>1. PICK g \in Handlers : CopyClaims(calls'[g], q, u)
      BY <2>2
    <3>2. g # h
      BY <1>5, <1>6, <3>1 DEF CopyClaims, Copies, Nothing
    <3>3. Claims(q, u)
      BY <1>5, <3>1, <3>2 DEF Claims
    <3> QED
      BY <1>3, <3>3
  <2> QED
    BY <1>9, <2>1, <2>2 DEF Claims
<1>10. OneOwner'
  BY <1>9 DEF OneOwner, LimitInv
<1>11. ASSUME NEW u \in Users, Level[u] = 3
       PROVE  Cardinality(Held(u)') + Cardinality(Inserting(u)') + 1
                 <= Limit + Cardinality(Handlers)
  <2>1. Cardinality(Held(u)) + Cardinality(Inserting(u)) + 1 <= Limit + Cardinality(Handlers)
    BY <1>11 DEF LimitInv, Bounded
  <2>2. Inserting(u)' \subseteq Inserting(u) \ {h}
    BY <1>5, <1>7 DEF Inserting, At
  <2>3. Limit \in Nat /\ Cardinality(Handlers) \in Nat
    BY ParkConstants, FS_CardinalityType
  <2>4. CASE u = owner
    <3>1. Held(u)' \subseteq Held(u) \cup {p}
      BY <1>9 DEF Held
    <3>2. h \in Inserting(u)
      BY <1>1, <2>4 DEF Inserting
    <3>3. /\ Cardinality(Held(u)') \in Nat
          /\ Cardinality(Held(u)') <= Cardinality(Held(u)) + 1
      BY <3>1, OneMore, HeldFinite
    <3>4. /\ Cardinality(Inserting(u)') \in Nat
          /\ Cardinality(Inserting(u)') + 1 <= Cardinality(Inserting(u))
      BY <2>2, <3>2, OneLess, HeldFinite
    <3> QED
      BY <2>1, <2>3, <3>3, <3>4, HeldFinite
  <2>5. CASE u # owner
    <3>1. Held(u)' \subseteq Held(u)
      BY <1>9, <2>5 DEF Held
    <3>2. Inserting(u)' \subseteq Inserting(u)
      BY <2>2
    <3>3. /\ Cardinality(Held(u)') <= Cardinality(Held(u)) /\ Cardinality(Held(u)') \in Nat
          /\ Cardinality(Inserting(u)') <= Cardinality(Inserting(u))
          /\ Cardinality(Inserting(u)') \in Nat
      BY <3>1, <3>2, HeldFinite, FS_Subset, FS_CardinalityType
    <3> QED
      BY <2>1, <2>3, <3>3, HeldFinite
  <2> QED
    BY <2>4, <2>5
<1> QED
  BY <1>10, <1>11 DEF LimitInv, Bounded

----------------------------------------------------------------------------
(* The theorem                                                             *)

LEMMA StepBounded ==
    ASSUME LimitInv, ParkInv', NEW h \in Handlers, Step(h)
    PROVE  LimitInv'
<1>1. CASE CountParkings(h)
  BY <1>1, CountBounded
<1>2. CASE \E p \in ParkingIds : InsertParking(h, p)
  BY <1>2, InsertParkingBounded
<1>3. CASE InsertKids(h)
  BY <1>3, SameCopies, LimitEnded DEF InsertKids, Throw
<1>4. CASE FillSlots(h)
  BY <1>4, SameCopies, LimitEnded DEF FillSlots, Throw
<1>5. CASE ClearSlots(h)
  BY <1>5, SameCopies DEF ClearSlots
<1>6. CASE DeleteKids(h)
  BY <1>6, SameCopies DEF DeleteKids
<1>7. CASE PutKid(h)
  BY <1>7, SameCopies, LimitEnded DEF PutKid, Throw
<1>8. CASE CheckOwner(h)
  BY <1>8, SameCopies, LimitEnded DEF CheckOwner, Throw
<1>9. CASE LoadParking(h)
  BY <1>9, LoadBounded
<1>10. CASE DeleteParking(h)
  BY <1>10, DeleteParkingBounded
<1>11. CASE SelectParking(h)
  BY <1>11, SelectBounded
<1>12. CASE WriteParking(h)
  BY <1>12, WriteBounded
<1> QED
  BY <1>1, <1>2, <1>3, <1>4, <1>5, <1>6, <1>7, <1>8, <1>9, <1>10, <1>11, <1>12 DEF Step

LEMMA LimitInit == Init => LimitInv
<1> SUFFICES ASSUME Init PROVE LimitInv
  OBVIOUS
<1>1. \A p \in ParkingIds, u \in Users : ~Claims(p, u)
  BY ParkConstants DEF Init, Claims, RowClaims, CopyClaims, Idle
<1>2. \A u \in Users : Held(u) = {} /\ Inserting(u) = {}
  BY <1>1 DEF Held, Inserting, At, Init, Idle
<1>3. Cardinality({}) = 0 /\ Cardinality(Handlers) \in Nat /\ Limit \in Nat
      /\ Cardinality(Handlers) # 0
  BY ParkConstants, FS_EmptySet, FS_CardinalityType
<1>4. Bounded
  BY <1>2, <1>3 DEF Bounded
<1> QED
  BY <1>1, <1>4, ParkInit DEF LimitInv, OneOwner

\* LimitInv is inductive: a parking, its row and every copy of it say that it
\* belongs to the same user, and what users of level 3 have, can get back or
\* are about to insert stays below the limit and the number of handlers.
THEOREM LimitInvariance == Spec => []LimitInv
<1>1. Init => LimitInv
  BY LimitInit
<1>2. LimitInv /\ ParkInv' /\ [Next]_parkVars => LimitInv'
  <2> SUFFICES ASSUME LimitInv, ParkInv', [Next]_parkVars PROVE LimitInv'
    OBVIOUS
  <2>1. ASSUME NEW h \in Handlers, Request(h) \/ RuleRequest(h) \/ PriceRequest(h)
        PROVE  LimitInv'
    BY <2>1, RequestsBounded
  <2>2. ASSUME NEW h \in Handlers, Step(h) PROVE LimitInv'
    BY <2>2, StepBounded
  <2>3. ASSUME NEW h \in Handlers, Fail(h) PROVE LimitInv'
    BY <2>3, LimitEnded DEF Fail
  <2>4. CASE UNCHANGED parkVars
    <3>1. OneOwner'
      BY <2>4 DEF LimitInv, OneOwner, Claims, RowClaims, CopyClaims, parkVars
    <3>2. \A u : Held(u)' = Held(u) /\ Inserting(u)' = Inserting(u)
      BY <2>4 DEF Held, Inserting, At, Claims, RowClaims, CopyClaims, parkVars
    <3> QED
      BY <3>1, <3>2 DEF LimitInv, Bounded
  <2> QED
    BY <2>1, <2>2, <2>3, <2>4 DEF Next
<1> QED
  BY <1>1, <1>2, ParkInvariance, PTL DEF Spec

\* create counts and inserts in two queries, and a save brings back a parking
\* removed after it was loaded: however requests interleave and die, a user of
\* level 3 has at most the limit and one parking less than there are handlers.
THEOREM OverlapsBoundTheExcess == Spec => []LimitExceededByOverlapsOnly
<1>1. LimitInv => LimitExceededByOverlapsOnly
  <2> SUFFICES ASSUME LimitInv, NEW u \in Users, Level[u] = 3
               PROVE  Cardinality(OwnedBy(u)) + 1 <= Limit + Cardinality(Handlers)
    BY DEF LimitExceededByOverlapsOnly
  <2>1. OwnedBy(u) \subseteq Held(u)
    BY DEF OwnedBy, Held, Claims, RowClaims
  <2>2. Cardinality(OwnedBy(u)) <= Cardinality(Held(u))
    BY <2>1, HeldFinite, FS_Subset
  <2>3. Cardinality(Held(u)) + Cardinality(Inserting(u)) + 1 <= Limit + Cardinality(Handlers)
    BY DEF LimitInv, Bounded
  <2>4. Limit \in Nat /\ Cardinality(Handlers) \in Nat
    BY ParkConstants, FS_CardinalityType
  <2> QED
    BY <2>2, <2>3, <2>4, HeldFinite
<1> QED
  BY <1>1, LimitInvariance, PTL
=============================================================================

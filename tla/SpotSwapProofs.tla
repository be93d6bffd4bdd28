--------------------------- MODULE SpotSwapProofs ---------------------------
(***************************************************************************)
(* Proofs about SpotSwap for any number of listings, offers, users and     *)
(* concurrent handlers.                                                    *)
(*                                                                         *)
(* A handler saves an offer that it loaded many awaits ago, and marks a    *)
(* listing without looking at it.  What was won stays won nevertheless:    *)
(* the history of a row only grows, an offer never goes over to another    *)
(* listing, and a handler whose copy says that its offer is accepted is    *)
(* either still before the await that books the listing, or the listing    *)
(* has been booked.                                                        *)
(*                                                                         *)
(* When requests come one at a time (OneAtATime) more holds.  What a       *)
(* handler has read is still so at each of its awaits, and what it will    *)
(* save is what it meant to save (Sees); then active listings of the spot  *)
(* stay apart, exchanges are completed after their end, and, if no handler *)
(* dies either, the service implements the market: the last part shows     *)
(* the market as the one handler at work presents it, and that every await *)
(* is one step of the market or none.  A death is at worst the loss of     *)
(* what was not stored yet, so that what the market promises of winners    *)
(* holds of the stored rows also when handlers die.                        *)
(***************************************************************************)
EXTENDS SpotSwap, TLAPS, SequenceTheorems

ListingColumns == {"user", "parking", "start", "end", "priced", "status"}
OfferColumns == {"listing", "user", "start", "end", "priced", "status"}
Columns == ListingColumns \cup OfferColumns

\* What can come after an await.
After(s) ==
    {t \in Steps :
        \/ s = "checkListing" /\ t = "insertListing"
        \/ s = "selectListing" /\ t = "writeListing"
        \/ s = "writeListing" /\ t = "cancelOffers"
        \/ s = "cancelOffers" /\ t = "tellCancelled"
        \/ s = "checkOffer" /\ t = "insertOffer"
        \/ s = "insertOffer" /\ t = "new"
        \/ s = "book" /\ t = "rejectOthers"
        \/ s = "rejectOthers" /\ t \in {"deal", "accepted"}
        \/ s = "deal" /\ t = "accepted"
        \/ s = "accepted" /\ t = "findRejected"
        \/ s = "findRejected" /\ t = "tellRejected"
        \/ s \in {"tellRejected", "rejected", "complete"} /\ t = "selectOffer"
        \/ s = "selectOffer" /\ t = "writeOffer"
        \/ s = "writeOffer" /\ t \in {"updated", "withdrawn", "completed"}}

\* The awaits of all programs in one order.
Rank(s) ==
    CASE s = "selectListing" -> 0 [] s = "writeListing" -> 1
      [] s = "cancelOffers" -> 2 [] s = "tellCancelled" -> 3
      [] s = "checkListing" -> 4 [] s = "insertListing" -> 5
      [] s = "checkOffer" -> 6 [] s = "insertOffer" -> 7 [] s = "new" -> 8
      [] s = "complete" -> 9 [] s = "book" -> 10 [] s = "rejectOthers" -> 11
      [] s = "deal" -> 12 [] s = "accepted" -> 13 [] s = "findRejected" -> 14
      [] s = "tellRejected" -> 15 [] s = "rejected" -> 16
      [] s = "selectOffer" -> 17 [] s = "writeOffer" -> 18 [] OTHER -> 19

Ordered(todo) == \A i, j \in 1..Len(todo) : i < j => Rank(todo[i]) < Rank(todo[j])

\* Awaits in an order that some request gives them.
Chain(todo) ==
    /\ todo \in Seq(Steps)
    /\ \A i \in 1..Len(todo) : i < Len(todo) => todo[i + 1] \in After(todo[i])
    /\ Ordered(todo)

Call == [todo : {todo \in Seq(Steps) : Chain(todo)}, listing : ListingIds \cup {NoId},
         offer : OfferIds \cup {NoId}, entity : SwapListing \cup SwapOffer \cup {Absent},
         cols : SUBSET Columns, seen : SUBSET OfferIds, others : SUBSET OfferIds]

\* The awaits of handlers that will save an offer, up to that.
Saving == {"book", "rejectOthers", "deal", "accepted", "findRejected", "tellRejected",
           "rejected", "complete", "selectOffer", "writeOffer"}

Winning == {"accepted", "completed"}

\* What a handler knows when it comes to await s.
Knows(c, s, ls, os, w) ==
    /\ s \in {"checkListing", "insertListing"} =>
            c.entity \in SwapListing /\ c.entity.status = "active"
    /\ s \in {"selectListing", "writeListing"} =>
            /\ c.listing \in ListingIds /\ ls[c.listing] # Absent
            /\ c.entity \in SwapListing /\ c.entity.status \in {"active", "cancelled"}
    /\ s \in {"checkOffer", "insertOffer"} =>
            /\ c.entity \in SwapOffer /\ c.entity.status = "pending"
            /\ ls[c.entity.listing] # Absent
    /\ s \in Saving \cup NoticeType => c.offer \in OfferIds
    /\ s \in Saving =>
            /\ os[c.offer] # Absent /\ c.entity \in SwapOffer
            /\ c.entity.listing = os[c.offer].listing
            /\ (c.entity.status \in Winning /\ s # "book") =>
                    "booked" \in w[c.entity.listing]
    /\ s \in {"book", "complete"} => c.listing = c.entity.listing
    /\ s = "complete" => "accepted" \in w[c.offer]

CallBacked(c, ls, os, w) == c.todo # <<>> => Knows(c, Head(c.todo), ls, os, w)
CallsBacked == \A h \in Handlers : CallBacked(calls[h], listings, offers, was)

\* The status of a row is one it has had, and an offer is for a listing.
RowsKnown ==
    /\ \A l \in Listed : listings[l].status \in was[l]
    /\ \A o \in Offered : offers[o].status \in was[o] /\ listings[offers[o].listing] # Absent

Tabled ==
    /\ listings \in [ListingIds -> SwapListing \cup {Absent}]
    /\ offers \in [OfferIds -> SwapOffer \cup {Absent}]
    /\ was \in [ListingIds \cup OfferIds -> SUBSET (SwapListingStatus \cup SwapOfferStatus)]
    /\ RowsKnown
    /\ WinnersBookedTheListing
    /\ CompletedWasWon

Counted ==
    /\ deals \in [OfferIds -> Nat]
    /\ notices \subseteq NoticeType \X OfferIds
    /\ now \in Time
    /\ moved \subseteq ListingIds
    /\ requests \in 0..MaxRequests /\ failures \in 0..MaxFailures

SwapInv == Tabled /\ Counted /\ calls \in [Handlers -> Call] /\ CallsBacked

----------------------------------------------------------------------------
(* Chains of awaits                                                        *)

LEMMA RankType == ASSUME NEW s PROVE Rank(s) \in Int
BY DEF Rank

LEMMA Ranked == ASSUME NEW s \in Steps, NEW t \in After(s) PROVE Rank(s) < Rank(t)
BY DEF Rank, After

LEMMA ChainTail ==
    ASSUME NEW todo, Chain(todo), todo # <<>>
    PROVE  /\ Head(todo) \in Steps /\ Chain(Tail(todo))
           /\ Len(todo) # 1 => Tail(todo) # <<>> /\ Head(Tail(todo)) \in After(Head(todo))
<1>1. todo \in Seq(Steps) /\ Len(todo) \in Nat /\ Len(todo) >= 1
  BY EmptySeq, LenProperties DEF Chain
<1>2. /\ Tail(todo) \in Seq(Steps) /\ Len(Tail(todo)) = Len(todo) - 1
      /\ \A i \in 1..Len(todo) - 1 : Tail(todo)[i] = todo[i + 1]
  BY <1>1, HeadTailProperties
<1>3. Head(todo) = todo[1] /\ Head(todo) \in Steps
  BY <1>1, HeadTailProperties
<1>4. ASSUME NEW i \in 1..Len(Tail(todo)), i < Len(Tail(todo))
      PROVE  Tail(todo)[i + 1] \in After(Tail(todo)[i])
  <2>1. /\ i + 1 \in 1..Len(todo) /\ i + 1 < Len(todo)
        /\ Tail(todo)[i] = todo[i + 1] /\ Tail(todo)[i + 1] = todo[(i + 1) + 1]
    BY <1>1, <1>2, <1>4
  <2> QED BY <2>1 DEF Chain
<1>5. ASSUME Len(todo) # 1
      PROVE  Tail(todo) # <<>> /\ Head(Tail(todo)) \in After(Head(todo))
  <2>1. Len(Tail(todo)) >= 1 /\ 1 \in 1..Len(todo) - 1
    BY <1>1, <1>2, <1>5
  <2>2. Tail(todo) # <<>> /\ Head(Tail(todo)) = Tail(todo)[1]
    <3> DEFINE t == Tail(todo)
    <3>1. t \in Seq(Steps) /\ Len(t) >= 1
      BY <1>2, <2>1
    <3> HIDE DEF t
    <3>2. t # <<>> /\ Head(t) = t[1]
      BY <3>1
    <3> QED BY <3>2 DEF t
  <2>3. Tail(todo)[1] = todo[1 + 1] /\ 1 \in 1..Len(todo) /\ 1 < Len(todo)
    BY <1>1, <1>2, <2>1
  <2> QED BY <1>3, <2>2, <2>3 DEF Chain
<1>6. Ordered(Tail(todo))
  <2> SUFFICES ASSUME NEW i \in 1..Len(Tail(todo)), NEW j \in 1..Len(Tail(todo)), i < j
               PROVE  Rank(Tail(todo)[i]) < Rank(Tail(todo)[j])
    BY DEF Ordered
  <2>1. /\ i + 1 \in 1..Len(todo) /\ j + 1 \in 1..Len(todo) /\ i + 1 < j + 1
        /\ Tail(todo)[i] = todo[i + 1] /\ Tail(todo)[j] = todo[j + 1]
    BY <1>1, <1>2
  <2> QED BY <2>1 DEF Chain, Ordered
<1> QED BY <1>2, <1>3, <1>4, <1>5, <1>6 DEF Chain

\* A chain that begins with a and ends with z.
Links(todo, a, z) ==
    Chain(todo) /\ todo # <<>> /\ Head(todo) = a /\ todo[Len(todo)] = z

\* A chain and another that may come after it.
LEMMA ChainConcat ==
    ASSUME NEW s, NEW a, NEW b, Links(s, a, b), NEW t, NEW c, NEW d, Links(t, c, d),
           c \in After(b)
    PROVE  Links(s \o t, a, d)
<1> DEFINE u == s \o t
<1>1. /\ s \in Seq(Steps) /\ Len(s) \in Nat /\ Len(s) >= 1
      /\ t \in Seq(Steps) /\ Len(t) \in Nat /\ Len(t) >= 1
  BY EmptySeq, LenProperties DEF Links, Chain
<1>2. /\ u \in Seq(Steps) /\ Len(u) = Len(s) + Len(t)
      /\ \A i \in 1..Len(s) + Len(t) : u[i] = IF i <= Len(s) THEN s[i] ELSE t[i - Len(s)]
  BY <1>1, ConcatProperties
<1>3. s[1] = a /\ s[Len(s)] = b /\ t[1] = c /\ t[Len(t)] = d
  BY <1>1 DEF Links
<1> HIDE DEF u
<1>4. ASSUME NEW i \in 1..Len(u), i < Len(u) PROVE u[i + 1] \in After(u[i])
  <2>1. CASE i < Len(s)
    <3>1. i \in 1..Len(s) /\ u[i] = s[i] /\ u[i + 1] = s[i + 1]
      BY <1>1, <1>2, <1>4, <2>1
    <3> QED BY <2>1, <3>1 DEF Chain, Links
  <2>2. CASE i = Len(s)
    <3>1. (i + 1) - Len(s) = 1 /\ u[i] = s[Len(s)] /\ u[i + 1] = t[(i + 1) - Len(s)]
      BY <1>1, <1>2, <1>4, <2>2
    <3> QED BY <1>3, <3>1
  <2>3. CASE i > Len(s)
    <3>1. /\ i - Len(s) \in 1..Len(t) /\ i - Len(s) < Len(t)
          /\ u[i] = t[i - Len(s)] /\ u[i + 1] = t[(i + 1) - Len(s)]
          /\ (i + 1) - Len(s) = (i - Len(s)) + 1
      BY <1>1, <1>2, <1>4, <2>3
    <3> QED BY <3>1 DEF Chain, Links
  <2> QED BY <1>1, <1>4, <2>1, <2>2, <2>3
<1>5. u # <<>> /\ Head(u) = u[1] /\ u[1] = s[1]
  BY <1>1, <1>2
<1>6. u[Len(u)] = t[Len(t)]
  BY <1>1, <1>2
<1>7. Ordered(u)
  <2> SUFFICES ASSUME NEW i \in 1..Len(u), NEW j \in 1..Len(u), i < j
               PROVE  Rank(u[i]) < Rank(u[j])
    BY DEF Ordered
  <2>1. CASE j <= Len(s)
    <3>1. i \in 1..Len(s) /\ j \in 1..Len(s) /\ u[i] = s[i] /\ u[j] = s[j]
      BY <1>1, <1>2, <2>1
    <3> QED BY <3>1 DEF Chain, Links, Ordered
  <2>2. CASE i <= Len(s) /\ j > Len(s)
    <3>1. /\ i \in 1..Len(s) /\ Len(s) \in 1..Len(s) /\ (i < Len(s) \/ i = Len(s))
          /\ u[i] = s[i]
      BY <1>1, <1>2, <2>2
    <3>2. Rank(u[i]) < Rank(b) \/ Rank(u[i]) = Rank(b)
      BY <1>3, <3>1 DEF Chain, Links, Ordered
    <3>3. /\ j - Len(s) \in 1..Len(t) /\ 1 \in 1..Len(t) /\ (1 < j - Len(s) \/ 1 = j - Len(s))
          /\ u[j] = t[j - Len(s)]
      <4>1. j \in 1..Len(s) + Len(t) /\ j \in Nat /\ ~ (j <= Len(s))
        BY <1>1, <1>2, <2>2
      <4>2. j - Len(s) \in 1..Len(t) /\ 1 \in 1..Len(t)
        BY <1>1, <4>1
      <4>3. u[j] = t[j - Len(s)]
        BY <1>2, <4>1
      <4>4. 1 < j - Len(s) \/ 1 = j - Len(s)
        BY <4>2
      <4> QED BY <4>2, <4>3, <4>4
    <3>4. Rank(c) < Rank(u[j]) \/ Rank(c) = Rank(u[j])
      BY <1>3, <3>3 DEF Chain, Links, Ordered
    <3>5. b \in Steps
      BY <1>1, <1>3
    <3>6. Rank(b) < Rank(c)
      BY <3>5, Ranked
    <3>7. Rank(u[i]) \in Int /\ Rank(u[j]) \in Int /\ Rank(b) \in Int /\ Rank(c) \in Int
      BY RankType
    <3> QED BY <3>2, <3>4, <3>6, <3>7
  <2>3. CASE i > Len(s)
    <3>1. /\ i - Len(s) \in 1..Len(t) /\ j - Len(s) \in 1..Len(t)
          /\ i - Len(s) < j - Len(s) /\ u[i] = t[i - Len(s)] /\ u[j] = t[j - Len(s)]
      BY <1>1, <1>2, <2>3
    <3> QED BY <3>1 DEF Chain, Links, Ordered
  <2> QED BY <1>1, <2>1, <2>2, <2>3
<1> QED BY <1>2, <1>3, <1>4, <1>5, <1>6, <1>7 DEF Chain, Links, u

\* The programs of the requests.
LEMMA Programs ==
    /\ Links(<<"checkListing", "insertListing">>, "checkListing", "insertListing")
    /\ Links(SaveListing, "selectListing", "writeListing")
    /\ Links(SaveListing \o <<"cancelOffers", "tellCancelled">>,
             "selectListing", "tellCancelled")
    /\ Links(<<"checkOffer", "insertOffer", "new">>, "checkOffer", "new")
    /\ Links(SaveOffer \o <<"updated">>, "selectOffer", "updated")
    /\ Links(SaveOffer \o <<"withdrawn">>, "selectOffer", "withdrawn")
    /\ Links(<<"rejected">> \o SaveOffer, "rejected", "writeOffer")
    /\ Links(CompleteSteps, "complete", "completed")
    /\ \A row : Links(AcceptSteps(row), "book", "writeOffer")
<1>1. /\ Links(SaveListing, "selectListing", "writeListing")
      /\ Links(<<"cancelOffers", "tellCancelled">>, "cancelOffers", "tellCancelled")
      /\ Links(SaveOffer, "selectOffer", "writeOffer")
  BY DEF SaveListing, SaveOffer, Links, Chain, Ordered, Rank, After, Steps, NoticeType
<1>2. /\ Links(<<"updated">>, "updated", "updated")
      /\ Links(<<"withdrawn">>, "withdrawn", "withdrawn")
      /\ Links(<<"completed">>, "completed", "completed")
      /\ Links(<<"rejected">>, "rejected", "rejected")
      /\ Links(<<"complete">>, "complete", "complete")
      /\ Links(<<"deal">>, "deal", "deal")
  BY DEF Links, Chain, Ordered, Rank, Steps, NoticeType
<1>3. Links(<<"checkListing", "insertListing">>, "checkListing", "insertListing")
  BY DEF Links, Chain, Ordered, Rank, After, Steps
<1>4. Links(<<"checkOffer", "insertOffer", "new">>, "checkOffer", "new")
  BY DEF Links, Chain, Ordered, Rank, After, Steps, NoticeType
<1>5. Links(SaveListing \o <<"cancelOffers", "tellCancelled">>,
            "selectListing", "tellCancelled")
  <2>1. "cancelOffers" \in After("writeListing")
    BY DEF After, Steps
  <2> QED BY <1>1, <2>1, ChainConcat
<1>6. /\ Links(SaveOffer \o <<"updated">>, "selectOffer", "updated")
      /\ Links(SaveOffer \o <<"withdrawn">>, "selectOffer", "withdrawn")
  <2>1. "updated" \in After("writeOffer") /\ "withdrawn" \in After("writeOffer")
    BY DEF After, Steps, NoticeType
  <2>2. Links(SaveOffer \o <<"updated">>, "selectOffer", "updated")
    BY <1>1, <1>2, <2>1, ChainConcat
  <2>3. Links(SaveOffer \o <<"withdrawn">>, "selectOffer", "withdrawn")
    BY <1>1, <1>2, <2>1, ChainConcat
  <2> QED BY <2>2, <2>3
<1>7. Links(<<"rejected">> \o SaveOffer, "rejected", "writeOffer")
  <2>1. "selectOffer" \in After("rejected")
    BY DEF After, Steps
  <2> QED BY <1>1, <1>2, <2>1, ChainConcat
<1>8. Links(CompleteSteps, "complete", "completed")
  <2>1. "selectOffer" \in After("complete") /\ "completed" \in After("writeOffer")
    BY DEF After, Steps, NoticeType
  <2>2. Links(<<"complete">> \o SaveOffer, "complete", "writeOffer")
    BY <1>1, <1>2, <2>1, ChainConcat
  <2>3. Links((<<"complete">> \o SaveOffer) \o <<"completed">>, "complete", "completed")
    BY <1>2, <2>1, <2>2, ChainConcat
  <2> QED BY <2>3 DEF CompleteSteps
<1>9. ASSUME NEW row PROVE Links(AcceptSteps(row), "book", "writeOffer")
  <2> DEFINE first == <<"book", "rejectOthers">>
             last == <<"accepted", "findRejected", "tellRejected">>
             mid == IF row.priced THEN <<"deal">> ELSE <<>>
  <2>1. /\ Links(first, "book", "rejectOthers")
        /\ Links(last, "accepted", "tellRejected")
    BY DEF Links, Chain, Ordered, Rank, After, Steps, NoticeType
  <2>2. /\ "selectOffer" \in After("tellRejected") /\ "accepted" \in After("rejectOthers")
        /\ "deal" \in After("rejectOthers") /\ "accepted" \in After("deal")
    BY DEF After, Steps, NoticeType
  <2> HIDE DEF first, last
  <2>3. Links((first \o mid) \o last, "book", "tellRejected")
    <3>1. CASE row.priced
      <4>1. Links(first \o <<"deal">>, "book", "deal")
        BY <1>2, <2>1, <2>2, ChainConcat
      <4>2. Links((first \o <<"deal">>) \o last, "book", "tellRejected")
        BY <2>1, <2>2, <4>1, ChainConcat
      <4> QED BY <3>1, <4>2
    <3>2. CASE ~row.priced
      <4>1. first \o mid = first
        BY <2>1, <3>2, ConcatEmptySeq DEF Links, Chain
      <4>2. Links(first \o last, "book", "tellRejected")
        BY <2>1, <2>2, ChainConcat
      <4> QED BY <4>1, <4>2
    <3> QED BY <3>1, <3>2
  <2>4. Links(((first \o mid) \o last) \o SaveOffer, "book", "writeOffer")
    <3> HIDE DEF mid
    <3> QED BY <1>1, <2>2, <2>3, ChainConcat
  <2> QED BY <2>4 DEF AcceptSteps, first, mid, last
<1> QED BY <1>1, <1>3, <1>4, <1>5, <1>6, <1>7, <1>8, <1>9

----------------------------------------------------------------------------
(* Rows                                                                    *)

\* A mix of two listings is a listing, and has the status of one of them.
LEMMA PatchedListing ==
    ASSUME NEW row \in SwapListing, NEW entity \in SwapListing, NEW cols
    PROVE  LET p == Patched(row, entity, cols)
           IN  /\ p \in SwapListing
               /\ p.status = IF "status" \in cols THEN entity.status ELSE row.status
               /\ p.parking = IF "parking" \in cols THEN entity.parking ELSE row.parking
               /\ p.start = IF "start" \in cols THEN entity.start ELSE row.start
               /\ p.end = IF "end" \in cols THEN entity.end ELSE row.end
<1> DEFINE p == Patched(row, entity, cols)
<1>1. p = [c \in ListingColumns |-> IF c \in cols THEN entity[c] ELSE row[c]]
  BY DEF Patched, SwapListing, ListingColumns
<1> HIDE DEF p
<1>2. p = [user |-> p["user"], parking |-> p["parking"], start |-> p["start"],
           end |-> p["end"], priced |-> p["priced"], status |-> p["status"]]
  BY <1>1 DEF ListingColumns
<1>3. /\ p["user"] \in Users /\ p["parking"] \in Spots
      /\ p["start"] \in Time /\ p["end"] \in Time
      /\ p["priced"] \in BOOLEAN /\ p["status"] \in SwapListingStatus
  BY <1>1 DEF SwapListing, ListingColumns
<1>4. p \in SwapListing
  BY <1>2, <1>3 DEF SwapListing
<1> QED BY <1>1, <1>4 DEF p, ListingColumns

\* A mix of two offers for one listing is an offer for it.
LEMMA PatchedOffer ==
    ASSUME NEW row \in SwapOffer, NEW entity \in SwapOffer, NEW cols,
           entity.listing = row.listing
    PROVE  LET p == Patched(row, entity, cols)
           IN  /\ p \in SwapOffer /\ p.listing = row.listing
               /\ p.status = IF "status" \in cols THEN entity.status ELSE row.status
               /\ p.start = IF "start" \in cols THEN entity.start ELSE row.start
               /\ p.end = IF "end" \in cols THEN entity.end ELSE row.end
<1> DEFINE p == Patched(row, entity, cols)
<1>1. p = [c \in OfferColumns |-> IF c \in cols THEN entity[c] ELSE row[c]]
  BY DEF Patched, SwapOffer, OfferColumns
<1> HIDE DEF p
<1>2. p = [listing |-> p["listing"], user |-> p["user"], start |-> p["start"],
           end |-> p["end"], priced |-> p["priced"], status |-> p["status"]]
  BY <1>1 DEF OfferColumns
<1>3. /\ p["listing"] \in ListingIds /\ p["user"] \in Users /\ p["start"] \in Time
      /\ p["end"] \in Time /\ p["priced"] \in BOOLEAN /\ p["status"] \in SwapOfferStatus
  BY <1>1 DEF SwapOffer, OfferColumns
<1>4. p \in SwapOffer
  BY <1>2, <1>3 DEF SwapOffer
<1> QED BY <1>1, <1>4 DEF p, OfferColumns

LEMMA DirtyColumns ==
    ASSUME NEW entity \in SwapListing \cup SwapOffer, NEW row
    PROVE  Dirty(entity, row) \in SUBSET Columns
<1>1. DOMAIN entity \subseteq Columns
  BY DEF SwapListing, SwapOffer, Columns, ListingColumns, OfferColumns
<1> QED BY <1>1 DEF Dirty

\* Rows of another table have other fields.
LEMMA TheListing ==
    ASSUME Tabled, NEW l \in ListingIds, listings[l] # Absent
    PROVE  listings[l] \in SwapListing /\ listings[l].status \in was[l]
BY DEF Tabled, RowsKnown, Listed

LEMMA TheOffer ==
    ASSUME Tabled, NEW o \in OfferIds, offers[o] # Absent
    PROVE  /\ offers[o] \in SwapOffer /\ offers[o].status \in was[o]
           /\ offers[o].listing \in ListingIds /\ listings[offers[o].listing] # Absent
           /\ offers[o].status \in Winning => "booked" \in was[offers[o].listing]
<1>1. offers[o] \in SwapOffer /\ o \in Offered
  BY DEF Tabled, Offered
<1> QED BY <1>1 DEF Tabled, RowsKnown, WinnersBookedTheListing, SwapOffer, Winning

----------------------------------------------------------------------------
(* How the tables change                                                   *)

\* Rows are not deleted, offers stay with their listing, and history grows.
Grown ==
    /\ \A l \in ListingIds : listings[l] # Absent => listings'[l] # Absent
    /\ \A o \in OfferIds : offers[o] # Absent =>
            offers'[o] # Absent /\ offers'[o].listing = offers[o].listing
    /\ \A x \in ListingIds \cup OfferIds : was[x] \subseteq was'[x]

LEMMA ListingStored ==
    ASSUME Tabled, NEW l \in ListingIds, NEW row \in SwapListing, StoreListing(l, row),
           UNCHANGED offers,
           row.status = "completed" => \E o \in OffersOf(l) : "accepted" \in was[o]
    PROVE  Tabled' /\ Grown
<1>1. /\ listings' \in [ListingIds -> SwapListing \cup {Absent}]
      /\ listings'[l] = row /\ row # Absent
      /\ \A k \in ListingIds : k # l => listings'[k] = listings[k]
  BY AbsentIsNoSwap DEF Tabled, StoreListing
<1>2. /\ was' \in [ListingIds \cup OfferIds -> SUBSET (SwapListingStatus \cup SwapOfferStatus)]
      /\ was'[l] = was[l] \cup {row.status}
      /\ \A x \in ListingIds \cup OfferIds : x # l => was'[x] = was[x]
  <2>1. row.status \in SwapListingStatus
    BY DEF SwapListing
  <2> QED BY <2>1 DEF Tabled, StoreListing
<1>3. Grown
  BY <1>1, <1>2 DEF Grown
<1>4. RowsKnown'
  <2>1. ASSUME NEW k \in ListingIds, listings'[k] # Absent PROVE listings'[k].status \in was'[k]
    BY <1>1, <1>2, <2>1, TheListing
  <2>2. ASSUME NEW o \in OfferIds, offers'[o] # Absent
        PROVE  offers'[o].status \in was'[o] /\ listings'[offers'[o].listing] # Absent
    <3>1. o # l
      BY SwapConstants
    <3> QED BY <1>1, <1>2, <2>2, <3>1, TheOffer
  <2> QED BY <2>1, <2>2 DEF RowsKnown, Listed, Offered
<1>5. WinnersBookedTheListing'
  <2> SUFFICES ASSUME NEW o \in OfferIds, offers'[o] # Absent,
                      offers'[o].status \in {"accepted", "completed"}
               PROVE  "booked" \in was'[offers'[o].listing]
    BY DEF WinnersBookedTheListing, Offered
  <2>1. offers[o].listing \in ListingIds /\ "booked" \in was[offers[o].listing]
    BY TheOffer DEF Winning
  <2> QED BY <1>2, <2>1
<1>6. CompletedWasWon'
  <2> SUFFICES ASSUME NEW k \in ListingIds, listings'[k] # Absent,
                      listings'[k].status = "completed"
               PROVE  \E o \in OffersOf(k)' : "accepted" \in was'[o]
    BY DEF CompletedWasWon, Listed
  <2>1. \E o \in OffersOf(k) : "accepted" \in was[o]
    BY <1>1 DEF Tabled, CompletedWasWon, Listed
  <2> QED BY <1>2, <2>1 DEF OffersOf
<1> QED BY <1>1, <1>2, <1>3, <1>4, <1>5, <1>6 DEF Tabled

LEMMA OfferStored ==
    ASSUME Tabled, NEW o \in OfferIds, NEW row \in SwapOffer, StoreOffer(o, row),
           UNCHANGED listings, offers[o] # Absent => row.listing = offers[o].listing,
           listings[row.listing] # Absent,
           row.status \in Winning => "booked" \in was[row.listing]
    PROVE  Tabled' /\ Grown
<1>1. /\ offers' \in [OfferIds -> SwapOffer \cup {Absent}]
      /\ offers'[o] = row /\ row # Absent
      /\ \A p \in OfferIds : p # o => offers'[p] = offers[p]
  BY AbsentIsNoSwap DEF Tabled, StoreOffer
<1>2. /\ was' \in [ListingIds \cup OfferIds -> SUBSET (SwapListingStatus \cup SwapOfferStatus)]
      /\ was'[o] = was[o] \cup {row.status}
      /\ \A x \in ListingIds \cup OfferIds : x # o => was'[x] = was[x]
      /\ \A x \in ListingIds \cup OfferIds : was[x] \subseteq was'[x]
  <2>1. row.status \in SwapOfferStatus
    BY DEF SwapOffer
  <2> QED BY <2>1 DEF Tabled, StoreOffer
<1>3. Grown
  BY <1>1, <1>2 DEF Grown
<1>4. RowsKnown'
  <2>1. ASSUME NEW l \in ListingIds, listings'[l] # Absent PROVE listings'[l].status \in was'[l]
    BY <1>2, <2>1, TheListing
  <2>2. ASSUME NEW p \in OfferIds, offers'[p] # Absent
        PROVE  offers'[p].status \in was'[p] /\ listings'[offers'[p].listing] # Absent
    BY <1>1, <1>2, <2>2, TheOffer
  <2> QED BY <2>1, <2>2 DEF RowsKnown, Listed, Offered
<1>5. WinnersBookedTheListing'
  <2> SUFFICES ASSUME NEW p \in OfferIds, offers'[p] # Absent,
                      offers'[p].status \in {"accepted", "completed"}
               PROVE  "booked" \in was'[offers'[p].listing]
    BY DEF WinnersBookedTheListing, Offered
  <2>1. offers'[p].listing \in ListingIds /\ "booked" \in was[offers'[p].listing]
    <3>1. CASE p = o
      BY <1>1, <3>1 DEF Winning, SwapOffer
    <3>2. CASE p # o
      BY <1>1, <3>2, TheOffer DEF Winning
    <3> QED BY <3>1, <3>2
  <2> QED BY <1>2, <2>1
<1>6. CompletedWasWon'
  <2> SUFFICES ASSUME NEW l \in ListingIds, listings'[l] # Absent,
                      listings'[l].status = "completed"
               PROVE  \E p \in OffersOf(l)' : "accepted" \in was'[p]
    BY DEF CompletedWasWon, Listed
  <2>1. PICK p \in OffersOf(l) : "accepted" \in was[p]
    BY DEF Tabled, CompletedWasWon, Listed
  <2>2. p \in OffersOf(l)'
    BY <1>3, <2>1 DEF OffersOf, Grown
  <2> QED BY <1>2, <2>1, <2>2 DEF OffersOf
<1> QED BY <1>1, <1>2, <1>3, <1>4, <1>5, <1>6 DEF Tabled

LEMMA OffersSet ==
    ASSUME Tabled, NEW S, S \subseteq Offered, NEW status \in {"cancelled", "rejected"},
           SetOffers(S, status), UNCHANGED listings
    PROVE  Tabled' /\ Grown
<1>1. \A o \in S : /\ offers[o] \in SwapOffer /\ [offers[o] EXCEPT !.status = status] \in SwapOffer
                   /\ [offers[o] EXCEPT !.status = status].listing = offers[o].listing
                   /\ [offers[o] EXCEPT !.status = status].status = status
  BY TheOffer DEF Offered, SwapOffer, SwapOfferStatus
<1>2. /\ offers' \in [OfferIds -> SwapOffer \cup {Absent}]
      /\ \A o \in S : /\ offers'[o] \in SwapOffer /\ offers'[o].listing = offers[o].listing
                      /\ offers'[o].status = status
      /\ \A o \in OfferIds : o \notin S => offers'[o] = offers[o]
  BY <1>1 DEF Tabled, SetOffers, Offered
<1>3. /\ was' \in [ListingIds \cup OfferIds -> SUBSET (SwapListingStatus \cup SwapOfferStatus)]
      /\ \A x \in ListingIds \cup OfferIds : was[x] \subseteq was'[x]
      /\ \A o \in S : status \in was'[o]
  <2>1. status \in SwapOfferStatus
    BY DEF SwapOfferStatus
  <2> QED BY <2>1 DEF Tabled, SetOffers, Offered
<1>4. Grown
  BY <1>2, <1>3, AbsentIsNoSwap DEF Grown
<1>5. RowsKnown'
  <2>1. ASSUME NEW l \in ListingIds, listings'[l] # Absent PROVE listings'[l].status \in was'[l]
    BY <1>3, <2>1, TheListing
  <2>2. ASSUME NEW o \in OfferIds, offers'[o] # Absent
        PROVE  offers'[o].status \in was'[o] /\ listings'[offers'[o].listing] # Absent
    <3>1. offers[o] # Absent
      BY <1>2, <2>2 DEF Offered
    <3> QED BY <1>2, <1>3, <3>1, TheOffer
  <2> QED BY <2>1, <2>2 DEF RowsKnown, Listed, Offered
<1>6. WinnersBookedTheListing'
  <2> SUFFICES ASSUME NEW o \in OfferIds, offers'[o] # Absent,
                      offers'[o].status \in {"accepted", "completed"}
               PROVE  "booked" \in was'[offers'[o].listing]
    BY DEF WinnersBookedTheListing, Offered
  <2>1. o \notin S
    BY <1>2
  <2> QED BY <1>2, <1>3, <2>1, TheOffer DEF Winning
<1>7. CompletedWasWon'
  <2> SUFFICES ASSUME NEW l \in ListingIds, listings'[l] # Absent,
                      listings'[l].status = "completed"
               PROVE  \E p \in OffersOf(l)' : "accepted" \in was'[p]
    BY DEF CompletedWasWon, Listed
  <2>1. PICK p \in OffersOf(l) : "accepted" \in was[p]
    BY DEF Tabled, CompletedWasWon, Listed
  <2>2. p \in OffersOf(l)'
    BY <1>4, <2>1 DEF OffersOf, Grown
  <2> QED BY <1>3, <2>1, <2>2 DEF OffersOf
<1> QED BY <1>2, <1>3, <1>4, <1>5, <1>6, <1>7 DEF Tabled

LEMMA TablesStay ==
    ASSUME Tabled, UNCHANGED <<listings, offers, was>>
    PROVE  Tabled' /\ Grown
BY DEF Tabled, Grown, RowsKnown, WinnersBookedTheListing, CompletedWasWon, Listed, Offered,
       OffersOf

----------------------------------------------------------------------------
(* Handlers                                                                *)

LEMMA KnowsLasts ==
    ASSUME Grown, NEW c, NEW s, Knows(c, s, listings, offers, was)
    PROVE  Knows(c, s, listings', offers', was')
<1>1. c.entity \in SwapOffer => c.entity.listing \in ListingIds
  BY DEF SwapOffer
<1> QED BY <1>1 DEF Knows, Grown, Saving

\* A handler becomes c, and the tables have changed or not.
LEMMA Assembled ==
    ASSUME SwapInv, Tabled', Grown, NEW h \in Handlers, NEW c \in Call, Goto(h, c),
           CallBacked(c, listings', offers', was'), Counted'
    PROVE  SwapInv'
<1>1. calls \in [Handlers -> Call] /\ CallsBacked
  BY DEF SwapInv
<1>2. calls' \in [Handlers -> Call]
  BY <1>1 DEF Goto
<1>3. ASSUME NEW g \in Handlers PROVE CallBacked(calls'[g], listings', offers', was')
  <2>1. CASE g = h
    BY <1>1, <2>1 DEF Goto
  <2>2. CASE g # h
    <3>1. calls'[g] = calls[g]
      BY <1>1, <2>2 DEF Goto
    <3> QED BY <1>1, <3>1, KnowsLasts DEF CallsBacked, CallBacked
  <2> QED BY <2>1, <2>2
<1> QED BY <1>2, <1>3 DEF SwapInv, CallsBacked

LEMMA Idling ==
    /\ Idle \in Call /\ Idle.todo = <<>>
    /\ \A ls, os, w : CallBacked(Idle, ls, os, w)
<1>1. Chain(<<>>)
  BY DEF Chain, Ordered
<1> QED BY <1>1 DEF Idle, Call, CallBacked

\* What the invariant says of a handler at an await.
LEMMA AtStep ==
    ASSUME SwapInv, NEW h \in Handlers, NEW s, At(h, s)
    PROVE  /\ calls[h] \in Call /\ Chain(calls[h].todo) /\ calls[h].todo # <<>>
           /\ Head(calls[h].todo) = s /\ s \in Steps
           /\ Knows(calls[h], s, listings, offers, was)
<1>1. calls[h] \in Call /\ CallBacked(calls[h], listings, offers, was)
  BY DEF SwapInv, CallsBacked
<1>2. Chain(calls[h].todo)
  BY <1>1 DEF Call
<1> QED BY <1>1, <1>2, ChainTail DEF At, CallBacked

\* What a handler becomes when its await is over.
Rest(c) == IF Len(c.todo) = 1 THEN Idle ELSE [c EXCEPT !.todo = Tail(@)]

LEMMA RestBacked ==
    ASSUME NEW c \in Call, c.todo # <<>>, NEW ls, NEW os, NEW w,
           \A s \in After(Head(c.todo)) : Knows(c, s, ls, os, w)
    PROVE  Rest(c) \in Call /\ CallBacked(Rest(c), ls, os, w)
<1>1. CASE Len(c.todo) = 1
  BY <1>1, Idling DEF Rest
<1>2. CASE Len(c.todo) # 1
  <2> DEFINE d == [c EXCEPT !.todo = Tail(c.todo)]
             s == Head(Tail(c.todo))
  <2>1. Chain(c.todo)
    BY DEF Call
  <2>2. Chain(Tail(c.todo)) /\ Tail(c.todo) # <<>> /\ s \in After(Head(c.todo))
    BY <1>2, <2>1, ChainTail
  <2>3. Rest(c) = d
    BY <1>2 DEF Rest
  <2>4. /\ d \in Call /\ d.todo = Tail(c.todo) /\ d.listing = c.listing
        /\ d.offer = c.offer /\ d.entity = c.entity
    BY <2>2 DEF Call, Chain
  <2>5. Knows(c, s, ls, os, w)
    BY <2>2
  <2> HIDE DEF d, s
  <2>6. Knows(d, s, ls, os, w)
    BY <2>4, <2>5 DEF Knows
  <2> QED BY <2>2, <2>3, <2>4, <2>6 DEF CallBacked, s
<1> QED BY <1>1, <1>2

\* Something that is neither a row nor a handler changes.
LEMMA CountsStay ==
    ASSUME Counted, UNCHANGED <<deals, notices, now, moved, requests, failures>>
    PROVE  Counted'
BY DEF Counted

LEMMA GivingUp ==
    ASSUME SwapInv, NEW h \in Handlers, Goto(h, Idle), UNCHANGED <<listings, offers, was>>,
           Counted'
    PROVE  SwapInv'
<1>1. Tabled' /\ Grown
  BY TablesStay DEF SwapInv
<1> QED BY <1>1, Idling, Assembled

\* A handler has done its await and goes on.
LEMMA GoingOn ==
    ASSUME SwapInv, Tabled', Grown, Counted', NEW h \in Handlers, NEW c \in Call,
           c.todo # <<>>, Advance(h, c),
           \A s \in After(Head(c.todo)) : Knows(c, s, listings', offers', was')
    PROVE  SwapInv'
<1>1. Rest(c) \in Call /\ CallBacked(Rest(c), listings', offers', was')
  BY RestBacked
<1>2. Goto(h, Rest(c))
  BY DEF Advance, Rest
<1> QED BY <1>1, <1>2, Assembled

\* A request is accepted, and its handler begins with await s.
LEMMA Starting ==
    ASSUME SwapInv, NEW h \in Handlers, NEW op, Accept(h, op), NEW c \in Call, Goto(h, c),
           NEW s, NEW z, Links(c.todo, s, z), Knows(c, s, listings, offers, was)
    PROVE  SwapInv'
<1>1. UNCHANGED <<listings, offers, deals, was, moved, notices, now, failures>>
  BY DEF Accept, tables
<1>2. Tabled' /\ Grown
  BY <1>1, TablesStay DEF SwapInv
<1>3. Counted'
  <2>1. requests' \in 0..MaxRequests
    BY SwapConstants DEF SwapInv, Counted, Accept
  <2> QED BY <1>1, <2>1 DEF SwapInv, Counted
<1>4. CallBacked(c, listings', offers', was')
  BY <1>1 DEF CallBacked, Links
<1> QED BY <1>2, <1>3, <1>4, Assembled

----------------------------------------------------------------------------
(* Requests                                                                *)

LEMMA CreateListingInv ==
    ASSUME SwapInv, NEW h \in Handlers, NEW u \in Users, NEW s \in Time, NEW e \in Time,
           NEW p \in Spots, NEW priced \in BOOLEAN, CreateListing(h, u, p, s, e, priced)
    PROVE  SwapInv'
<1> DEFINE row == [user |-> u, parking |-> p, start |-> s, end |-> e, priced |-> priced,
                   status |-> "active"]
           todo == <<"checkListing", "insertListing">>
           c == [Idle EXCEPT !.todo = todo, !.entity = row]
<1>1. row \in SwapListing /\ row.status = "active"
  BY DEF SwapListing, SwapListingStatus
<1>2. Links(todo, "checkListing", "insertListing")
  BY Programs
<1>3. Accept(h, "list") /\ Goto(h, c)
  BY DEF CreateListing
<1> HIDE DEF row, todo
<1>4. c \in Call /\ c.todo = todo /\ c.entity = row
  BY <1>1, <1>2, Idling DEF Call, Links, Chain
<1> HIDE DEF c
<1>5. Knows(c, "checkListing", listings, offers, was)
  BY <1>1, <1>4 DEF Knows, Saving, NoticeType
<1> QED BY <1>2, <1>3, <1>4, <1>5, Starting

\* A listing is loaded, changed, and will be saved.
LEMMA Listing ==
    ASSUME SwapInv, NEW h \in Handlers, NEW op, Accept(h, op), NEW l \in ListingIds,
           listings[l] # Absent, NEW todo, NEW z, Links(todo, "selectListing", z),
           NEW row \in SwapListing, row.status \in {"active", "cancelled"},
           NEW c \in Call, c.todo = todo, c.entity = row, c.listing = l, Goto(h, c)
    PROVE  SwapInv'
<1>1. Knows(c, "selectListing", listings, offers, was)
  BY DEF Knows, Saving, NoticeType
<1> QED BY <1>1, Starting

LEMMA UpdateListingInv ==
    ASSUME SwapInv, NEW h \in Handlers, NEW u \in Users, NEW l \in ListingIds,
           NEW s \in Time, NEW e \in Time,
           NEW p \in Spots, NEW priced \in BOOLEAN, UpdateListing(h, u, l, p, s, e, priced)
    PROVE  SwapInv'
<1> DEFINE row == [listings[l] EXCEPT !.parking = p, !.start = s, !.end = e,
                                   !.priced = priced]
           c == [Idle EXCEPT !.todo = SaveListing, !.listing = l, !.seen = OffersOf(l),
                             !.entity = row]
<1>1. /\ Accept(h, "relist") /\ listings[l] # Absent /\ listings[l].status = "active"
      /\ Goto(h, c)
  BY DEF UpdateListing
<1>2. row \in SwapListing /\ row.status \in {"active", "cancelled"}
  BY <1>1, TheListing DEF SwapInv, SwapListing
<1>3. Links(SaveListing, "selectListing", "writeListing")
  BY Programs
<1>4. OffersOf(l) \in SUBSET OfferIds
  BY DEF OffersOf
<1> HIDE DEF row, OffersOf
<1>5. c \in Call /\ c.todo = SaveListing /\ c.entity = row /\ c.listing = l
  BY <1>2, <1>3, <1>4, Idling DEF Call, Links, Chain
<1> HIDE DEF c
<1> QED BY <1>1, <1>2, <1>3, <1>5, Listing

LEMMA CancelListingInv ==
    ASSUME SwapInv, NEW h \in Handlers, NEW u \in Users, NEW l \in ListingIds,
           CancelListing(h, u, l)
    PROVE  SwapInv'
<1> DEFINE row == [listings[l] EXCEPT !.status = "cancelled"]
           todo == SaveListing \o <<"cancelOffers", "tellCancelled">>
           c == [Idle EXCEPT !.todo = todo, !.listing = l, !.seen = OffersOf(l),
                             !.others = PendingOf(l), !.entity = row]
<1>1. Accept(h, "unlist") /\ listings[l] # Absent /\ Goto(h, c)
  BY DEF CancelListing
<1>2. row \in SwapListing /\ row.status \in {"active", "cancelled"}
  BY <1>1, TheListing DEF SwapInv, SwapListing, SwapListingStatus
<1>3. Links(todo, "selectListing", "tellCancelled")
  BY Programs
<1>4. PendingOf(l) \in SUBSET OfferIds /\ OffersOf(l) \in SUBSET OfferIds
  BY DEF PendingOf, OffersOf
<1> HIDE DEF row, todo, PendingOf, OffersOf
<1>5. c \in Call /\ c.todo = todo /\ c.entity = row /\ c.listing = l
  BY <1>2, <1>3, <1>4, Idling DEF Call, Links, Chain
<1> HIDE DEF c
<1> QED BY <1>1, <1>2, <1>3, <1>5, Listing

LEMMA CreateOfferInv ==
    ASSUME SwapInv, NEW h \in Handlers, NEW u \in Users, NEW l \in ListingIds,
           NEW s \in Time, NEW e \in Time, NEW priced \in BOOLEAN,
           CreateOffer(h, u, l, s, e, priced)
    PROVE  SwapInv'
<1> DEFINE row == [listing |-> l, user |-> u, start |-> s, end |-> e,
                   priced |-> priced \/ listings[l].priced, status |-> "pending"]
           todo == <<"checkOffer", "insertOffer", "new">>
           c == [Idle EXCEPT !.todo = todo, !.entity = row]
<1>1. Accept(h, "offer") /\ listings[l] # Absent /\ Goto(h, c)
  BY DEF CreateOffer
<1>2. row \in SwapOffer /\ row.status = "pending" /\ row.listing = l
  BY <1>1 DEF SwapOffer, SwapOfferStatus
<1>3. Links(todo, "checkOffer", "new")
  BY Programs
<1> HIDE DEF row, todo
<1>4. c \in Call /\ c.todo = todo /\ c.entity = row
  BY <1>2, <1>3, Idling DEF Call, Links, Chain
<1> HIDE DEF c
<1>5. Knows(c, "checkOffer", listings, offers, was)
  BY <1>1, <1>2, <1>4 DEF Knows, Saving, NoticeType
<1> QED BY <1>1, <1>3, <1>4, <1>5, Starting

\* An offer is loaded, changed, and will be saved; the handler may remember
\* its listing.
LEMMA Offering ==
    ASSUME SwapInv, NEW h \in Handlers, NEW op, Accept(h, op), NEW o \in OfferIds,
           offers[o] # Absent, NEW s \in Saving, NEW todo, NEW z, Links(todo, s, z),
           NEW row \in SwapOffer, row.listing = offers[o].listing,
           (row.status \in Winning /\ s # "book") => "booked" \in was[row.listing],
           s = "complete" => "accepted" \in was[o],
           NEW c \in Call, c.todo = todo, c.entity = row, c.offer = o, Goto(h, c),
           s \in {"book", "complete"} => c.listing = row.listing
    PROVE  SwapInv'
<1>1. Knows(c, s, listings, offers, was)
  BY DEF Knows, Saving
<1> QED BY <1>1, Starting

LEMMA UpdateOfferInv ==
    ASSUME SwapInv, NEW h \in Handlers, NEW u \in Users, NEW o \in OfferIds,
           NEW s \in Time, NEW e \in Time, NEW priced \in BOOLEAN,
           UpdateOffer(h, u, o, s, e, priced)
    PROVE  SwapInv'
<1> DEFINE row == [offers[o] EXCEPT !.start = s, !.end = e, !.priced = priced]
           todo == SaveOffer \o <<"updated">>
           c == [Idle EXCEPT !.todo = todo, !.offer = o, !.entity = row]
<1>1. /\ Accept(h, "reoffer") /\ offers[o] # Absent /\ offers[o].status = "pending"
      /\ Goto(h, c)
  BY DEF UpdateOffer, PendingOffer
<1>2. row \in SwapOffer /\ row.listing = offers[o].listing /\ row.status \notin Winning
  BY <1>1, TheOffer DEF SwapInv, SwapOffer, Winning
<1>3. Links(todo, "selectOffer", "updated")
  BY Programs
<1> HIDE DEF row, todo
<1>4. c \in Call /\ c.todo = todo /\ c.entity = row /\ c.offer = o
  BY <1>2, <1>3, Idling DEF Call, Links, Chain
<1> HIDE DEF c
<1>5. "selectOffer" \in Saving /\ "selectOffer" \notin {"book", "complete"}
  BY DEF Saving
<1> QED BY <1>1, <1>2, <1>3, <1>4, <1>5, Offering

LEMMA CancelOfferInv ==
    ASSUME SwapInv, NEW h \in Handlers, NEW u \in Users, NEW o \in OfferIds,
           CancelOffer(h, u, o)
    PROVE  SwapInv'
<1> DEFINE row == [offers[o] EXCEPT !.status = "cancelled"]
           todo == SaveOffer \o <<"withdrawn">>
           c == [Idle EXCEPT !.todo = todo, !.offer = o, !.entity = row]
<1>1. /\ Accept(h, "withdraw") /\ offers[o] # Absent
      /\ Goto(h, c)
  BY DEF CancelOffer, PendingOffer
<1>2. row \in SwapOffer /\ row.listing = offers[o].listing /\ row.status \notin Winning
  BY <1>1, TheOffer DEF SwapInv, SwapOffer, SwapOfferStatus, Winning
<1>3. Links(todo, "selectOffer", "withdrawn")
  BY Programs
<1> HIDE DEF row, todo
<1>4. c \in Call /\ c.todo = todo /\ c.entity = row /\ c.offer = o
  BY <1>2, <1>3, Idling DEF Call, Links, Chain
<1> HIDE DEF c
<1>5. "selectOffer" \in Saving /\ "selectOffer" \notin {"book", "complete"}
  BY DEF Saving
<1> QED BY <1>1, <1>2, <1>3, <1>4, <1>5, Offering

LEMMA RespondToOfferInv ==
    ASSUME SwapInv, NEW h \in Handlers, NEW u \in Users, NEW o \in OfferIds,
           NEW accept \in BOOLEAN, RespondToOffer(h, u, o, accept)
    PROVE  SwapInv'
<1> DEFINE l == offers[o].listing
           row == [offers[o] EXCEPT !.status = IF accept THEN "accepted" ELSE "rejected"]
           todo == IF accept THEN AcceptSteps(offers[o]) ELSE <<"rejected">> \o SaveOffer
           s == IF accept THEN "book" ELSE "rejected"
           c == [Idle EXCEPT !.todo = todo, !.listing = l, !.offer = o, !.entity = row]
<1>1. /\ Accept(h, "respond") /\ offers[o] # Absent
      /\ Goto(h, c)
  BY DEF RespondToOffer, PendingOffer
<1>2. /\ row \in SwapOffer /\ row.listing = l
      /\ row.status = IF accept THEN "accepted" ELSE "rejected"
      /\ l \in ListingIds
  BY <1>1, TheOffer DEF SwapInv, SwapOffer, SwapOfferStatus
<1>3. Links(todo, s, "writeOffer")
  BY Programs
<1>4. /\ s \in Saving /\ s # "complete"
      /\ row.status \in Winning /\ s # "book" => "booked" \in was[row.listing]
  BY <1>2 DEF Saving, Winning
<1> HIDE DEF row, todo, s
<1>5. c \in Call /\ c.todo = todo /\ c.entity = row /\ c.offer = o /\ c.listing = l
  BY <1>1, <1>2, <1>3, Idling DEF Call, Links, Chain
<1> HIDE DEF c
<1> QED BY <1>1, <1>2, <1>3, <1>4, <1>5, Offering

LEMMA CompleteSwapInv ==
    ASSUME SwapInv, NEW h \in Handlers, NEW u \in Users, NEW o \in OfferIds,
           CompleteSwap(h, u, o)
    PROVE  SwapInv'
<1> DEFINE l == offers[o].listing
           row == [offers[o] EXCEPT !.status = "completed"]
           c == [Idle EXCEPT !.todo = CompleteSteps, !.listing = l, !.offer = o,
                             !.entity = row]
<1>1. /\ Accept(h, "complete") /\ offers[o] # Absent /\ offers[o].status = "accepted"
      /\ Goto(h, c)
  BY DEF CompleteSwap, CanComplete
<1>2. /\ row \in SwapOffer /\ row.listing = l /\ l \in ListingIds
      /\ "booked" \in was[l] /\ "accepted" \in was[o]
  BY <1>1, TheOffer DEF SwapInv, SwapOffer, SwapOfferStatus, Winning
<1>3. Links(CompleteSteps, "complete", "completed") /\ "complete" \in Saving
  BY Programs DEF Saving
<1> HIDE DEF row
<1>4. c \in Call /\ c.todo = CompleteSteps /\ c.entity = row /\ c.offer = o /\ c.listing = l
  BY <1>1, <1>2, <1>3, Idling DEF Call, Links, Chain
<1> HIDE DEF c
<1> QED BY <1>1, <1>2, <1>3, <1>4, Offering

----------------------------------------------------------------------------
(* Steps of a handler after an await                                       *)

LEMMA CheckListingInv ==
    ASSUME SwapInv, NEW h \in Handlers, CheckListing(h)
    PROVE  SwapInv'
<1>1. /\ At(h, "checkListing") /\ UNCHANGED <<tables, notices, now, requests, failures>>
      /\ Goto(h, Idle) \/ Advance(h, calls[h])
  BY DEF CheckListing
<1>2. UNCHANGED <<listings, offers, was>> /\ Counted'
  BY <1>1, CountsStay DEF tables, SwapInv
<1>3. /\ calls[h] \in Call /\ calls[h].todo # <<>> /\ Head(calls[h].todo) = "checkListing"
      /\ Knows(calls[h], "checkListing", listings, offers, was)
  BY <1>1, AtStep
<1>4. \A s \in After("checkListing") : Knows(calls[h], s, listings', offers', was')
  BY <1>2, <1>3 DEF After, Knows, Saving, NoticeType
<1>5. Tabled' /\ Grown
  BY <1>2, TablesStay DEF SwapInv
<1> QED BY <1>1, <1>2, <1>3, <1>4, <1>5, GivingUp, GoingOn

LEMMA InsertListingInv ==
    ASSUME SwapInv, NEW h \in Handlers, NEW l \in ListingIds, InsertListing(h, l)
    PROVE  SwapInv'
<1> DEFINE c == calls[h]
<1>1. /\ At(h, "insertListing") /\ StoreListing(l, c.entity) /\ Advance(h, c)
      /\ UNCHANGED <<offers, deals, moved, notices, now, requests, failures>>
  BY DEF InsertListing
<1>2. /\ c \in Call /\ c.todo # <<>> /\ Head(c.todo) = "insertListing"
      /\ c.entity \in SwapListing /\ c.entity.status = "active"
  BY <1>1, AtStep DEF Knows
<1>3. Tabled' /\ Grown
  BY <1>1, <1>2, ListingStored DEF SwapInv
<1>4. Counted'
  BY <1>1, CountsStay DEF SwapInv
<1>5. After("insertListing") = {}
  BY DEF After
<1> QED BY <1>1, <1>2, <1>3, <1>4, <1>5, GoingOn

LEMMA SelectListingInv ==
    ASSUME SwapInv, NEW h \in Handlers, SelectListing(h)
    PROVE  SwapInv'
<1> DEFINE c == calls[h]
           cols == Dirty(c.entity, listings[c.listing])
           d == [c EXCEPT !.cols = cols]
<1>1. /\ At(h, "selectListing") /\ UNCHANGED <<tables, notices, now, requests, failures>>
      /\ Goto(h, Idle) \/ Advance(h, d)
  BY DEF SelectListing
<1>2. UNCHANGED <<listings, offers, was>> /\ Counted'
  BY <1>1, CountsStay DEF tables, SwapInv
<1>3. /\ c \in Call /\ c.todo # <<>> /\ Head(c.todo) = "selectListing"
      /\ Knows(c, "selectListing", listings, offers, was) /\ c.entity \in SwapListing
  BY <1>1, AtStep DEF Knows
<1>4. cols \in SUBSET Columns
  BY <1>3, DirtyColumns
<1> HIDE DEF cols
<1>5. /\ d \in Call /\ d.todo = c.todo /\ d.listing = c.listing /\ d.entity = c.entity
      /\ d.offer = c.offer
  BY <1>3, <1>4 DEF Call
<1> HIDE DEF d
<1>6. \A s \in After("selectListing") : Knows(d, s, listings', offers', was')
  BY <1>2, <1>3, <1>5 DEF After, Knows, Saving, NoticeType
<1>7. Tabled' /\ Grown
  BY <1>2, TablesStay DEF SwapInv
<1> QED BY <1>1, <1>2, <1>3, <1>5, <1>6, <1>7, GivingUp, GoingOn

LEMMA WriteListingInv ==
    ASSUME SwapInv, NEW h \in Handlers, WriteListing(h)
    PROVE  SwapInv'
<1> DEFINE c == calls[h]
           l == c.listing
           row == Patched(listings[l], c.entity, c.cols)
           d == [c EXCEPT !.entity = Absent, !.cols = {}]
<1>1. /\ At(h, "writeListing") /\ StoreListing(l, row) /\ Advance(h, d)
      /\ UNCHANGED <<offers, deals, notices, now, requests, failures>>
      /\ moved' = IF {"parking", "start", "end"} \cap c.cols # {} THEN moved \cup {l} ELSE moved
  BY DEF WriteListing
<1>2. /\ c \in Call /\ c.todo # <<>> /\ Head(c.todo) = "writeListing"
      /\ l \in ListingIds /\ listings[l] # Absent
      /\ c.entity \in SwapListing /\ c.entity.status \in {"active", "cancelled"}
  BY <1>1, AtStep DEF Knows
<1>3. listings[l] \in SwapListing
  BY <1>2, TheListing DEF SwapInv
<1>4. row \in SwapListing /\ row.status \in {c.entity.status, listings[l].status}
  BY <1>2, <1>3, PatchedListing
<1>5. row.status = "completed" => \E o \in OffersOf(l) : "accepted" \in was[o]
  BY <1>2, <1>4 DEF SwapInv, Tabled, CompletedWasWon, Listed
<1> HIDE DEF row
<1>6. Tabled' /\ Grown
  BY <1>1, <1>2, <1>4, <1>5, ListingStored DEF SwapInv
<1>7. Counted'
  BY <1>1, <1>2 DEF SwapInv, Counted
<1>8. d \in Call /\ d.todo = c.todo
  BY <1>2 DEF Call
<1> HIDE DEF d
<1>9. \A s \in After("writeListing") : Knows(d, s, listings', offers', was')
  BY DEF After, Knows, Saving, NoticeType
<1> QED BY <1>1, <1>2, <1>6, <1>7, <1>8, <1>9, GoingOn

LEMMA CancelOffersInv ==
    ASSUME SwapInv, NEW h \in Handlers, CancelOffers(h)
    PROVE  SwapInv'
<1> DEFINE c == calls[h]
<1>1. /\ At(h, "cancelOffers") /\ SetOffers(PendingOf(c.listing), "cancelled")
      /\ Advance(h, c)
      /\ UNCHANGED <<listings, deals, moved, notices, now, requests, failures>>
  BY DEF CancelOffers
<1>2. c \in Call /\ c.todo # <<>> /\ Head(c.todo) = "cancelOffers"
  BY <1>1, AtStep
<1>3. PendingOf(c.listing) \subseteq Offered
  BY DEF PendingOf, OffersOf, Offered
<1>4. Tabled' /\ Grown
  BY <1>1, <1>3, OffersSet DEF SwapInv
<1>5. Counted'
  BY <1>1, CountsStay DEF SwapInv
<1>6. \A s \in After("cancelOffers") : Knows(c, s, listings', offers', was')
  BY DEF After, Knows, Saving, NoticeType
<1> QED BY <1>1, <1>2, <1>4, <1>5, <1>6, GoingOn

LEMMA TellOthersInv ==
    ASSUME SwapInv, NEW h \in Handlers, NEW s, NEW type \in NoticeType,
           \/ s = "tellCancelled" \/ s = "tellRejected", TellOthers(h, s, type)
    PROVE  SwapInv'
<1> DEFINE c == calls[h]
<1>1. At(h, s) /\ UNCHANGED <<tables, now, requests, failures>>
  BY DEF TellOthers
<1>2. /\ c \in Call /\ c.todo # <<>> /\ Head(c.todo) = s
      /\ Knows(c, s, listings, offers, was)
  BY <1>1, AtStep
<1>3. UNCHANGED <<listings, offers, was, deals, moved>> /\ Tabled' /\ Grown
  BY <1>1, TablesStay DEF SwapInv, tables
<1>4. CASE Advance(h, c) /\ UNCHANGED notices
  <2>1. Counted'
    BY <1>1, <1>3, <1>4, CountsStay DEF SwapInv
  <2>2. \A t \in After(s) : Knows(c, t, listings', offers', was')
    BY <1>2, <1>3 DEF After, Knows, Saving, NoticeType
  <2> QED BY <1>2, <1>3, <1>4, <2>1, <2>2, GoingOn
<1>5. CASE \E o \in c.others : /\ notices' = notices \cup {<<type, o>>}
                               /\ Goto(h, [c EXCEPT !.others = @ \ {o}])
  <2>1. PICK o \in c.others : /\ notices' = notices \cup {<<type, o>>}
                              /\ Goto(h, [c EXCEPT !.others = @ \ {o}])
    BY <1>5
  <2> DEFINE d == [c EXCEPT !.others = @ \ {o}]
  <2>2. o \in OfferIds
    BY <1>2 DEF Call
  <2>3. Counted'
    BY <1>1, <1>3, <2>1, <2>2 DEF SwapInv, Counted
  <2>4. /\ d \in Call /\ d.todo = c.todo /\ d.entity = c.entity /\ d.listing = c.listing
        /\ d.offer = c.offer
    BY <1>2 DEF Call
  <2>5. Goto(h, d)
    BY <2>1
  <2> HIDE DEF d
  <2>6. CallBacked(d, listings', offers', was')
    BY <1>2, <1>3, <2>4 DEF CallBacked, Knows
  <2> QED BY <1>3, <2>3, <2>4, <2>5, <2>6, Assembled
<1> QED BY <1>4, <1>5 DEF TellOthers

LEMMA CheckOfferInv ==
    ASSUME SwapInv, NEW h \in Handlers, CheckOffer(h)
    PROVE  SwapInv'
<1>1. /\ At(h, "checkOffer") /\ UNCHANGED <<tables, notices, now, requests, failures>>
      /\ Goto(h, Idle) \/ Advance(h, calls[h])
  BY DEF CheckOffer
<1>2. UNCHANGED <<listings, offers, was>> /\ Counted'
  BY <1>1, CountsStay DEF tables, SwapInv
<1>3. /\ calls[h] \in Call /\ calls[h].todo # <<>> /\ Head(calls[h].todo) = "checkOffer"
      /\ Knows(calls[h], "checkOffer", listings, offers, was)
  BY <1>1, AtStep
<1>4. \A s \in After("checkOffer") : Knows(calls[h], s, listings', offers', was')
  BY <1>2, <1>3 DEF After, Knows, Saving, NoticeType
<1>5. Tabled' /\ Grown
  BY <1>2, TablesStay DEF SwapInv
<1> QED BY <1>1, <1>2, <1>3, <1>4, <1>5, GivingUp, GoingOn

LEMMA InsertOfferInv ==
    ASSUME SwapInv, NEW h \in Handlers, NEW o \in OfferIds, InsertOffer(h, o)
    PROVE  SwapInv'
<1> DEFINE c == calls[h]
           row == c.entity
           d == [c EXCEPT !.offer = o, !.entity = Absent]
<1>1. /\ At(h, "insertOffer") /\ was[o] = {} /\ StoreOffer(o, row) /\ Advance(h, d)
      /\ UNCHANGED <<listings, deals, moved, notices, now, requests, failures>>
  BY DEF InsertOffer
<1>2. /\ c \in Call /\ c.todo # <<>> /\ Head(c.todo) = "insertOffer"
      /\ row \in SwapOffer /\ row.status = "pending" /\ listings[row.listing] # Absent
  BY <1>1, AtStep DEF Knows
<1>3. offers[o] = Absent
  BY <1>1, TheOffer DEF SwapInv
<1>4. row.status \notin Winning
  BY <1>2 DEF Winning
<1>5. Tabled' /\ Grown
  BY <1>1, <1>2, <1>3, <1>4, OfferStored DEF SwapInv
<1>6. Counted'
  BY <1>1, CountsStay DEF SwapInv
<1>7. d \in Call /\ d.todo = c.todo /\ d.offer = o
  BY <1>2 DEF Call
<1> HIDE DEF d
<1>8. \A s \in After("insertOffer") : Knows(d, s, listings', offers', was')
  BY <1>7 DEF After, Knows, Saving, NoticeType
<1> QED BY <1>1, <1>2, <1>5, <1>6, <1>7, <1>8, GoingOn

LEMMA SelectOfferInv ==
    ASSUME SwapInv, NEW h \in Handlers, SelectOffer(h)
    PROVE  SwapInv'
<1> DEFINE c == calls[h]
           cols == Dirty(c.entity, offers[c.offer])
           d == [c EXCEPT !.cols = cols]
<1>1. /\ At(h, "selectOffer") /\ UNCHANGED <<tables, notices, now, requests, failures>>
      /\ Advance(h, d)
  BY DEF SelectOffer
<1>2. UNCHANGED <<listings, offers, was>> /\ Counted'
  BY <1>1, CountsStay DEF tables, SwapInv
<1>3. /\ c \in Call /\ c.todo # <<>> /\ Head(c.todo) = "selectOffer"
      /\ Knows(c, "selectOffer", listings, offers, was) /\ c.entity \in SwapOffer
  BY <1>1, AtStep DEF Knows, Saving
<1>4. cols \in SUBSET Columns
  BY <1>3, DirtyColumns
<1> HIDE DEF cols
<1>5. /\ d \in Call /\ d.todo = c.todo /\ d.listing = c.listing /\ d.entity = c.entity
      /\ d.offer = c.offer
  BY <1>3, <1>4 DEF Call
<1> HIDE DEF d
<1>6. \A s \in After("selectOffer") : Knows(d, s, listings', offers', was')
  BY <1>2, <1>3, <1>5 DEF After, Knows, Saving, NoticeType
<1>7. Tabled' /\ Grown
  BY <1>2, TablesStay DEF SwapInv
<1> QED BY <1>1, <1>2, <1>3, <1>5, <1>6, <1>7, GoingOn

LEMMA WriteOfferInv ==
    ASSUME SwapInv, NEW h \in Handlers, WriteOffer(h)
    PROVE  SwapInv'
<1> DEFINE c == calls[h]
           o == c.offer
           row == Patched(offers[o], c.entity, c.cols)
           d == [c EXCEPT !.entity = Absent, !.cols = {}]
<1>1. /\ At(h, "writeOffer") /\ StoreOffer(o, row) /\ Advance(h, d)
      /\ UNCHANGED <<listings, deals, moved, notices, now, requests, failures>>
  BY DEF WriteOffer
<1>2. /\ c \in Call /\ c.todo # <<>> /\ Head(c.todo) = "writeOffer"
      /\ o \in OfferIds /\ offers[o] # Absent
      /\ c.entity \in SwapOffer /\ c.entity.listing = offers[o].listing
      /\ c.entity.status \in Winning => "booked" \in was[c.entity.listing]
  BY <1>1, AtStep DEF Knows, Saving
<1>3. /\ offers[o] \in SwapOffer /\ listings[offers[o].listing] # Absent
      /\ offers[o].status \in Winning => "booked" \in was[offers[o].listing]
  BY <1>2, TheOffer DEF SwapInv
<1>4. /\ row \in SwapOffer /\ row.listing = offers[o].listing
      /\ row.status \in {c.entity.status, offers[o].status}
  BY <1>2, <1>3, PatchedOffer
<1> HIDE DEF row
<1>5. row.status \in Winning => "booked" \in was[row.listing]
  BY <1>2, <1>3, <1>4
<1>6. Tabled' /\ Grown
  BY <1>1, <1>2, <1>3, <1>4, <1>5, OfferStored DEF SwapInv
<1>7. Counted'
  BY <1>1, CountsStay DEF SwapInv
<1>8. d \in Call /\ d.todo = c.todo /\ d.offer = o
  BY <1>2 DEF Call
<1> HIDE DEF d
<1>9. \A s \in After("writeOffer") : Knows(d, s, listings', offers', was')
  BY <1>2, <1>8 DEF After, Knows, Saving, NoticeType
<1> QED BY <1>1, <1>2, <1>6, <1>7, <1>8, <1>9, GoingOn

MarksAs(s, status) ==
    (s = "book" /\ status = "booked") \/ (s = "complete" /\ status = "completed")

LEMMA MarkListingInv ==
    ASSUME SwapInv, NEW h \in Handlers, NEW s, NEW status, MarksAs(s, status),
           MarkListing(h, s, status)
    PROVE  SwapInv'
<1> DEFINE c == calls[h]
           l == c.listing
           row == [listings[l] EXCEPT !.status = status]
<1>1. /\ At(h, s) /\ StoreListing(l, row) /\ Advance(h, c)
      /\ UNCHANGED <<offers, deals, moved, notices, now, requests, failures>>
  BY DEF MarkListing
<1>2. /\ c \in Call /\ c.todo # <<>> /\ Head(c.todo) = s
      /\ Knows(c, s, listings, offers, was)
  BY <1>1, AtStep
<1>3. /\ c.offer \in OfferIds /\ offers[c.offer] # Absent /\ c.entity \in SwapOffer
      /\ c.entity.listing = offers[c.offer].listing /\ l = offers[c.offer].listing
  BY <1>2 DEF Knows, Saving, MarksAs
<1>4. l \in ListingIds /\ listings[l] # Absent
  BY <1>3, TheOffer DEF SwapInv
<1>5. row \in SwapListing /\ row.status = status
  BY <1>4, TheListing DEF SwapInv, SwapListing, SwapListingStatus, MarksAs
<1>6. row.status = "completed" => \E o \in OffersOf(l) : "accepted" \in was[o]
  BY <1>2, <1>3, <1>5 DEF Knows, OffersOf, MarksAs
<1> HIDE DEF row
<1>7. Tabled' /\ Grown
  BY <1>1, <1>4, <1>5, <1>6, ListingStored DEF SwapInv
<1>8. Counted'
  BY <1>1, CountsStay DEF SwapInv
<1>9. Knows(c, s, listings', offers', was')
  BY <1>2, <1>7, KnowsLasts
<1>10. s = "book" => "booked" \in was'[l]
  BY <1>1, <1>4, <1>5 DEF StoreListing, SwapInv, Tabled, MarksAs
<1>11. \A t \in After(s) : Knows(c, t, listings', offers', was')
  BY <1>3, <1>9, <1>10 DEF After, Knows, Saving, NoticeType, MarksAs
<1> QED BY <1>1, <1>2, <1>7, <1>8, <1>11, GoingOn

LEMMA RejectOthersInv ==
    ASSUME SwapInv, NEW h \in Handlers, RejectOthers(h)
    PROVE  SwapInv'
<1> DEFINE c == calls[h]
<1>1. /\ At(h, "rejectOthers") /\ SetOffers(Rivals(c.offer), "rejected") /\ Advance(h, c)
      /\ UNCHANGED <<listings, deals, moved, notices, now, requests, failures>>
  BY DEF RejectOthers
<1>2. /\ c \in Call /\ c.todo # <<>> /\ Head(c.todo) = "rejectOthers"
      /\ Knows(c, "rejectOthers", listings, offers, was)
  BY <1>1, AtStep
<1>3. Rivals(c.offer) \subseteq Offered
  BY DEF Rivals, PendingOf, OffersOf, Offered
<1>4. Tabled' /\ Grown
  BY <1>1, <1>3, OffersSet DEF SwapInv
<1>5. Counted'
  BY <1>1, CountsStay DEF SwapInv
<1>6. Knows(c, "rejectOthers", listings', offers', was')
  BY <1>2, <1>4, KnowsLasts
<1>7. \A t \in After("rejectOthers") : Knows(c, t, listings', offers', was')
  BY <1>6 DEF After, Knows, Saving, NoticeType
<1> QED BY <1>1, <1>2, <1>4, <1>5, <1>7, GoingOn

LEMMA CreateDealInv ==
    ASSUME SwapInv, NEW h \in Handlers, CreateDeal(h)
    PROVE  SwapInv'
<1> DEFINE c == calls[h]
<1>1. /\ At(h, "deal") /\ deals' = [deals EXCEPT ![c.offer] = @ + 1] /\ Advance(h, c)
      /\ UNCHANGED <<listings, offers, was, moved, notices, now, requests, failures>>
  BY DEF CreateDeal
<1>2. /\ c \in Call /\ c.todo # <<>> /\ Head(c.todo) = "deal"
      /\ Knows(c, "deal", listings, offers, was) /\ c.offer \in OfferIds
  BY <1>1, AtStep DEF Knows, Saving
<1>3. Tabled' /\ Grown
  BY <1>1, TablesStay DEF SwapInv
<1>4. Counted'
  BY <1>1, <1>2 DEF SwapInv, Counted
<1>5. \A t \in After("deal") : Knows(c, t, listings', offers', was')
  BY <1>1, <1>2 DEF After, Knows, Saving, NoticeType
<1> QED BY <1>1, <1>2, <1>3, <1>4, <1>5, GoingOn

LEMMA FindRejectedInv ==
    ASSUME SwapInv, NEW h \in Handlers, FindRejected(h)
    PROVE  SwapInv'
<1> DEFINE c == calls[h]
           found == {o \in OffersOf(c.listing) \ {c.offer} : offers[o].status = "rejected"}
           d == [c EXCEPT !.others = found]
<1>1. /\ At(h, "findRejected") /\ UNCHANGED <<tables, notices, now, requests, failures>>
      /\ Advance(h, d)
  BY DEF FindRejected
<1>2. UNCHANGED <<listings, offers, was>> /\ Counted'
  BY <1>1, CountsStay DEF tables, SwapInv
<1>3. /\ c \in Call /\ c.todo # <<>> /\ Head(c.todo) = "findRejected"
      /\ Knows(c, "findRejected", listings, offers, was)
  BY <1>1, AtStep
<1>4. found \in SUBSET OfferIds
  BY DEF OffersOf
<1> HIDE DEF found
<1>5. /\ d \in Call /\ d.todo = c.todo /\ d.listing = c.listing /\ d.entity = c.entity
      /\ d.offer = c.offer
  BY <1>3, <1>4 DEF Call
<1> HIDE DEF d
<1>6. \A s \in After("findRejected") : Knows(d, s, listings', offers', was')
  BY <1>2, <1>3, <1>5 DEF After, Knows, Saving, NoticeType
<1>7. Tabled' /\ Grown
  BY <1>2, TablesStay DEF SwapInv
<1> QED BY <1>1, <1>2, <1>3, <1>5, <1>6, <1>7, GoingOn

LEMMA TellInv ==
    ASSUME SwapInv, NEW h \in Handlers, NEW type \in NoticeType, Tell(h, type)
    PROVE  SwapInv'
<1> DEFINE c == calls[h]
<1>1. /\ At(h, type) /\ notices' = notices \cup {<<type, c.offer>>} /\ Advance(h, c)
      /\ UNCHANGED <<tables, now, requests, failures>>
  BY DEF Tell
<1>2. UNCHANGED <<listings, offers, was, deals, moved>>
  BY <1>1 DEF tables
<1>3. /\ c \in Call /\ c.todo # <<>> /\ Head(c.todo) = type
      /\ Knows(c, type, listings, offers, was) /\ c.offer \in OfferIds
  BY <1>1, AtStep DEF Knows
<1>4. Counted'
  BY <1>1, <1>2, <1>3 DEF SwapInv, Counted
<1>5. Tabled' /\ Grown
  BY <1>2, TablesStay DEF SwapInv
<1>6. \A t \in After(type) : Knows(c, t, listings', offers', was')
  BY <1>2, <1>3 DEF After, Knows, Saving, NoticeType
<1> QED BY <1>1, <1>3, <1>4, <1>5, <1>6, GoingOn

LEMMA FailInv ==
    ASSUME SwapInv, NEW h \in Handlers, Fail(h)
    PROVE  SwapInv'
<1>1. UNCHANGED <<listings, offers, was, deals, moved, notices, now, requests>> /\ Goto(h, Idle)
  BY DEF Fail, tables
<1>2. failures' \in 0..MaxFailures
  BY SwapConstants DEF Fail, SwapInv, Counted
<1>3. Counted'
  BY <1>1, <1>2 DEF SwapInv, Counted
<1> QED BY <1>1, <1>3, GivingUp

LEMMA TickInv ==
    ASSUME SwapInv, Tick
    PROVE  SwapInv'
<1>1. UNCHANGED <<listings, offers, was, deals, moved, notices, calls, requests, failures>>
  BY DEF Tick, tables
<1>2. now' \in Time
  BY SwapConstants DEF Tick, Time, SwapInv, Counted
<1>3. Tabled' /\ Counted'
  BY <1>1, <1>2, TablesStay DEF SwapInv, Counted
<1> QED BY <1>1, <1>3 DEF SwapInv, CallsBacked

----------------------------------------------------------------------------
(* The theorems                                                            *)

LEMMA SwapInvInit == Init => SwapInv
<1> SUFFICES ASSUME Init PROVE SwapInv
  OBVIOUS
<1>1. Listed = {} /\ Offered = {}
  BY DEF Init, Listed, Offered
<1>2. Tabled
  BY <1>1 DEF Init, Tabled, RowsKnown, WinnersBookedTheListing, CompletedWasWon
<1>3. Counted
  BY SwapConstants DEF Init, Counted, Time
<1>4. calls \in [Handlers -> Call] /\ CallsBacked
  BY Idling DEF Init, CallsBacked
<1> QED BY <1>2, <1>3, <1>4 DEF SwapInv

LEMMA RequestInv ==
    ASSUME SwapInv, NEW h \in Handlers, NEW u \in Users, Request(h, u)
    PROVE  SwapInv'
<1>1. ASSUME NEW s \in Time, NEW e \in Time, NEW priced \in BOOLEAN,
             \/ \E p \in Spots :
                    \/ CreateListing(h, u, p, s, e, priced)
                    \/ \E l \in ListingIds : UpdateListing(h, u, l, p, s, e, priced)
             \/ \E l \in ListingIds : CreateOffer(h, u, l, s, e, priced)
             \/ \E o \in OfferIds : UpdateOffer(h, u, o, s, e, priced)
      PROVE  SwapInv'
  BY <1>1, CreateListingInv, UpdateListingInv, CreateOfferInv, UpdateOfferInv
<1>2. ASSUME NEW l \in ListingIds, CancelListing(h, u, l) PROVE SwapInv'
  BY <1>2, CancelListingInv
<1>3. ASSUME NEW o \in OfferIds,
             \/ CancelOffer(h, u, o)
             \/ \E accept \in BOOLEAN : RespondToOffer(h, u, o, accept)
             \/ CompleteSwap(h, u, o)
      PROVE  SwapInv'
  BY <1>3, CancelOfferInv, RespondToOfferInv, CompleteSwapInv
<1> QED BY <1>1, <1>2, <1>3 DEF Request

LEMMA StepInv ==
    ASSUME SwapInv, NEW h \in Handlers, Step(h)
    PROVE  SwapInv'
<1>1. CASE CheckListing(h) \/ \E l \in ListingIds : InsertListing(h, l)
  BY <1>1, CheckListingInv, InsertListingInv
<1>2. CASE SelectListing(h) \/ WriteListing(h)
  BY <1>2, SelectListingInv, WriteListingInv
<1>3. CASE CancelOffers(h) \/ RejectOthers(h)
  BY <1>3, CancelOffersInv, RejectOthersInv
<1>4. CASE TellOthers(h, "tellCancelled", "cancelled") \/ TellOthers(h, "tellRejected", "rejected")
  BY <1>4, TellOthersInv DEF NoticeType
<1>5. CASE CheckOffer(h) \/ \E o \in OfferIds : InsertOffer(h, o)
  BY <1>5, CheckOfferInv, InsertOfferInv
<1>6. CASE SelectOffer(h) \/ WriteOffer(h)
  BY <1>6, SelectOfferInv, WriteOfferInv
<1>7. CASE MarkListing(h, "book", "booked") \/ MarkListing(h, "complete", "completed")
  <2>1. CASE MarkListing(h, "book", "booked")
    BY <2>1, MarkListingInv DEF MarksAs
  <2>2. CASE MarkListing(h, "complete", "completed")
    BY <2>2, MarkListingInv DEF MarksAs
  <2> QED BY <1>7, <2>1, <2>2
<1>8. CASE CreateDeal(h) \/ FindRejected(h)
  BY <1>8, CreateDealInv, FindRejectedInv
<1>9. CASE \E type \in NoticeType : Tell(h, type)
  BY <1>9, TellInv
<1> QED BY <1>1, <1>2, <1>3, <1>4, <1>5, <1>6, <1>7, <1>8, <1>9 DEF Step

LEMMA SwapInvNext ==
    ASSUME SwapInv, [Next]_swapVars
    PROVE  SwapInv'
<1>1. ASSUME NEW h \in Handlers, (\E u \in Users : Request(h, u)) \/ Step(h) \/ Fail(h)
      PROVE  SwapInv'
  BY <1>1, RequestInv, StepInv, FailInv
<1>2. CASE UNCHANGED swapVars
  <2>1. /\ UNCHANGED <<listings, offers, was, deals, moved, notices, now, requests, failures>>
        /\ UNCHANGED calls
    BY <1>2 DEF swapVars, tables
  <2>2. Tabled' /\ Counted'
    BY <2>1, TablesStay, CountsStay DEF SwapInv
  <2> QED BY <2>1, <2>2 DEF SwapInv, CallsBacked
<1> QED BY <1>1, <1>2, TickInv DEF Next

\* SwapInv is inductive: rows and handlers have their types, an offer stays
\* with its listing, and a handler that will save a won offer is before the
\* await that books, or the listing has been booked.
THEOREM SwapInvariance == Spec => []SwapInv
<1>1. Init => SwapInv
  BY SwapInvInit
<1>2. SwapInv /\ [Next]_swapVars => SwapInv'
  BY SwapInvNext
<1> QED BY <1>1, <1>2, PTL DEF Spec

\* Rows, handlers and history are what the entities and the handlers of
\* spotswap.service.ts can build.
THEOREM SwapTypes == Spec => []SwapTypeOK
<1>1. SwapInv => SwapTypeOK
  <2> SUFFICES ASSUME SwapInv PROVE SwapTypeOK
    OBVIOUS
  <2>1. ASSUME NEW h \in Handlers
        PROVE  /\ calls[h].todo \in Seq(Steps)
               /\ calls[h].listing \in ListingIds \cup {NoId}
               /\ calls[h].offer \in OfferIds \cup {NoId}
               /\ calls[h].entity \in SwapListing \cup SwapOffer \cup {Absent}
               /\ calls[h].seen \cup calls[h].others \subseteq OfferIds
    BY DEF SwapInv, Call
  <2> QED BY <2>1 DEF SwapTypeOK, SwapInv, Tabled, Counted
<1> QED BY <1>1, SwapInvariance, PTL

\* However answers race and handlers die, an offer is accepted or completed
\* only after its listing was booked (respondToOffer, completeSwap).
THEOREM WinnersBooked == Spec => []WinnersBookedTheListing
<1>1. SwapInv => WinnersBookedTheListing
  BY DEF SwapInv, Tabled
<1> QED BY <1>1, SwapInvariance, PTL

\* However answers race and handlers die, a listing is completed only if one
\* of its offers was accepted at some time (completeSwap).
THEOREM CompletedListingsWereWon == Spec => []CompletedWasWon
<1>1. SwapInv => CompletedWasWon
  BY DEF SwapInv, Tabled
<1> QED BY <1>1, SwapInvariance, PTL

----------------------------------------------------------------------------
(* Requests one at a time                                                  *)

OneAtATime == \A g, h \in Handlers : g = h

StepsOf(todo) == {todo[i] : i \in 1..Len(todo)}

\* What a handler knows at await s, with the awaits ahead, when nobody else is
\* at work: what it read is still so, and what it will save is what it meant to.
Sees(c, s, ahead, ls, os, t) ==
    /\ s = "insertListing" =>
            \A l \in ListingIds :
                (/\ ls[l] # Absent /\ ls[l].status = "active"
                 /\ ls[l].parking = c.entity.parking) => ~ Meet(ls[l], c.entity)
    /\ s \in {"selectListing", "writeListing"} =>
            /\ ls[c.listing].status = "active"
            /\ c.entity.status = "cancelled" <=> "cancelOffers" \in ahead
    /\ s = "writeListing" => c.cols = Dirty(c.entity, ls[c.listing])
    /\ s \in {"checkOffer", "insertOffer"} => ls[c.entity.listing].status = "active"
    /\ s \in Saving =>
            /\ c.entity.status \in Winning => "writeOffer" \in ahead
            /\ os[c.offer].status = IF c.entity.status = "completed" THEN "accepted"
                                    ELSE "pending"
            /\ c.entity.status = "completed" =>
                    t >= c.entity.end /\ c.entity.end = os[c.offer].end
    /\ s = "writeOffer" => c.cols = Dirty(c.entity, os[c.offer])
    /\ s = "book" => ls[c.listing].status = "active"
    /\ s \in {"book", "rejectOthers", "deal", "accepted", "findRejected", "tellRejected"} =>
            c.entity.status = "accepted"
    /\ s = "complete" => c.entity.status = "completed"
    /\ s = "rejected" => c.entity.status = "rejected"
    /\ s \in ({"cancelOffers", "tellCancelled"} \cup NoticeType) \ Saving => c.entity = Absent

CallSeen(c, ls, os, t) ==
    c.todo # <<>> => Sees(c, Head(c.todo), StepsOf(c.todo), ls, os, t)

CallsSeen == \A h \in Handlers : CallSeen(calls[h], listings, offers, now)

SerialInv == ActiveListingsApart /\ CompletedAfterEnd /\ CallsSeen

\* The awaits ahead of a handler come later in the order than the first one.
LEMMA StepsAhead ==
    ASSUME NEW todo, Chain(todo), todo # <<>>
    PROVE  /\ Head(todo) \in StepsOf(todo)
           /\ \A s : s \in StepsOf(todo) \ {Head(todo)} => Rank(Head(todo)) < Rank(s)
           /\ Len(todo) # 1 => StepsOf(Tail(todo)) = StepsOf(todo) \ {Head(todo)}
           /\ Len(todo) = 1 => StepsOf(todo) = {Head(todo)}
<1>1. todo \in Seq(Steps) /\ Len(todo) \in Nat /\ Len(todo) >= 1 /\ Ordered(todo)
  BY EmptySeq, LenProperties DEF Chain
<1>2. /\ Len(Tail(todo)) = Len(todo) - 1
      /\ \A i \in 1..Len(todo) - 1 : Tail(todo)[i] = todo[i + 1]
      /\ Head(todo) = todo[1]
  BY <1>1, HeadTailProperties
<1>3. Head(todo) \in StepsOf(todo)
  BY <1>1, <1>2 DEF StepsOf
<1>4. ASSUME NEW i \in 1..Len(todo), i # 1 PROVE Rank(todo[1]) < Rank(todo[i])
  <2>1. 1 \in 1..Len(todo) /\ 1 < i
    BY <1>1, <1>4
  <2> QED BY <1>1, <2>1 DEF Ordered
<1>5. ASSUME NEW s \in StepsOf(todo), s # Head(todo) PROVE Rank(Head(todo)) < Rank(s)
  BY <1>2, <1>4, <1>5 DEF StepsOf
<1>6. ASSUME Len(todo) # 1 PROVE StepsOf(Tail(todo)) = StepsOf(todo) \ {Head(todo)}
  <2>1. ASSUME NEW s \in StepsOf(Tail(todo)) PROVE s \in StepsOf(todo) \ {Head(todo)}
    <3>1. PICK i \in 1..Len(todo) - 1 : s = todo[i + 1]
      BY <1>2 DEF StepsOf
    <3>2. i + 1 \in 1..Len(todo) /\ i + 1 # 1
      BY <1>1
    <3>3. Rank(todo[1]) < Rank(s) /\ Rank(s) \in Int
      BY <1>4, <3>1, <3>2, RankType
    <3> QED BY <1>2, <3>1, <3>2, <3>3 DEF StepsOf
  <2>2. ASSUME NEW s \in StepsOf(todo) \ {Head(todo)} PROVE s \in StepsOf(Tail(todo))
    <3>1. PICK i \in 1..Len(todo) : s = todo[i]
      BY DEF StepsOf
    <3>2. i - 1 \in 1..Len(todo) - 1 /\ i = (i - 1) + 1
      BY <1>1, <1>2, <3>1
    <3> QED BY <1>2, <3>1, <3>2 DEF StepsOf
  <2> QED BY <2>1, <2>2
<1>7. ASSUME Len(todo) = 1 PROVE StepsOf(todo) = {Head(todo)}
  BY <1>1, <1>2, <1>7 DEF StepsOf
<1> QED BY <1>3, <1>5, <1>6, <1>7

LEMMA RestSeen ==
    ASSUME NEW c \in Call, c.todo # <<>>, NEW ls, NEW os, NEW t,
           \A s \in After(Head(c.todo)) :
                Sees(c, s, StepsOf(c.todo) \ {Head(c.todo)}, ls, os, t)
    PROVE  CallSeen(Rest(c), ls, os, t)
<1>1. CASE Len(c.todo) = 1
  BY <1>1 DEF Rest, CallSeen, Idle
<1>2. CASE Len(c.todo) # 1
  <2> DEFINE d == [c EXCEPT !.todo = Tail(c.todo)]
             s == Head(Tail(c.todo))
             ahead == StepsOf(c.todo) \ {Head(c.todo)}
  <2>1. Chain(c.todo)
    BY DEF Call
  <2>2. Tail(c.todo) # <<>> /\ s \in After(Head(c.todo))
    BY <1>2, <2>1, ChainTail
  <2>3. Rest(c) = d /\ StepsOf(Tail(c.todo)) = ahead
    BY <1>2, <2>1, StepsAhead DEF Rest
  <2>4. /\ d.todo = Tail(c.todo) /\ d.listing = c.listing /\ d.cols = c.cols
        /\ d.offer = c.offer /\ d.entity = c.entity
    BY DEF Call
  <2>5. Sees(c, s, ahead, ls, os, t)
    BY <2>2
  <2> HIDE DEF d, s, ahead
  <2>6. Sees(d, s, ahead, ls, os, t)
    BY <2>4, <2>5 DEF Sees
  <2> QED BY <2>2, <2>3, <2>4, <2>6 DEF CallSeen, s
<1> QED BY <1>1, <1>2

\* Nobody else is at work.
LEMMA NobodyElse ==
    ASSUME OneAtATime, SwapInv, NEW h \in Handlers, NEW c, Goto(h, c),
           CallSeen(c, listings', offers', now')
    PROVE  CallsSeen'
<1>1. ASSUME NEW g \in Handlers PROVE calls'[g] = c
  BY DEF OneAtATime, Goto, SwapInv
<1> QED BY <1>1 DEF CallsSeen

LEMMA GivingUpSeen ==
    ASSUME OneAtATime, SwapInv, NEW h \in Handlers, Goto(h, Idle)
    PROVE  CallsSeen'
<1>1. CallSeen(Idle, listings', offers', now')
  BY DEF CallSeen, Idle
<1> QED BY <1>1, NobodyElse

LEMMA GoingOnSeen ==
    ASSUME OneAtATime, SwapInv, NEW h \in Handlers, NEW c \in Call, c.todo # <<>>,
           Advance(h, c),
           \A s \in After(Head(c.todo)) :
                Sees(c, s, StepsOf(c.todo) \ {Head(c.todo)}, listings', offers', now')
    PROVE  CallsSeen'
<1>1. CallSeen(Rest(c), listings', offers', now')
  BY RestSeen
<1>2. Goto(h, Rest(c))
  BY DEF Advance, Rest
<1> QED BY <1>1, <1>2, NobodyElse

\* Rows are as they were, and the clock does not go back.
LEMMA ApartStays ==
    ASSUME ActiveListingsApart, CompletedAfterEnd, SwapInv,
           UNCHANGED <<listings, offers, moved>>, now' \in Time, now' >= now
    PROVE  ActiveListingsApart' /\ CompletedAfterEnd'
<1>1. ActiveListingsApart'
  BY DEF ActiveListingsApart, Listed
<1>2. ASSUME NEW o \in OfferIds, offers[o] # Absent, offers[o].status = "completed"
      PROVE  now' >= offers[o].end
  <2>1. now >= offers[o].end
    BY <1>2 DEF CompletedAfterEnd, Offered
  <2>2. offers[o].end \in Time /\ now \in Time
    BY <1>2, TheOffer DEF SwapOffer, SwapInv, Counted
  <2> QED BY <2>1, <2>2 DEF Time
<1> QED BY <1>1, <1>2 DEF CompletedAfterEnd, Offered

LEMMA StartingSeen ==
    ASSUME OneAtATime, SwapInv, SerialInv, NEW h \in Handlers, NEW op, Accept(h, op),
           NEW c \in Call, Goto(h, c), NEW s, NEW z, Links(c.todo, s, z),
           Sees(c, s, StepsOf(c.todo), listings, offers, now)
    PROVE  SerialInv'
<1>1. UNCHANGED <<listings, offers, moved, now>>
  BY DEF Accept, tables
<1>2. CallSeen(c, listings', offers', now')
  BY <1>1 DEF CallSeen, Links
<1>3. now' \in Time /\ now' >= now
  BY <1>1 DEF SwapInv, Counted, Time
<1>4. ActiveListingsApart' /\ CompletedAfterEnd'
  BY <1>1, <1>3, ApartStays DEF SerialInv
<1> QED BY <1>2, <1>4, NobodyElse DEF SerialInv

LEMMA CreateListingSerial ==
    ASSUME OneAtATime, SwapInv, SerialInv, NEW h \in Handlers, NEW u \in Users,
           NEW s \in Time, NEW e \in Time, NEW p \in Spots, NEW priced \in BOOLEAN,
           CreateListing(h, u, p, s, e, priced)
    PROVE  SerialInv'
<1> DEFINE row == [user |-> u, parking |-> p, start |-> s, end |-> e, priced |-> priced,
                   status |-> "active"]
           todo == <<"checkListing", "insertListing">>
           c == [Idle EXCEPT !.todo = todo, !.entity = row]
<1>1. row \in SwapListing
  BY DEF SwapListing, SwapListingStatus
<1>2. Links(todo, "checkListing", "insertListing")
  BY Programs
<1>3. Accept(h, "list") /\ Goto(h, c)
  BY DEF CreateListing
<1> HIDE DEF row, todo
<1>4. c \in Call /\ c.todo = todo
  BY <1>1, <1>2, Idling DEF Call, Links, Chain
<1> HIDE DEF c
<1>5. Sees(c, "checkListing", StepsOf(c.todo), listings, offers, now)
  BY DEF Sees, Saving, NoticeType
<1> QED BY <1>2, <1>3, <1>4, <1>5, StartingSeen

LEMMA UpdateListingSerial ==
    ASSUME OneAtATime, SwapInv, SerialInv, NEW h \in Handlers, NEW u \in Users,
           NEW l \in ListingIds, NEW s \in Time, NEW e \in Time,
           NEW p \in Spots, NEW priced \in BOOLEAN, UpdateListing(h, u, l, p, s, e, priced)
    PROVE  SerialInv'
<1> DEFINE row == [listings[l] EXCEPT !.parking = p, !.start = s, !.end = e,
                                   !.priced = priced]
           c == [Idle EXCEPT !.todo = SaveListing, !.listing = l, !.seen = OffersOf(l),
                             !.entity = row]
<1>1. /\ Accept(h, "relist") /\ listings[l] # Absent /\ listings[l].status = "active"
      /\ Goto(h, c)
  BY DEF UpdateListing
<1>2. row \in SwapListing /\ row.status = "active"
  BY <1>1, TheListing DEF SwapInv, SwapListing
<1>3. Links(SaveListing, "selectListing", "writeListing")
  BY Programs
<1>4. OffersOf(l) \in SUBSET OfferIds
  BY DEF OffersOf
<1>5. "cancelOffers" \notin StepsOf(SaveListing)
  BY DEF StepsOf, SaveListing
<1> HIDE DEF row, OffersOf
<1>6. c \in Call /\ c.todo = SaveListing /\ c.entity = row /\ c.listing = l
  BY <1>2, <1>3, <1>4, Idling DEF Call, Links, Chain
<1> HIDE DEF c
<1>7. Sees(c, "selectListing", StepsOf(c.todo), listings, offers, now)
  BY <1>1, <1>2, <1>5, <1>6 DEF Sees, Saving, NoticeType
<1> QED BY <1>1, <1>3, <1>6, <1>7, StartingSeen

LEMMA CancelListingSerial ==
    ASSUME OneAtATime, SwapInv, SerialInv, NEW h \in Handlers, NEW u \in Users,
           NEW l \in ListingIds, CancelListing(h, u, l)
    PROVE  SerialInv'
<1> DEFINE row == [listings[l] EXCEPT !.status = "cancelled"]
           todo == SaveListing \o <<"cancelOffers", "tellCancelled">>
           c == [Idle EXCEPT !.todo = todo, !.listing = l, !.seen = OffersOf(l),
                             !.others = PendingOf(l), !.entity = row]
<1>1. /\ Accept(h, "unlist") /\ listings[l] # Absent /\ listings[l].status = "active"
      /\ Goto(h, c)
  BY DEF CancelListing
<1>2. row \in SwapListing /\ row.status = "cancelled"
  BY <1>1, TheListing DEF SwapInv, SwapListing, SwapListingStatus
<1>3. Links(todo, "selectListing", "tellCancelled")
  BY Programs
<1>4. PendingOf(l) \in SUBSET OfferIds /\ OffersOf(l) \in SUBSET OfferIds
  BY DEF PendingOf, OffersOf
<1>5. "cancelOffers" \in StepsOf(todo)
  <2>1. Len(todo) = 4 /\ todo[3] = "cancelOffers"
    BY DEF SaveListing
  <2> QED BY <2>1 DEF StepsOf
<1> HIDE DEF row, todo, PendingOf, OffersOf
<1>6. c \in Call /\ c.todo = todo /\ c.entity = row /\ c.listing = l
  BY <1>2, <1>3, <1>4, Idling DEF Call, Links, Chain
<1> HIDE DEF c
<1>7. Sees(c, "selectListing", StepsOf(c.todo), listings, offers, now)
  BY <1>1, <1>2, <1>5, <1>6 DEF Sees, Saving, NoticeType
<1> QED BY <1>1, <1>3, <1>6, <1>7, StartingSeen

LEMMA CreateOfferSerial ==
    ASSUME OneAtATime, SwapInv, SerialInv, NEW h \in Handlers, NEW u \in Users,
           NEW l \in ListingIds, NEW s \in Time, NEW e \in Time, NEW priced \in BOOLEAN,
           CreateOffer(h, u, l, s, e, priced)
    PROVE  SerialInv'
<1> DEFINE row == [listing |-> l, user |-> u, start |-> s, end |-> e,
                   priced |-> priced \/ listings[l].priced, status |-> "pending"]
           todo == <<"checkOffer", "insertOffer", "new">>
           c == [Idle EXCEPT !.todo = todo, !.entity = row]
<1>1. Accept(h, "offer") /\ listings[l].status = "active" /\ Goto(h, c)
  BY DEF CreateOffer
<1>2. row \in SwapOffer /\ row.listing = l
  BY <1>1 DEF SwapOffer, SwapOfferStatus
<1>3. Links(todo, "checkOffer", "new")
  BY Programs
<1> HIDE DEF row, todo
<1>4. c \in Call /\ c.todo = todo /\ c.entity = row
  BY <1>2, <1>3, Idling DEF Call, Links, Chain
<1> HIDE DEF c
<1>5. Sees(c, "checkOffer", StepsOf(c.todo), listings, offers, now)
  BY <1>1, <1>2, <1>4 DEF Sees, Saving, NoticeType
<1> QED BY <1>1, <1>3, <1>4, <1>5, StartingSeen

\* A pending offer is loaded, changed, and will be saved.
LEMMA SavingSerial ==
    ASSUME OneAtATime, SwapInv, SerialInv, NEW h \in Handlers, NEW op, Accept(h, op),
           NEW o \in OfferIds, offers[o].status = "pending",
           NEW s \in {"selectOffer", "rejected"}, NEW todo, NEW z, Links(todo, s, z),
           NEW row \in SwapOffer, row.status \notin Winning, s = "rejected" => row.status = s,
           NEW c \in Call, c.todo = todo, c.entity = row, c.offer = o, Goto(h, c)
    PROVE  SerialInv'
<1>1. Sees(c, s, StepsOf(c.todo), listings, offers, now)
  BY DEF Sees, Saving, NoticeType, Winning
<1> QED BY <1>1, StartingSeen

LEMMA UpdateOfferSerial ==
    ASSUME OneAtATime, SwapInv, SerialInv, NEW h \in Handlers, NEW u \in Users,
           NEW o \in OfferIds, NEW s \in Time, NEW e \in Time, NEW priced \in BOOLEAN,
           UpdateOffer(h, u, o, s, e, priced)
    PROVE  SerialInv'
<1> DEFINE row == [offers[o] EXCEPT !.start = s, !.end = e, !.priced = priced]
           todo == SaveOffer \o <<"updated">>
           c == [Idle EXCEPT !.todo = todo, !.offer = o, !.entity = row]
<1>1. /\ Accept(h, "reoffer") /\ offers[o] # Absent /\ offers[o].status = "pending"
      /\ Goto(h, c)
  BY DEF UpdateOffer, PendingOffer
<1>2. row \in SwapOffer /\ row.status \notin Winning
  BY <1>1, TheOffer DEF SwapInv, SwapOffer, Winning
<1>3. Links(todo, "selectOffer", "updated")
  BY Programs
<1> HIDE DEF row, todo
<1>4. c \in Call /\ c.todo = todo /\ c.entity = row /\ c.offer = o
  BY <1>2, <1>3, Idling DEF Call, Links, Chain
<1> HIDE DEF c
<1> QED BY <1>1, <1>2, <1>3, <1>4, SavingSerial

LEMMA CancelOfferSerial ==
    ASSUME OneAtATime, SwapInv, SerialInv, NEW h \in Handlers, NEW u \in Users,
           NEW o \in OfferIds, CancelOffer(h, u, o)
    PROVE  SerialInv'
<1> DEFINE row == [offers[o] EXCEPT !.status = "cancelled"]
           todo == SaveOffer \o <<"withdrawn">>
           c == [Idle EXCEPT !.todo = todo, !.offer = o, !.entity = row]
<1>1. /\ Accept(h, "withdraw") /\ offers[o] # Absent /\ offers[o].status = "pending"
      /\ Goto(h, c)
  BY DEF CancelOffer, PendingOffer
<1>2. row \in SwapOffer /\ row.status \notin Winning
  BY <1>1, TheOffer DEF SwapInv, SwapOffer, SwapOfferStatus, Winning
<1>3. Links(todo, "selectOffer", "withdrawn")
  BY Programs
<1> HIDE DEF row, todo
<1>4. c \in Call /\ c.todo = todo /\ c.entity = row /\ c.offer = o
  BY <1>2, <1>3, Idling DEF Call, Links, Chain
<1> HIDE DEF c
<1> QED BY <1>1, <1>2, <1>3, <1>4, SavingSerial

LEMMA RespondToOfferSerial ==
    ASSUME OneAtATime, SwapInv, SerialInv, NEW h \in Handlers, NEW u \in Users,
           NEW o \in OfferIds, NEW accept \in BOOLEAN, RespondToOffer(h, u, o, accept)
    PROVE  SerialInv'
<1> DEFINE l == offers[o].listing
           row == [offers[o] EXCEPT !.status = IF accept THEN "accepted" ELSE "rejected"]
           todo == IF accept THEN AcceptSteps(offers[o]) ELSE <<"rejected">> \o SaveOffer
           s == IF accept THEN "book" ELSE "rejected"
           c == [Idle EXCEPT !.todo = todo, !.listing = l, !.offer = o, !.entity = row]
<1>1. /\ Accept(h, "respond") /\ offers[o] # Absent /\ offers[o].status = "pending"
      /\ listings[l].status = "active" /\ Goto(h, c)
  BY DEF RespondToOffer, PendingOffer, ListingActive
<1>2. /\ row \in SwapOffer /\ l \in ListingIds
      /\ row.status = IF accept THEN "accepted" ELSE "rejected"
  BY <1>1, TheOffer DEF SwapInv, SwapOffer, SwapOfferStatus
<1>3. Links(todo, s, "writeOffer")
  BY Programs
<1>4. "writeOffer" \in StepsOf(todo)
  <2>1. Len(todo) \in 1..Len(todo) /\ todo[Len(todo)] = "writeOffer"
    <3> HIDE DEF todo, s
    <3> QED BY <1>3, EmptySeq, LenProperties DEF Links, Chain
  <2> QED BY <2>1 DEF StepsOf
<1> HIDE DEF row, todo
<1>5. c \in Call /\ c.todo = todo /\ c.entity = row /\ c.offer = o /\ c.listing = l
  BY <1>1, <1>2, <1>3, Idling DEF Call, Links, Chain
<1> HIDE DEF c
<1>6. Sees(c, s, StepsOf(c.todo), listings, offers, now)
  BY <1>1, <1>2, <1>4, <1>5 DEF Sees, Saving, NoticeType, Winning
<1> HIDE DEF s
<1> QED BY <1>1, <1>3, <1>5, <1>6, StartingSeen

LEMMA CompleteSwapSerial ==
    ASSUME OneAtATime, SwapInv, SerialInv, NEW h \in Handlers, NEW u \in Users,
           NEW o \in OfferIds, CompleteSwap(h, u, o)
    PROVE  SerialInv'
<1> DEFINE l == offers[o].listing
           row == [offers[o] EXCEPT !.status = "completed"]
           c == [Idle EXCEPT !.todo = CompleteSteps, !.listing = l, !.offer = o,
                             !.entity = row]
<1>1. /\ Accept(h, "complete") /\ offers[o] # Absent /\ offers[o].status = "accepted"
      /\ now >= offers[o].end /\ Goto(h, c)
  BY DEF CompleteSwap, CanComplete
<1>2. /\ row \in SwapOffer /\ row.status = "completed" /\ row.end = offers[o].end
      /\ l \in ListingIds
  BY <1>1, TheOffer DEF SwapInv, SwapOffer, SwapOfferStatus
<1>3. Links(CompleteSteps, "complete", "completed")
  BY Programs
<1>4. "writeOffer" \in StepsOf(CompleteSteps)
  <2>1. Len(CompleteSteps) = 4 /\ CompleteSteps[3] = "writeOffer"
    BY DEF CompleteSteps, SaveOffer
  <2> QED BY <2>1 DEF StepsOf
<1> HIDE DEF row
<1>5. c \in Call /\ c.todo = CompleteSteps /\ c.entity = row /\ c.offer = o
  BY <1>1, <1>2, <1>3, Idling DEF Call, Links, Chain
<1> HIDE DEF c
<1>6. Sees(c, "complete", StepsOf(c.todo), listings, offers, now)
  BY <1>1, <1>2, <1>4, <1>5 DEF Sees, Saving, NoticeType, Winning
<1> QED BY <1>1, <1>3, <1>5, <1>6, StartingSeen

LEMMA SeesStep ==
    ASSUME SwapInv, SerialInv, NEW h \in Handlers, NEW s, At(h, s)
    PROVE  Sees(calls[h], s, StepsOf(calls[h].todo), listings, offers, now)
BY DEF SerialInv, CallsSeen, CallSeen, At

\* A stored listing keeps active ones apart if it is not active, or meets no
\* other active one, or was moved.
LEMMA ApartStored ==
    ASSUME SwapInv, SerialInv, NEW l \in ListingIds, NEW row \in SwapListing,
           StoreListing(l, row), moved \subseteq moved', UNCHANGED <<offers, now>>,
           row.status = "active" =>
                \A k \in ListingIds :
                    (k # l /\ listings[k] # Absent /\ listings[k].status = "active"
                        /\ listings[k].parking = row.parking
                        /\ Meet(listings[k], row)) => {k, l} \cap moved' # {}
    PROVE  ActiveListingsApart' /\ CompletedAfterEnd'
<1>1. /\ listings'[l] = row /\ row # Absent
      /\ \A k \in ListingIds : k # l => listings'[k] = listings[k]
  BY AbsentIsNoSwap DEF SwapInv, Tabled, StoreListing
<1>2. ASSUME NEW k \in ListingIds, NEW m \in ListingIds, k # m,
             listings'[k] # Absent, listings'[m] # Absent,
             listings'[k].status = "active", listings'[m].status = "active",
             listings'[k].parking = listings'[m].parking,
             Meet(listings'[k], listings'[m])
      PROVE  {k, m} \cap moved' # {}
  <2>1. CASE k # l /\ m # l
    BY <1>1, <1>2, <2>1 DEF SerialInv, ActiveListingsApart, Listed
  <2>2. CASE m = l
    BY <1>1, <1>2, <2>2
  <2>3. CASE k = l
    <3>1. listings[m] \in SwapListing /\ listings'[m] = listings[m] /\ m # l
      BY <1>1, <1>2, <2>3, TheListing DEF SwapInv
    <3>2. Meet(listings[m], row)
      BY <1>1, <1>2, <2>3, <3>1 DEF Meet, SwapListing, Time
    <3> QED BY <1>1, <1>2, <2>3, <3>1, <3>2
  <2> QED BY <2>1, <2>2, <2>3
<1>3. ActiveListingsApart'
  BY <1>2 DEF ActiveListingsApart, Listed
<1>4. CompletedAfterEnd'
  BY DEF CompletedAfterEnd, Offered, SerialInv
<1> QED BY <1>3, <1>4

\* Offers change, and none is completed early.
LEMMA Timely ==
    ASSUME SerialInv, UNCHANGED <<listings, moved, now>>,
           \A o \in OfferIds : \/ offers'[o] = offers[o]
                               \/ offers'[o].status = "completed" => now >= offers'[o].end
    PROVE  ActiveListingsApart' /\ CompletedAfterEnd'
<1>1. ActiveListingsApart'
  BY DEF SerialInv, ActiveListingsApart, Listed
<1>2. CompletedAfterEnd'
  BY DEF SerialInv, CompletedAfterEnd, Offered
<1> QED BY <1>1, <1>2

\* A handler only looked.
LEMMA Looked ==
    ASSUME SwapInv, SerialInv, UNCHANGED <<listings, offers, moved, now>>
    PROVE  ActiveListingsApart' /\ CompletedAfterEnd'
BY Timely

LEMMA CheckListingSerial ==
    ASSUME OneAtATime, SwapInv, SerialInv, NEW h \in Handlers, CheckListing(h)
    PROVE  SerialInv'
<1> DEFINE c == calls[h]
<1>1. /\ At(h, "checkListing") /\ UNCHANGED <<listings, offers, moved, now>>
      /\ Goto(h, Idle) \/ (Blocking(c.entity) = {} /\ Advance(h, c))
  BY DEF CheckListing, tables
<1>2. c \in Call /\ c.todo # <<>> /\ Head(c.todo) = "checkListing"
  BY <1>1, AtStep
<1>3. CASE Blocking(c.entity) = {} /\ Advance(h, c)
  <2>1. \A s \in After("checkListing") : Sees(c, s, StepsOf(c.todo) \ {"checkListing"},
                                              listings', offers', now')
    BY <1>1, <1>3 DEF After, Sees, Saving, NoticeType, Blocking
  <2> QED BY <1>1, <1>2, <1>3, <2>1, Looked, GoingOnSeen DEF SerialInv
<1> QED BY <1>1, <1>3, Looked, GivingUpSeen DEF SerialInv

LEMMA InsertListingSerial ==
    ASSUME OneAtATime, SwapInv, SerialInv, NEW h \in Handlers, NEW l \in ListingIds,
           InsertListing(h, l)
    PROVE  SerialInv'
<1> DEFINE c == calls[h]
<1>1. /\ At(h, "insertListing") /\ StoreListing(l, c.entity) /\ Advance(h, c)
      /\ UNCHANGED <<offers, moved, now>>
  BY DEF InsertListing
<1>2. /\ c \in Call /\ c.todo # <<>> /\ Head(c.todo) = "insertListing"
      /\ c.entity \in SwapListing
  BY <1>1, AtStep DEF Knows
<1>3. \A k \in ListingIds :
        (/\ listings[k] # Absent /\ listings[k].status = "active"
         /\ listings[k].parking = c.entity.parking) => ~ Meet(listings[k], c.entity)
  BY <1>1, SeesStep DEF Sees
<1>4. ActiveListingsApart' /\ CompletedAfterEnd'
  BY <1>1, <1>2, <1>3, ApartStored
<1>5. After("insertListing") = {}
  BY DEF After
<1> QED BY <1>1, <1>2, <1>4, <1>5, GoingOnSeen DEF SerialInv

LEMMA SelectListingSerial ==
    ASSUME OneAtATime, SwapInv, SerialInv, NEW h \in Handlers, SelectListing(h)
    PROVE  SerialInv'
<1> DEFINE c == calls[h]
           cols == Dirty(c.entity, listings[c.listing])
           d == [c EXCEPT !.cols = cols]
<1>1. /\ At(h, "selectListing") /\ UNCHANGED <<listings, offers, moved, now>>
      /\ Goto(h, Idle) \/ Advance(h, d)
  BY DEF SelectListing, tables
<1>2. /\ c \in Call /\ c.todo # <<>> /\ Head(c.todo) = "selectListing"
      /\ c.entity \in SwapListing
      /\ Sees(c, "selectListing", StepsOf(c.todo), listings, offers, now)
  BY <1>1, AtStep, SeesStep DEF Knows
<1>3. cols \in SUBSET Columns
  BY <1>2, DirtyColumns
<1>4. /\ d \in Call /\ d.todo = c.todo /\ d.listing = c.listing /\ d.entity = c.entity
      /\ d.cols = Dirty(d.entity, listings[d.listing])
  BY <1>2, <1>3 DEF Call
<1> HIDE DEF d, cols
<1>5. \A s \in After("selectListing") : Sees(d, s, StepsOf(d.todo) \ {"selectListing"},
                                             listings', offers', now')
  BY <1>1, <1>2, <1>4 DEF After, Sees, Saving, NoticeType
<1> QED BY <1>1, <1>2, <1>4, <1>5, Looked, GivingUpSeen, GoingOnSeen DEF SerialInv

LEMMA WriteListingSerial ==
    ASSUME OneAtATime, SwapInv, SerialInv, NEW h \in Handlers, WriteListing(h)
    PROVE  SerialInv'
<1> DEFINE c == calls[h]
           l == c.listing
           row == Patched(listings[l], c.entity, c.cols)
           d == [c EXCEPT !.entity = Absent, !.cols = {}]
<1>1. /\ At(h, "writeListing") /\ StoreListing(l, row) /\ Advance(h, d)
      /\ UNCHANGED <<offers, now>>
      /\ moved' = IF {"parking", "start", "end"} \cap c.cols # {} THEN moved \cup {l} ELSE moved
  BY DEF WriteListing
<1>2. /\ c \in Call /\ c.todo # <<>> /\ Head(c.todo) = "writeListing"
      /\ l \in ListingIds /\ listings[l] # Absent /\ c.entity \in SwapListing
      /\ listings[l].status = "active"
  BY <1>1, AtStep, SeesStep DEF Knows, Sees
<1>3. listings[l] \in SwapListing
  BY <1>2, TheListing DEF SwapInv
<1>4. /\ row \in SwapListing
      /\ row.parking = IF "parking" \in c.cols THEN c.entity.parking
                       ELSE listings[l].parking
      /\ row.start = IF "start" \in c.cols THEN c.entity.start ELSE listings[l].start
      /\ row.end = IF "end" \in c.cols THEN c.entity.end ELSE listings[l].end
  BY <1>2, <1>3, PatchedListing
<1> HIDE DEF row
<1>5. ASSUME NEW k \in ListingIds, k # l, listings[k] # Absent,
             listings[k].status = "active", listings[k].parking = row.parking,
             Meet(listings[k], row)
      PROVE  {k, l} \cap moved' # {}
  <2>1. CASE {"parking", "start", "end"} \cap c.cols # {}
    BY <1>1, <2>1
  <2>2. CASE {"parking", "start", "end"} \cap c.cols = {}
    <3>1. Meet(listings[k], listings[l]) /\ listings[k].parking = listings[l].parking
      BY <1>4, <1>5, <2>2 DEF Meet
    <3> QED BY <1>1, <1>2, <1>5, <2>2, <3>1 DEF SerialInv, ActiveListingsApart, Listed
  <2> QED BY <2>1, <2>2
<1>6. ActiveListingsApart' /\ CompletedAfterEnd'
  BY <1>1, <1>2, <1>4, <1>5, ApartStored
<1>7. d \in Call /\ d.todo = c.todo /\ d.entity = Absent
  BY <1>2 DEF Call
<1> HIDE DEF d
<1>8. \A s \in After("writeListing") : Sees(d, s, StepsOf(d.todo) \ {"writeListing"},
                                            listings', offers', now')
  BY <1>7 DEF After, Sees, Saving, NoticeType
<1> QED BY <1>1, <1>2, <1>6, <1>7, <1>8, GoingOnSeen DEF SerialInv

\* A set of offers is cancelled or rejected.
LEMMA OffersSetTimely ==
    ASSUME SwapInv, SerialInv, NEW S, S \subseteq Offered,
           NEW status \in {"cancelled", "rejected"},
           SetOffers(S, status), UNCHANGED <<listings, moved, now>>
    PROVE  ActiveListingsApart' /\ CompletedAfterEnd'
<1>1. \A o \in OfferIds : \/ offers'[o] = offers[o]
                          \/ offers'[o].status = status
  BY TheOffer DEF SetOffers, SwapInv, Offered, SwapOffer
<1> QED BY <1>1, Timely

LEMMA CancelOffersSerial ==
    ASSUME OneAtATime, SwapInv, SerialInv, NEW h \in Handlers, CancelOffers(h)
    PROVE  SerialInv'
<1> DEFINE c == calls[h]
<1>1. /\ At(h, "cancelOffers") /\ SetOffers(PendingOf(c.listing), "cancelled")
      /\ Advance(h, c) /\ UNCHANGED <<listings, moved, now>>
  BY DEF CancelOffers
<1>2. /\ c \in Call /\ c.todo # <<>> /\ Head(c.todo) = "cancelOffers"
      /\ Sees(c, "cancelOffers", StepsOf(c.todo), listings, offers, now)
  BY <1>1, AtStep, SeesStep
<1>3. PendingOf(c.listing) \subseteq Offered
  BY DEF PendingOf, OffersOf, Offered
<1>4. ActiveListingsApart' /\ CompletedAfterEnd'
  BY <1>1, <1>3, OffersSetTimely
<1>5. \A s \in After("cancelOffers") : Sees(c, s, StepsOf(c.todo) \ {"cancelOffers"},
                                            listings', offers', now')
  BY <1>2 DEF After, Sees, Saving, NoticeType
<1> QED BY <1>1, <1>2, <1>4, <1>5, GoingOnSeen DEF SerialInv

LEMMA TellOthersSerial ==
    ASSUME OneAtATime, SwapInv, SerialInv, NEW h \in Handlers, NEW s,
           NEW type \in NoticeType, s = "tellCancelled" \/ s = "tellRejected",
           TellOthers(h, s, type)
    PROVE  SerialInv'
<1> DEFINE c == calls[h]
<1>1. At(h, s) /\ UNCHANGED <<listings, offers, moved, now>>
  BY DEF TellOthers, tables
<1>2. /\ c \in Call /\ c.todo # <<>> /\ Head(c.todo) = s
      /\ Sees(c, s, StepsOf(c.todo), listings, offers, now)
  BY <1>1, AtStep, SeesStep
<1>3. CASE Advance(h, c)
  <2>1. \A t \in After(s) : Sees(c, t, StepsOf(c.todo) \ {s}, listings', offers', now')
    BY <1>1, <1>2 DEF After, Sees, Saving, NoticeType
  <2> QED BY <1>1, <1>2, <1>3, <2>1, Looked, GoingOnSeen DEF SerialInv
<1>4. CASE \E o \in c.others : Goto(h, [c EXCEPT !.others = @ \ {o}])
  <2>1. PICK o \in c.others : Goto(h, [c EXCEPT !.others = @ \ {o}])
    BY <1>4
  <2> DEFINE d == [c EXCEPT !.others = @ \ {o}]
  <2>2. /\ d.todo = c.todo /\ d.entity = c.entity /\ d.listing = c.listing
        /\ d.offer = c.offer /\ d.cols = c.cols
    BY <1>2 DEF Call
  <2>3. Goto(h, d)
    BY <2>1
  <2> HIDE DEF d
  <2>4. CallSeen(d, listings', offers', now')
    BY <1>1, <1>2, <2>2 DEF CallSeen, Sees
  <2> QED BY <1>1, <2>3, <2>4, Looked, NobodyElse DEF SerialInv
<1> QED BY <1>3, <1>4 DEF TellOthers

LEMMA CheckOfferSerial ==
    ASSUME OneAtATime, SwapInv, SerialInv, NEW h \in Handlers, CheckOffer(h)
    PROVE  SerialInv'
<1> DEFINE c == calls[h]
<1>1. /\ At(h, "checkOffer") /\ UNCHANGED <<listings, offers, moved, now>>
      /\ Goto(h, Idle) \/ Advance(h, c)
  BY DEF CheckOffer, tables
<1>2. /\ c \in Call /\ c.todo # <<>> /\ Head(c.todo) = "checkOffer"
      /\ Sees(c, "checkOffer", StepsOf(c.todo), listings, offers, now)
  BY <1>1, AtStep, SeesStep
<1>3. \A s \in After("checkOffer") : Sees(c, s, StepsOf(c.todo) \ {"checkOffer"},
                                          listings', offers', now')
  BY <1>1, <1>2 DEF After, Sees, Saving, NoticeType
<1> QED BY <1>1, <1>2, <1>3, Looked, GivingUpSeen, GoingOnSeen DEF SerialInv

LEMMA InsertOfferSerial ==
    ASSUME OneAtATime, SwapInv, SerialInv, NEW h \in Handlers, NEW o \in OfferIds,
           InsertOffer(h, o)
    PROVE  SerialInv'
<1> DEFINE c == calls[h]
           d == [c EXCEPT !.offer = o, !.entity = Absent]
<1>1. /\ At(h, "insertOffer") /\ StoreOffer(o, c.entity) /\ Advance(h, d)
      /\ UNCHANGED <<listings, moved, now>>
  BY DEF InsertOffer
<1>2. /\ c \in Call /\ c.todo # <<>> /\ Head(c.todo) = "insertOffer"
      /\ c.entity \in SwapOffer /\ c.entity.status = "pending"
  BY <1>1, AtStep DEF Knows
<1>3. \A p \in OfferIds : offers'[p] = offers[p] \/ offers'[p].status = "pending"
  BY <1>1, <1>2 DEF StoreOffer, SwapInv, Tabled
<1>4. ActiveListingsApart' /\ CompletedAfterEnd'
  BY <1>1, <1>3, Timely
<1>5. d \in Call /\ d.todo = c.todo /\ d.entity = Absent
  BY <1>2 DEF Call
<1> HIDE DEF d
<1>6. \A s \in After("insertOffer") : Sees(d, s, StepsOf(d.todo) \ {"insertOffer"},
                                           listings', offers', now')
  BY <1>5 DEF After, Sees, Saving, NoticeType
<1> QED BY <1>1, <1>2, <1>4, <1>5, <1>6, GoingOnSeen DEF SerialInv

LEMMA SelectOfferSerial ==
    ASSUME OneAtATime, SwapInv, SerialInv, NEW h \in Handlers, SelectOffer(h)
    PROVE  SerialInv'
<1> DEFINE c == calls[h]
           cols == Dirty(c.entity, offers[c.offer])
           d == [c EXCEPT !.cols = cols]
<1>1. /\ At(h, "selectOffer") /\ UNCHANGED <<listings, offers, moved, now>>
      /\ Advance(h, d)
  BY DEF SelectOffer, tables
<1>2. /\ c \in Call /\ c.todo # <<>> /\ Head(c.todo) = "selectOffer"
      /\ c.entity \in SwapOffer
      /\ Sees(c, "selectOffer", StepsOf(c.todo), listings, offers, now)
  BY <1>1, AtStep, SeesStep DEF Knows, Saving
<1>3. cols \in SUBSET Columns
  BY <1>2, DirtyColumns
<1>4. /\ d \in Call /\ d.todo = c.todo /\ d.offer = c.offer /\ d.entity = c.entity
      /\ d.cols = Dirty(d.entity, offers[d.offer])
  BY <1>2, <1>3 DEF Call
<1> HIDE DEF d, cols
<1>5. \A s \in After("selectOffer") : Sees(d, s, StepsOf(d.todo) \ {"selectOffer"},
                                           listings', offers', now')
  BY <1>1, <1>2, <1>4 DEF After, Sees, Saving, NoticeType
<1> QED BY <1>1, <1>2, <1>4, <1>5, Looked, GoingOnSeen DEF SerialInv

LEMMA WriteOfferSerial ==
    ASSUME OneAtATime, SwapInv, SerialInv, NEW h \in Handlers, WriteOffer(h)
    PROVE  SerialInv'
<1> DEFINE c == calls[h]
           o == c.offer
           row == Patched(offers[o], c.entity, c.cols)
           d == [c EXCEPT !.entity = Absent, !.cols = {}]
<1>1. /\ At(h, "writeOffer") /\ StoreOffer(o, row) /\ Advance(h, d)
      /\ UNCHANGED <<listings, moved, now>>
  BY DEF WriteOffer
<1>2. /\ c \in Call /\ c.todo # <<>> /\ Head(c.todo) = "writeOffer"
      /\ o \in OfferIds /\ offers[o] # Absent
      /\ c.entity \in SwapOffer /\ c.entity.listing = offers[o].listing
      /\ Sees(c, "writeOffer", StepsOf(c.todo), listings, offers, now)
  BY <1>1, AtStep, SeesStep DEF Knows, Saving
<1>3. offers[o] \in SwapOffer
  BY <1>2, TheOffer DEF SwapInv
<1>4. /\ row.status = IF "status" \in c.cols THEN c.entity.status ELSE offers[o].status
      /\ row.end = IF "end" \in c.cols THEN c.entity.end ELSE offers[o].end
  BY <1>2, <1>3, PatchedOffer
<1> HIDE DEF row
<1>5. row.status = "completed" => now >= row.end
  BY <1>2, <1>4 DEF Sees, Saving
<1>6. \A p \in OfferIds : offers'[p] = offers[p] \/ offers'[p] = row
  BY <1>1, <1>2 DEF StoreOffer, SwapInv, Tabled
<1>7. ActiveListingsApart' /\ CompletedAfterEnd'
  BY <1>1, <1>5, <1>6, Timely
<1>8. d \in Call /\ d.todo = c.todo /\ d.entity = Absent
  BY <1>2 DEF Call
<1> HIDE DEF d
<1>9. \A s \in After("writeOffer") : Sees(d, s, StepsOf(d.todo) \ {"writeOffer"},
                                          listings', offers', now')
  BY <1>8 DEF After, Sees, Saving, NoticeType
<1> QED BY <1>1, <1>2, <1>7, <1>8, <1>9, GoingOnSeen DEF SerialInv

LEMMA MarkListingSerial ==
    ASSUME OneAtATime, SwapInv, SerialInv, NEW h \in Handlers, NEW s, NEW status,
           MarksAs(s, status), MarkListing(h, s, status)
    PROVE  SerialInv'
<1> DEFINE c == calls[h]
           l == c.listing
           row == [listings[l] EXCEPT !.status = status]
<1>1. /\ At(h, s) /\ StoreListing(l, row) /\ Advance(h, c)
      /\ UNCHANGED <<offers, moved, now>>
  BY DEF MarkListing
<1>2. /\ c \in Call /\ c.todo # <<>> /\ Head(c.todo) = s
      /\ Knows(c, s, listings, offers, was)
      /\ Sees(c, s, StepsOf(c.todo), listings, offers, now)
  BY <1>1, AtStep, SeesStep
<1>3. /\ c.offer \in OfferIds /\ offers[c.offer] # Absent /\ l = offers[c.offer].listing
  BY <1>2 DEF Knows, Saving, MarksAs
<1>4. l \in ListingIds /\ listings[l] # Absent
  BY <1>3, TheOffer DEF SwapInv
<1>5. row \in SwapListing /\ row.status # "active"
  BY <1>4, TheListing DEF SwapInv, SwapListing, SwapListingStatus, MarksAs
<1> HIDE DEF row
<1>6. ActiveListingsApart' /\ CompletedAfterEnd'
  BY <1>1, <1>4, <1>5, ApartStored
<1>7. \A t \in After(s) : Sees(c, t, StepsOf(c.todo) \ {s}, listings', offers', now')
  BY <1>1, <1>2 DEF After, Sees, Saving, NoticeType, MarksAs
<1> QED BY <1>1, <1>2, <1>6, <1>7, GoingOnSeen DEF SerialInv

LEMMA RejectOthersSerial ==
    ASSUME OneAtATime, SwapInv, SerialInv, NEW h \in Handlers, RejectOthers(h)
    PROVE  SerialInv'
<1> DEFINE c == calls[h]
<1>1. /\ At(h, "rejectOthers") /\ SetOffers(Rivals(c.offer), "rejected") /\ Advance(h, c)
      /\ UNCHANGED <<listings, moved, now>>
  BY DEF RejectOthers
<1>2. /\ c \in Call /\ c.todo # <<>> /\ Head(c.todo) = "rejectOthers" /\ c.offer \in OfferIds
      /\ Sees(c, "rejectOthers", StepsOf(c.todo), listings, offers, now)
  BY <1>1, AtStep, SeesStep DEF Knows, Saving
<1>3. Rivals(c.offer) \subseteq Offered /\ c.offer \notin Rivals(c.offer)
  BY DEF Rivals, PendingOf, OffersOf, Offered
<1>4. ActiveListingsApart' /\ CompletedAfterEnd'
  BY <1>1, <1>3, OffersSetTimely
<1>5. offers'[c.offer] = offers[c.offer]
  BY <1>1, <1>2, <1>3 DEF SetOffers
<1>6. \A t \in After("rejectOthers") : Sees(c, t, StepsOf(c.todo) \ {"rejectOthers"},
                                            listings', offers', now')
  BY <1>1, <1>2, <1>5 DEF After, Sees, Saving, NoticeType
<1> QED BY <1>1, <1>2, <1>4, <1>6, GoingOnSeen DEF SerialInv

LEMMA CreateDealSerial ==
    ASSUME OneAtATime, SwapInv, SerialInv, NEW h \in Handlers, CreateDeal(h)
    PROVE  SerialInv'
<1> DEFINE c == calls[h]
<1>1. At(h, "deal") /\ Advance(h, c) /\ UNCHANGED <<listings, offers, moved, now>>
  BY DEF CreateDeal
<1>2. /\ c \in Call /\ c.todo # <<>> /\ Head(c.todo) = "deal"
      /\ Sees(c, "deal", StepsOf(c.todo), listings, offers, now)
  BY <1>1, AtStep, SeesStep
<1>3. \A t \in After("deal") : Sees(c, t, StepsOf(c.todo) \ {"deal"},
                                    listings', offers', now')
  BY <1>1, <1>2 DEF After, Sees, Saving, NoticeType
<1> QED BY <1>1, <1>2, <1>3, Looked, GoingOnSeen DEF SerialInv

LEMMA FindRejectedSerial ==
    ASSUME OneAtATime, SwapInv, SerialInv, NEW h \in Handlers, FindRejected(h)
    PROVE  SerialInv'
<1> DEFINE c == calls[h]
           found == {o \in OffersOf(c.listing) \ {c.offer} : offers[o].status = "rejected"}
           d == [c EXCEPT !.others = found]
<1>1. At(h, "findRejected") /\ Advance(h, d) /\ UNCHANGED <<listings, offers, moved, now>>
  BY DEF FindRejected, tables
<1>2. /\ c \in Call /\ c.todo # <<>> /\ Head(c.todo) = "findRejected"
      /\ Sees(c, "findRejected", StepsOf(c.todo), listings, offers, now)
  BY <1>1, AtStep, SeesStep
<1>3. found \in SUBSET OfferIds
  BY DEF OffersOf
<1> HIDE DEF found
<1>4. /\ d \in Call /\ d.todo = c.todo /\ d.listing = c.listing /\ d.entity = c.entity
      /\ d.offer = c.offer /\ d.cols = c.cols
  BY <1>2, <1>3 DEF Call
<1> HIDE DEF d
<1>5. \A s \in After("findRejected") : Sees(d, s, StepsOf(d.todo) \ {"findRejected"},
                                            listings', offers', now')
  BY <1>1, <1>2, <1>4 DEF After, Sees, Saving, NoticeType
<1> QED BY <1>1, <1>2, <1>4, <1>5, Looked, GoingOnSeen DEF SerialInv

LEMMA TellSerial ==
    ASSUME OneAtATime, SwapInv, SerialInv, NEW h \in Handlers, NEW type \in NoticeType,
           Tell(h, type)
    PROVE  SerialInv'
<1> DEFINE c == calls[h]
<1>1. At(h, type) /\ Advance(h, c) /\ UNCHANGED <<listings, offers, moved, now>>
  BY DEF Tell, tables
<1>2. /\ c \in Call /\ c.todo # <<>> /\ Head(c.todo) = type
      /\ Sees(c, type, StepsOf(c.todo), listings, offers, now)
  BY <1>1, AtStep, SeesStep
<1>3. \A t \in After(type) : Sees(c, t, StepsOf(c.todo) \ {type}, listings', offers', now')
  BY <1>1, <1>2 DEF After, Sees, Saving, NoticeType, Winning
<1> QED BY <1>1, <1>2, <1>3, Looked, GoingOnSeen DEF SerialInv

LEMMA TickSerial ==
    ASSUME SwapInv, SerialInv, Tick
    PROVE  SerialInv'
<1>1. UNCHANGED <<listings, offers, moved, calls>>
  BY DEF Tick, tables
<1>2. now \in Time /\ now' \in Time /\ now' >= now
  BY SwapConstants DEF Tick, Time, SwapInv, Counted
<1>3. ActiveListingsApart' /\ CompletedAfterEnd'
  BY <1>1, <1>2, ApartStays DEF SerialInv
<1>4. ASSUME NEW h \in Handlers PROVE CallSeen(calls[h], listings, offers, now')
  <2> DEFINE c == calls[h]
             s == Head(c.todo)
  <2> SUFFICES ASSUME c.todo # <<>> PROVE Sees(c, s, StepsOf(c.todo), listings, offers, now')
    BY DEF CallSeen
  <2>1. Sees(c, s, StepsOf(c.todo), listings, offers, now) /\ Knows(c, s, listings, offers, was)
    BY DEF SerialInv, CallsSeen, CallSeen, SwapInv, CallsBacked, CallBacked
  <2>2. s \in Saving /\ c.entity.status = "completed" => now' >= c.entity.end
    <3> SUFFICES ASSUME s \in Saving, c.entity.status = "completed" PROVE now' >= c.entity.end
      OBVIOUS
    <3>1. now >= c.entity.end /\ c.entity.end \in Time
      BY <2>1 DEF Sees, Knows, SwapOffer
    <3> QED BY <1>2, <3>1 DEF Time
  <2> HIDE DEF c, s
  <2> QED BY <2>1, <2>2 DEF Sees
<1> QED BY <1>1, <1>3, <1>4 DEF SerialInv, CallsSeen

LEMMA SerialInit == Init => SerialInv
<1> SUFFICES ASSUME Init PROVE SerialInv
  OBVIOUS
<1>1. Listed = {} /\ Offered = {}
  BY DEF Init, Listed, Offered
<1>2. ActiveListingsApart /\ CompletedAfterEnd
  BY <1>1 DEF ActiveListingsApart, CompletedAfterEnd
<1>3. CallsSeen
  BY DEF Init, CallsSeen, CallSeen, Idle
<1> QED BY <1>2, <1>3 DEF SerialInv

LEMMA RequestSerial ==
    ASSUME OneAtATime, SwapInv, SerialInv, NEW h \in Handlers, NEW u \in Users, Request(h, u)
    PROVE  SerialInv'
<1>1. ASSUME NEW s \in Time, NEW e \in Time, NEW priced \in BOOLEAN,
             \/ \E p \in Spots :
                    \/ CreateListing(h, u, p, s, e, priced)
                    \/ \E l \in ListingIds : UpdateListing(h, u, l, p, s, e, priced)
             \/ \E l \in ListingIds : CreateOffer(h, u, l, s, e, priced)
             \/ \E o \in OfferIds : UpdateOffer(h, u, o, s, e, priced)
      PROVE  SerialInv'
  BY <1>1, CreateListingSerial, UpdateListingSerial, CreateOfferSerial, UpdateOfferSerial
<1>2. ASSUME NEW l \in ListingIds, CancelListing(h, u, l) PROVE SerialInv'
  BY <1>2, CancelListingSerial
<1>3. ASSUME NEW o \in OfferIds,
             \/ CancelOffer(h, u, o)
             \/ \E accept \in BOOLEAN : RespondToOffer(h, u, o, accept)
             \/ CompleteSwap(h, u, o)
      PROVE  SerialInv'
  BY <1>3, CancelOfferSerial, RespondToOfferSerial, CompleteSwapSerial
<1> QED BY <1>1, <1>2, <1>3 DEF Request

LEMMA StepSerial ==
    ASSUME OneAtATime, SwapInv, SerialInv, NEW h \in Handlers, Step(h)
    PROVE  SerialInv'
<1>1. CASE CheckListing(h) \/ \E l \in ListingIds : InsertListing(h, l)
  BY <1>1, CheckListingSerial, InsertListingSerial
<1>2. CASE SelectListing(h) \/ WriteListing(h)
  BY <1>2, SelectListingSerial, WriteListingSerial
<1>3. CASE CancelOffers(h) \/ RejectOthers(h)
  BY <1>3, CancelOffersSerial, RejectOthersSerial
<1>4. CASE TellOthers(h, "tellCancelled", "cancelled") \/ TellOthers(h, "tellRejected", "rejected")
  BY <1>4, TellOthersSerial DEF NoticeType
<1>5. CASE CheckOffer(h) \/ \E o \in OfferIds : InsertOffer(h, o)
  BY <1>5, CheckOfferSerial, InsertOfferSerial
<1>6. CASE SelectOffer(h) \/ WriteOffer(h)
  BY <1>6, SelectOfferSerial, WriteOfferSerial
<1>7. CASE MarkListing(h, "book", "booked") \/ MarkListing(h, "complete", "completed")
  <2>1. CASE MarkListing(h, "book", "booked")
    BY <2>1, MarkListingSerial DEF MarksAs
  <2>2. CASE MarkListing(h, "complete", "completed")
    BY <2>2, MarkListingSerial DEF MarksAs
  <2> QED BY <1>7, <2>1, <2>2
<1>8. CASE CreateDeal(h) \/ FindRejected(h)
  BY <1>8, CreateDealSerial, FindRejectedSerial
<1>9. CASE \E type \in NoticeType : Tell(h, type)
  BY <1>9, TellSerial
<1> QED BY <1>1, <1>2, <1>3, <1>4, <1>5, <1>6, <1>7, <1>8, <1>9 DEF Step

LEMMA SerialNext ==
    ASSUME OneAtATime, SwapInv, SerialInv, [Next]_swapVars
    PROVE  SerialInv'
<1>1. ASSUME NEW h \in Handlers, NEW u \in Users, Request(h, u) PROVE SerialInv'
  BY <1>1, RequestSerial
<1>2. ASSUME NEW h \in Handlers, Step(h) PROVE SerialInv'
  BY <1>2, StepSerial
<1>3. ASSUME NEW h \in Handlers, Fail(h) PROVE SerialInv'
  <2>1. UNCHANGED <<listings, offers, moved, now>> /\ Goto(h, Idle)
    BY <1>3 DEF Fail, tables
  <2> QED BY <2>1, Looked, GivingUpSeen DEF SerialInv
<1>4. CASE UNCHANGED swapVars
  <2>1. UNCHANGED <<listings, offers, moved, now>> /\ UNCHANGED calls
    BY <1>4 DEF swapVars, tables
  <2> QED BY <2>1, Looked DEF SerialInv, CallsSeen
<1> QED BY <1>1, <1>2, <1>3, <1>4, TickSerial DEF Next

\* With one request at a time, the listings that meet, the offers that are
\* completed and the handlers are as SerialInv says, also when handlers die.
THEOREM SerialInvariance == ASSUME OneAtATime PROVE Spec => []SerialInv
<1>1. Init => SerialInv
  BY SerialInit
<1>2. SwapInv /\ SerialInv /\ [Next]_swapVars => SerialInv'
  BY SerialNext
<1> QED BY <1>1, <1>2, SwapInvariance, PTL DEF Spec

\* Then active listings of the spot do not meet, unless updateListing moved one
\* of them: createListing's check is not overtaken.
THEOREM ListingsStayApart == ASSUME OneAtATime PROVE Spec => []ActiveListingsApart
<1>1. SerialInv => ActiveListingsApart
  BY DEF SerialInv
<1> QED BY <1>1, SerialInvariance, PTL

\* Then no exchange is completed before the end of the period its offer is for:
\* the save at the end of completeSwap stores the period that was checked.
THEOREM CompletionsAreTimely == ASSUME OneAtATime PROVE Spec => []CompletedAfterEnd
<1>1. SerialInv => CompletedAfterEnd
  BY DEF SerialInv
<1> QED BY <1>1, SerialInvariance, PTL

----------------------------------------------------------------------------
(* The market as one handler at work shows it                              *)

\* The handler has won the listing for its offer, has still to turn down the
\* others, or has still to cancel the offers of the listing it withdrew.
Won(c) == /\ c.entity # Absent
          /\ c.entity.status \in Winning
          /\ StepsOf(c.todo) \cap {"book", "complete"} = {}
Turning(c) == Won(c) /\ "rejectOthers" \in StepsOf(c.todo)
Clearing(c) == "cancelOffers" \in StepsOf(c.todo) /\ "writeListing" \notin StepsOf(c.todo)

View(c, os, o) ==
    IF os[o] = Absent THEN "none"
    ELSE IF Won(c) /\ c.offer = o THEN c.entity.status
    ELSE IF /\ Turning(c) /\ os[o].listing = os[c.offer].listing
            /\ os[o].status = "pending" /\ o # c.offer
    THEN "rejected"
    ELSE IF Clearing(c) /\ os[o].listing = c.listing /\ os[o].status = "pending"
    THEN "cancelled"
    ELSE os[o].status

Owing(c, ds) ==
    {o \in OfferIds : \/ ds[o] > 0
                      \/ Won(c) /\ c.offer = o /\ "deal" \in StepsOf(c.todo)}

MListing == [l \in ListingIds |-> IF listings[l] = Absent THEN "none" ELSE listings[l].status]
MOffer == [o \in OfferIds |-> Outcome(o)]
MTarget == [o \in OfferIds |-> IF offers[o] = Absent THEN NoId ELSE offers[o].listing]
MOwed == {o \in OfferIds : \/ deals[o] > 0
                           \/ \E h \in Handlers : /\ Committed(h) /\ calls[h].offer = o
                                                  /\ "deal" \in Ahead(h)}

OffersSeen == \A h \in Handlers : MOffer = [o \in OfferIds |-> View(calls[h], offers, o)]
DealsSeen == \A h \in Handlers : MOwed = Owing(calls[h], deals)

LEMMA MarketSeen == ASSUME OneAtATime PROVE OffersSeen /\ DealsSeen
<1> SUFFICES ASSUME NEW h \in Handlers
             PROVE  /\ MOffer = [o \in OfferIds |-> View(calls[h], offers, o)]
                    /\ MOwed = Owing(calls[h], deals)
  BY DEF OffersSeen, DealsSeen
<1> DEFINE c == calls[h]
<1>1. \A g \in Handlers : g = h
  BY DEF OneAtATime
<1>2. Committed(h) <=> Won(c)
  BY DEF Committed, Won, Ahead, StepsOf, Winning
<1>3. Ahead(h) = StepsOf(c.todo)
  BY DEF Ahead, StepsOf
<1>4. ASSUME NEW o \in OfferIds PROVE Outcome(o) = View(c, offers, o)
  <2> DEFINE g == CHOOSE g \in Handlers : Committed(g) /\ calls[g].offer = o
  <2>1. (\E x \in Handlers : Committed(x) /\ calls[x].offer = o) <=> (Won(c) /\ c.offer = o)
    BY <1>1, <1>2
  <2>2. (\E x \in Handlers : Committed(x) /\ calls[x].offer = o) => g = h
    BY <1>1
  <2>3. offers[o] # Absent =>
          ((\E x \in Handlers : /\ Committed(x) /\ "rejectOthers" \in Ahead(x)
                                /\ o \in Rivals(calls[x].offer))
            <=> (/\ Turning(c) /\ offers[o].listing = offers[c.offer].listing
                 /\ offers[o].status = "pending" /\ o # c.offer))
    BY <1>1, <1>2, <1>3 DEF Turning, Rivals, PendingOf, OffersOf
  <2>4. offers[o] # Absent =>
          ((\E x \in Handlers : /\ "cancelOffers" \in Ahead(x)
                                /\ "writeListing" \notin Ahead(x)
                                /\ o \in PendingOf(calls[x].listing))
            <=> (/\ Clearing(c) /\ offers[o].listing = c.listing
                 /\ offers[o].status = "pending"))
    BY <1>1, <1>3 DEF Clearing, PendingOf, OffersOf
  <2> HIDE DEF c, g
  <2>5. CASE offers[o] = Absent
    BY <2>5 DEF Outcome, View
  <2>6. CASE offers[o] # Absent /\ Won(c) /\ c.offer = o
    BY <2>1, <2>2, <2>6 DEF Outcome, View, g, c
  <2>7. CASE offers[o] # Absent /\ ~ (Won(c) /\ c.offer = o)
    BY <2>1, <2>3, <2>4, <2>7 DEF Outcome, View
  <2> QED BY <2>5, <2>6, <2>7 DEF c
<1>5. MOffer = [o \in OfferIds |-> View(c, offers, o)]
  BY <1>4 DEF MOffer
<1>6. MOwed = Owing(c, deals)
  BY <1>1, <1>2, <1>3 DEF MOwed, Owing
<1> QED BY <1>5, <1>6

LEMMA MarketSeenNext == ASSUME OneAtATime PROVE (OffersSeen /\ DealsSeen)'
<1>1. OffersSeen /\ DealsSeen
  BY MarketSeen
<1> QED BY <1>1, PTL

\* What a handler at await s shows of itself.
PhaseIs(c, s) ==
    /\ Won(c) <=>
          \/ s \in {"rejectOthers", "deal", "accepted", "findRejected", "tellRejected"}
          \/ s \in {"selectOffer", "writeOffer"} /\ c.entity.status \in Winning
    /\ Turning(c) <=> s = "rejectOthers"
    /\ Clearing(c) <=> s = "cancelOffers"
    /\ (Won(c) /\ "deal" \in StepsOf(c.todo)) => s \in {"rejectOthers", "deal"}

LEMMA Phase ==
    ASSUME NEW c \in Call, c.todo # <<>>, NEW s, s = Head(c.todo), NEW ls, NEW os, NEW w, NEW t,
           Knows(c, s, ls, os, w), Sees(c, s, StepsOf(c.todo), ls, os, t)
    PROVE  PhaseIs(c, s)
<1> DEFINE ahead == StepsOf(c.todo)
<1>1. /\ s \in ahead /\ s \in Steps
      /\ \A x : (x \in ahead /\ x # s) => Rank(s) < Rank(x)
  <2>1. Chain(c.todo)
    BY DEF Call
  <2> QED BY <2>1, StepsAhead, ChainTail
<1>2. (Len(c.todo) # 1 /\ s = "selectListing") => "writeListing" \in ahead
  <2> SUFFICES ASSUME Len(c.todo) # 1, s = "selectListing" PROVE "writeListing" \in ahead
    OBVIOUS
  <2>1. Chain(c.todo)
    BY DEF Call
  <2>2. Tail(c.todo) # <<>> /\ Head(Tail(c.todo)) = "writeListing" /\ Chain(Tail(c.todo))
    BY <2>1, ChainTail DEF After
  <2>3. "writeListing" \in StepsOf(Tail(c.todo)) /\ StepsOf(Tail(c.todo)) \subseteq ahead
    BY <2>1, <2>2, StepsAhead
  <2> QED BY <2>3
<1>3. (Len(c.todo) = 1) => ahead = {s}
  BY StepsAhead DEF Call
<1>4. s \in {"rejectOthers", "deal", "accepted", "findRejected", "tellRejected", "selectOffer",
             "writeOffer"} => "book" \notin ahead /\ "complete" \notin ahead
  BY <1>1 DEF Rank
<1>5. s \in Saving \ {"book", "rejectOthers", "rejected", "complete"} => "rejectOthers" \notin ahead
  BY <1>1 DEF Rank, Saving
<1>6. s \in {"accepted", "findRejected", "tellRejected", "selectOffer", "writeOffer"} =>
        "deal" \notin ahead
  BY <1>1 DEF Rank
<1>7. "cancelOffers" \in ahead => s \in {"selectListing", "writeListing", "cancelOffers"}
  BY <1>1 DEF Rank
<1>8. s = "cancelOffers" => "writeListing" \notin ahead
  BY <1>1 DEF Rank
<1>9. s \in Saving => c.entity # Absent
  BY AbsentIsNoSwap DEF Knows
<1> HIDE DEF ahead
<1>10. Clearing(c) <=> s = "cancelOffers"
  BY <1>1, <1>2, <1>3, <1>7, <1>8 DEF Clearing, ahead
<1>11. CASE s \in {"rejectOthers", "deal", "accepted", "findRejected", "tellRejected"}
  <2>1. c.entity.status \in Winning /\ c.entity # Absent
    BY <1>9, <1>11 DEF Sees, Saving, Winning
  <2>2. Won(c)
    BY <1>4, <1>11, <2>1 DEF Won, ahead
  <2>3. Turning(c) <=> s = "rejectOthers"
    BY <1>1, <1>5, <1>11, <2>2 DEF Turning, ahead, Saving
  <2>4. "deal" \in ahead => s \in {"rejectOthers", "deal"}
    BY <1>6, <1>11
  <2> QED BY <1>10, <1>11, <2>2, <2>3, <2>4 DEF PhaseIs, ahead
<1>12. CASE s \in {"selectOffer", "writeOffer"}
  <2>1. Won(c) <=> c.entity.status \in Winning
    BY <1>4, <1>9, <1>12 DEF Won, ahead, Saving
  <2>2. ~ Turning(c) /\ "deal" \notin ahead
    BY <1>5, <1>6, <1>12 DEF Turning, ahead, Saving
  <2> QED BY <1>10, <1>12, <2>1, <2>2 DEF PhaseIs, ahead
<1>13. CASE s \in {"book", "complete"}
  <2>1. ~ Won(c)
    BY <1>1, <1>13 DEF Won, ahead
  <2> QED BY <1>10, <1>13, <2>1 DEF PhaseIs, Turning
<1>14. CASE s \in {"checkListing", "insertListing", "selectListing", "writeListing", "checkOffer",
                   "insertOffer", "rejected"}
  <2>1. c.entity.status \notin Winning
    BY <1>14 DEF Winning, Knows, Sees
  <2>2. ~ Won(c)
    BY <2>1 DEF Won
  <2> QED BY <1>10, <1>14, <2>2 DEF PhaseIs, Turning
<1>15. CASE s \in ({"cancelOffers", "tellCancelled"} \cup NoticeType) \ Saving
  <2>1. ~ Won(c)
    BY <1>15 DEF Won, Sees
  <2>2. s \notin {"rejectOthers", "deal", "accepted", "findRejected", "tellRejected",
                  "selectOffer", "writeOffer"}
    BY <1>15 DEF Saving
  <2> QED BY <1>10, <2>1, <2>2 DEF PhaseIs, Turning
<1> QED BY <1>1, <1>11, <1>12, <1>13, <1>14, <1>15 DEF Steps, Saving

----------------------------------------------------------------------------
(* What a step of the handler does to the market                           *)

MarketStep == [Market!Next]_Market!marketVars

Quiet(c) == ~ Won(c) /\ ~ Clearing(c)

\* The status of an offer, or none.
Plain(os, o) == IF os[o] = Absent THEN "none" ELSE os[o].status

LEMMA QuietView ==
    ASSUME NEW c, Quiet(c), NEW os, NEW ds
    PROVE  /\ \A o : View(c, os, o) = Plain(os, o)
           /\ Owing(c, ds) = {o \in OfferIds : ds[o] > 0}
<1>1. \A o : View(c, os, o) = Plain(os, o)
  BY DEF Quiet, View, Plain, Turning
<1>2. Owing(c, ds) = {o \in OfferIds : ds[o] > 0}
  BY DEF Quiet, Owing
<1> QED BY <1>1, <1>2

LEMMA IdleQuiet == Quiet(Idle)
<1>1. StepsOf(Idle.todo) = {} /\ Idle.entity = Absent
  BY DEF Idle, StepsOf
<1> QED BY <1>1 DEF Quiet, Won, Clearing

\* The market before and after a step, seen through the handler.
LEMMA MarketBefore ==
    ASSUME OneAtATime, NEW h \in Handlers
    PROVE  /\ MOffer = [o \in OfferIds |-> View(calls[h], offers, o)]
           /\ MOwed = Owing(calls[h], deals)
BY MarketSeen DEF OffersSeen, DealsSeen

LEMMA MarketAfter ==
    ASSUME OneAtATime, NEW h \in Handlers
    PROVE  /\ MOffer' = [o \in OfferIds |-> View(calls'[h], offers', o)]
           /\ MOwed' = Owing(calls'[h], deals')
BY MarketSeenNext DEF OffersSeen, DealsSeen

LEMMA MarketStays ==
    ASSUME MListing' = MListing, MOffer' = MOffer, MTarget' = MTarget, MOwed' = MOwed
    PROVE  MarketStep
BY DEF MarketStep, Market!marketVars, MListing, MOffer, MTarget, MOwed

\* Neither the tables nor what the handler shows of itself changes.
LEMMA SameView ==
    ASSUME OneAtATime, NEW h \in Handlers, UNCHANGED <<listings, offers, deals>>,
           NEW c, c = calls[h], NEW d, d = calls'[h],
           \A o \in OfferIds : View(d, offers, o) = View(c, offers, o),
           Owing(d, deals) = Owing(c, deals)
    PROVE  MarketStep
<1>1. MOffer' = MOffer
  BY MarketBefore, MarketAfter
<1>2. MOwed' = MOwed
  BY MarketBefore, MarketAfter
<1>3. MListing' = MListing /\ MTarget' = MTarget
  BY DEF MListing, MTarget
<1> QED BY <1>1, <1>2, <1>3, MarketStays

LEMMA QuietStep ==
    ASSUME OneAtATime, NEW h \in Handlers, UNCHANGED <<listings, offers, deals>>,
           Quiet(calls[h]), Quiet(calls'[h])
    PROVE  MarketStep
<1> DEFINE c == calls[h]
           d == calls'[h]
<1>1. \A o \in OfferIds : View(d, offers, o) = View(c, offers, o)
  BY QuietView
<1>2. Owing(d, deals) = Owing(c, deals)
  BY QuietView
<1> QED BY <1>1, <1>2, SameView

\* A handler goes from await s to the next one, or is done.
Onward(c, d, s) ==
    \/ d = Idle /\ StepsOf(c.todo) = {s}
    \/ /\ d.todo # <<>> /\ Head(d.todo) \in After(s)
       /\ StepsOf(d.todo) = StepsOf(c.todo) \ {s}
       /\ d.offer = c.offer /\ d.listing = c.listing /\ d.entity = c.entity

LEMMA Onwards ==
    ASSUME SwapInv, NEW h \in Handlers, NEW c \in Call, c.todo # <<>>, Advance(h, c)
    PROVE  Onward(c, calls'[h], Head(c.todo))
<1>1. calls'[h] = Rest(c)
  BY DEF Advance, Goto, Rest, SwapInv
<1>2. Chain(c.todo)
  BY DEF Call
<1>3. CASE Len(c.todo) = 1
  BY <1>1, <1>2, <1>3, StepsAhead DEF Rest, Onward
<1>4. CASE Len(c.todo) # 1
  <2> DEFINE d == [c EXCEPT !.todo = Tail(c.todo)]
  <2>1. calls'[h] = d
    BY <1>1, <1>4 DEF Rest
  <2>2. d.todo = Tail(c.todo) /\ d.offer = c.offer /\ d.listing = c.listing /\ d.entity = c.entity
    BY DEF Call
  <2> HIDE DEF d
  <2>3. Tail(c.todo) # <<>> /\ Head(Tail(c.todo)) \in After(Head(c.todo))
    BY <1>2, <1>4, ChainTail
  <2>4. StepsOf(Tail(c.todo)) = StepsOf(c.todo) \ {Head(c.todo)}
    BY <1>2, <1>4, StepsAhead
  <2> QED BY <2>1, <2>2, <2>3, <2>4 DEF Onward
<1> QED BY <1>3, <1>4

\* What the invariants say of the phase of a handler.
LEMMA PhaseBefore ==
    ASSUME SwapInv, SerialInv, NEW h \in Handlers, NEW s, At(h, s)
    PROVE  PhaseIs(calls[h], s)
BY AtStep, SeesStep, Phase

LEMMA PhaseAfter ==
    ASSUME SwapInv', SerialInv', NEW h \in Handlers, calls'[h].todo # <<>>
    PROVE  PhaseIs(calls'[h], Head(calls'[h].todo))
<1> DEFINE d == calls'[h]
           s == Head(d.todo)
<1>1. d \in Call
  BY DEF SwapInv
<1>2. Knows(d, s, listings', offers', was')
  BY DEF SwapInv, CallsBacked, CallBacked
<1>3. Sees(d, s, StepsOf(d.todo), listings', offers', now')
  BY DEF SerialInv, CallsSeen, CallSeen
<1> HIDE DEF d
<1> QED BY <1>1, <1>2, <1>3, Phase DEF d

\* The awaits at which a handler shows nothing that the tables do not show.
Quietly == {"checkListing", "insertListing", "selectListing", "writeListing", "tellCancelled",
            "checkOffer", "insertOffer", "book", "rejected", "complete", "new", "updated",
            "withdrawn", "cancelled", "completed"}

LEMMA QuietBefore ==
    ASSUME SwapInv, SerialInv, NEW h \in Handlers, NEW s \in Quietly, At(h, s)
    PROVE  Quiet(calls[h])
BY PhaseBefore DEF PhaseIs, Quiet, Quietly

LEMMA QuietAfter ==
    ASSUME SwapInv', SerialInv', NEW h \in Handlers,
           \/ calls'[h] = Idle
           \/ /\ calls'[h].todo # <<>>
              /\ \/ Head(calls'[h].todo) \in Quietly
                 \/ /\ Head(calls'[h].todo) \in {"selectOffer", "writeOffer"}
                    /\ calls'[h].entity.status \notin Winning
    PROVE  Quiet(calls'[h])
<1>1. CASE calls'[h] = Idle
  BY <1>1, IdleQuiet
<1>2. CASE calls'[h].todo # <<>>
  BY <1>2, PhaseAfter, IdleQuiet DEF PhaseIs, Quiet, Quietly
<1> QED BY <1>1, <1>2

\* The handler starts with an await that shows nothing yet.
LEMMA StartingMarket ==
    ASSUME OneAtATime, SwapInv, SwapInv', SerialInv', NEW h \in Handlers, NEW op,
           Accept(h, op), NEW c, Goto(h, c), NEW s, NEW z, Links(c.todo, s, z),
           s \in Quietly \/ (s = "selectOffer" /\ c.entity.status \notin Winning)
    PROVE  MarketStep
<1>1. calls[h] = Idle /\ UNCHANGED <<listings, offers, deals>>
  BY DEF Accept, tables
<1>2. calls'[h] = c /\ c.todo # <<>> /\ Head(c.todo) = s
  BY DEF Goto, SwapInv, Links
<1>3. Quiet(calls'[h])
  BY <1>2, QuietAfter
<1> QED BY <1>1, <1>3, IdleQuiet, QuietStep

LEMMA RequestMarket ==
    ASSUME OneAtATime, SwapInv, SerialInv, SwapInv', SerialInv', NEW h \in Handlers,
           NEW u \in Users, Request(h, u)
    PROVE  MarketStep
<1>1. ASSUME NEW s \in Time, NEW e \in Time, NEW priced \in BOOLEAN, NEW p \in Spots,
             CreateListing(h, u, p, s, e, priced)
      PROVE  MarketStep
  <2> DEFINE todo == <<"checkListing", "insertListing">>
             c == [Idle EXCEPT !.todo = todo,
                      !.entity = [user |-> u, parking |-> p, start |-> s, end |-> e,
                                  priced |-> priced, status |-> "active"]]
  <2>1. Accept(h, "list") /\ Goto(h, c)
    BY <1>1 DEF CreateListing
  <2>2. c.todo = todo
    BY DEF Idle
  <2> HIDE DEF c
  <2>3. Links(c.todo, "checkListing", "insertListing") /\ "checkListing" \in Quietly
    BY <2>2, Programs DEF Quietly
  <2> QED BY <2>1, <2>3, StartingMarket
<1>2. ASSUME NEW s \in Time, NEW e \in Time, NEW priced \in BOOLEAN, NEW l \in ListingIds,
             NEW p \in Spots, UpdateListing(h, u, l, p, s, e, priced)
      PROVE  MarketStep
  <2> DEFINE c == [Idle EXCEPT !.todo = SaveListing, !.listing = l, !.seen = OffersOf(l),
                      !.entity = [listings[l] EXCEPT !.parking = p, !.start = s, !.end = e,
                                   !.priced = priced]]
  <2>1. Accept(h, "relist") /\ Goto(h, c)
    BY <1>2 DEF UpdateListing
  <2>2. c.todo = SaveListing
    BY DEF Idle
  <2> HIDE DEF c
  <2>3. Links(c.todo, "selectListing", "writeListing") /\ "selectListing" \in Quietly
    BY <2>2, Programs DEF Quietly
  <2> QED BY <2>1, <2>3, StartingMarket
<1>3. ASSUME NEW l \in ListingIds, CancelListing(h, u, l)
      PROVE  MarketStep
  <2> DEFINE todo == SaveListing \o <<"cancelOffers", "tellCancelled">>
             c == [Idle EXCEPT !.todo = todo, !.listing = l, !.seen = OffersOf(l),
                      !.others = PendingOf(l),
                      !.entity = [listings[l] EXCEPT !.status = "cancelled"]]
  <2>1. Accept(h, "unlist") /\ Goto(h, c)
    BY <1>3 DEF CancelListing
  <2>2. c.todo = todo
    BY DEF Idle
  <2> HIDE DEF c
  <2>3. Links(c.todo, "selectListing", "tellCancelled") /\ "selectListing" \in Quietly
    BY <2>2, Programs DEF Quietly
  <2> QED BY <2>1, <2>3, StartingMarket
<1>4. ASSUME NEW s \in Time, NEW e \in Time, NEW priced \in BOOLEAN, NEW l \in ListingIds,
             CreateOffer(h, u, l, s, e, priced)
      PROVE  MarketStep
  <2> DEFINE todo == <<"checkOffer", "insertOffer", "new">>
             c == [Idle EXCEPT !.todo = todo,
                      !.entity = [listing |-> l, user |-> u, start |-> s, end |-> e,
                                  priced |-> priced \/ listings[l].priced,
                                  status |-> "pending"]]
  <2>1. Accept(h, "offer") /\ Goto(h, c)
    BY <1>4 DEF CreateOffer
  <2>2. c.todo = todo
    BY DEF Idle
  <2> HIDE DEF c
  <2>3. Links(c.todo, "checkOffer", "new") /\ "checkOffer" \in Quietly
    BY <2>2, Programs DEF Quietly
  <2> QED BY <2>1, <2>3, StartingMarket
<1>5. ASSUME NEW s \in Time, NEW e \in Time, NEW priced \in BOOLEAN, NEW o \in OfferIds,
             UpdateOffer(h, u, o, s, e, priced)
      PROVE  MarketStep
  <2> DEFINE todo == SaveOffer \o <<"updated">>
             row == [offers[o] EXCEPT !.start = s, !.end = e, !.priced = priced]
             c == [Idle EXCEPT !.todo = todo, !.offer = o, !.entity = row]
  <2>1. /\ Accept(h, "reoffer") /\ Goto(h, c)
        /\ offers[o] # Absent /\ offers[o].status = "pending"
    BY <1>5 DEF UpdateOffer, PendingOffer
  <2>2. row.status \notin Winning
    BY <2>1, TheOffer DEF SwapInv, SwapOffer, Winning
  <2> HIDE DEF row
  <2>3. c.todo = todo /\ c.entity = row
    BY DEF Idle
  <2> HIDE DEF c
  <2>4. Links(c.todo, "selectOffer", "updated")
    BY <2>3, Programs
  <2> QED BY <2>1, <2>2, <2>3, <2>4, StartingMarket
<1>6. ASSUME NEW o \in OfferIds, CancelOffer(h, u, o)
      PROVE  MarketStep
  <2> DEFINE todo == SaveOffer \o <<"withdrawn">>
             row == [offers[o] EXCEPT !.status = "cancelled"]
             c == [Idle EXCEPT !.todo = todo, !.offer = o, !.entity = row]
  <2>1. Accept(h, "withdraw") /\ Goto(h, c) /\ offers[o] # Absent
    BY <1>6 DEF CancelOffer, PendingOffer
  <2>2. row.status \notin Winning
    BY <2>1, TheOffer DEF SwapInv, SwapOffer, Winning
  <2> HIDE DEF row
  <2>3. c.todo = todo /\ c.entity = row
    BY DEF Idle
  <2> HIDE DEF c
  <2>4. Links(c.todo, "selectOffer", "withdrawn")
    BY <2>3, Programs
  <2> QED BY <2>1, <2>2, <2>3, <2>4, StartingMarket
<1>7. ASSUME NEW o \in OfferIds, NEW accept \in BOOLEAN, RespondToOffer(h, u, o, accept)
      PROVE  MarketStep
  <2> DEFINE todo == IF accept THEN AcceptSteps(offers[o]) ELSE <<"rejected">> \o SaveOffer
             s == IF accept THEN "book" ELSE "rejected"
             row == [offers[o] EXCEPT !.status = IF accept THEN "accepted" ELSE "rejected"]
             c == [Idle EXCEPT !.todo = todo, !.listing = offers[o].listing, !.offer = o,
                      !.entity = row]
  <2>1. Accept(h, "respond") /\ Goto(h, c)
    BY <1>7 DEF RespondToOffer
  <2>2. c.todo = todo
    BY DEF Idle
  <2> HIDE DEF c
  <2>3. Links(c.todo, s, "writeOffer") /\ s \in Quietly
    BY <2>2, Programs DEF Quietly
  <2> HIDE DEF s
  <2> QED BY <2>1, <2>3, StartingMarket
<1>8. ASSUME NEW o \in OfferIds, CompleteSwap(h, u, o)
      PROVE  MarketStep
  <2> DEFINE c == [Idle EXCEPT !.todo = CompleteSteps, !.listing = offers[o].listing, !.offer = o,
                      !.entity = [offers[o] EXCEPT !.status = "completed"]]
  <2>1. Accept(h, "complete") /\ Goto(h, c)
    BY <1>8 DEF CompleteSwap
  <2>2. c.todo = CompleteSteps
    BY DEF Idle
  <2> HIDE DEF c
  <2>3. Links(c.todo, "complete", "completed") /\ "complete" \in Quietly
    BY <2>2, Programs DEF Quietly
  <2> QED BY <2>1, <2>3, StartingMarket
<1> QED BY <1>1, <1>2, <1>3, <1>4, <1>5, <1>6, <1>7, <1>8 DEF Request

\* The handler shows nothing before and after, and leaves the tables alone.
LEMMA QuietMoves ==
    ASSUME OneAtATime, SwapInv, SerialInv, SwapInv', SerialInv', NEW h \in Handlers,
           UNCHANGED <<listings, offers, deals>>, Quiet(calls[h]),
           NEW s, Goto(h, Idle) \/ Onward(calls[h], calls'[h], s),
           \A t \in After(s) : \/ t \in Quietly
                               \/ /\ t \in {"selectOffer", "writeOffer"}
                                  /\ calls[h].entity.status \notin Winning
    PROVE  MarketStep
<1>1. Goto(h, Idle) => calls'[h] = Idle
  BY DEF Goto, SwapInv
<1>2. Quiet(calls'[h])
  BY <1>1, QuietAfter DEF Onward
<1> QED BY <1>2, QuietStep

LEMMA CheckListingMarket ==
    ASSUME OneAtATime, SwapInv, SerialInv, SwapInv', SerialInv', NEW h \in Handlers,
           CheckListing(h)
    PROVE  MarketStep
<1>1. /\ At(h, "checkListing") /\ UNCHANGED <<listings, offers, deals>>
      /\ Goto(h, Idle) \/ Advance(h, calls[h])
  BY DEF CheckListing, tables
<1>2. Goto(h, Idle) \/ Onward(calls[h], calls'[h], "checkListing")
  BY <1>1, AtStep, Onwards
<1>3. Quiet(calls[h]) /\ \A t \in After("checkListing") : t \in Quietly
  BY <1>1, QuietBefore DEF Quietly, After
<1> QED BY <1>1, <1>2, <1>3, QuietMoves

LEMMA CheckOfferMarket ==
    ASSUME OneAtATime, SwapInv, SerialInv, SwapInv', SerialInv', NEW h \in Handlers,
           CheckOffer(h)
    PROVE  MarketStep
<1>1. /\ At(h, "checkOffer") /\ UNCHANGED <<listings, offers, deals>>
      /\ Goto(h, Idle) \/ Advance(h, calls[h])
  BY DEF CheckOffer, tables
<1>2. Goto(h, Idle) \/ Onward(calls[h], calls'[h], "checkOffer")
  BY <1>1, AtStep, Onwards
<1>3. Quiet(calls[h]) /\ \A t \in After("checkOffer") : t \in Quietly
  BY <1>1, QuietBefore DEF Quietly, After
<1> QED BY <1>1, <1>2, <1>3, QuietMoves

LEMMA SelectListingMarket ==
    ASSUME OneAtATime, SwapInv, SerialInv, SwapInv', SerialInv', NEW h \in Handlers,
           SelectListing(h)
    PROVE  MarketStep
<1> DEFINE c == calls[h]
           cols == Dirty(c.entity, listings[c.listing])
           d == [c EXCEPT !.cols = cols]
<1>1. /\ At(h, "selectListing") /\ UNCHANGED <<listings, offers, deals>>
      /\ Goto(h, Idle) \/ Advance(h, d)
  BY DEF SelectListing, tables
<1>2. /\ c \in Call /\ c.todo # <<>> /\ Head(c.todo) = "selectListing"
      /\ c.entity \in SwapListing
  BY <1>1, AtStep DEF Knows
<1>3. cols \in SUBSET Columns
  BY <1>2, DirtyColumns
<1> HIDE DEF cols
<1>4. /\ d \in Call /\ d.todo = c.todo /\ d.listing = c.listing /\ d.entity = c.entity
      /\ d.offer = c.offer
  BY <1>2, <1>3 DEF Call
<1> HIDE DEF d
<1>5. Goto(h, Idle) \/ Onward(d, calls'[h], "selectListing")
  BY <1>1, <1>2, <1>4, Onwards
<1>6. Goto(h, Idle) \/ Onward(c, calls'[h], "selectListing")
  BY <1>4, <1>5 DEF Onward
<1>7. Quiet(c) /\ \A t \in After("selectListing") : t \in Quietly
  BY <1>1, QuietBefore DEF Quietly, After
<1> QED BY <1>1, <1>6, <1>7, QuietMoves

\* The handler has won, and shows the same before and after.
LEMMA WinningMoves ==
    ASSUME OneAtATime, SwapInv, SerialInv, SwapInv', SerialInv', NEW h \in Handlers,
           UNCHANGED <<listings, offers, deals>>,
           NEW s \in {"accepted", "findRejected", "tellRejected", "selectOffer"}, At(h, s),
           calls[h].entity.status \in Winning, Onward(calls[h], calls'[h], s)
    PROVE  MarketStep
<1> DEFINE c == calls[h]
           d == calls'[h]
<1>1. "writeOffer" \in StepsOf(c.todo)
  BY SeesStep DEF Sees, Saving
<1>2. /\ d.todo # <<>> /\ d.offer = c.offer /\ d.listing = c.listing /\ d.entity = c.entity
      /\ Head(d.todo) \in {"findRejected", "tellRejected", "selectOffer", "writeOffer"}
  BY <1>1 DEF Onward, After
<1>3. Won(c) /\ ~ Turning(c) /\ ~ Clearing(c) /\ "deal" \notin StepsOf(c.todo)
  BY PhaseBefore DEF PhaseIs
<1>4. Won(d) /\ ~ Turning(d) /\ ~ Clearing(d) /\ "deal" \notin StepsOf(d.todo)
  BY <1>2, PhaseAfter DEF PhaseIs
<1> HIDE DEF c, d
<1>5. \A o \in OfferIds : View(d, offers, o) = View(c, offers, o)
  BY <1>2, <1>3, <1>4 DEF View
<1>6. Owing(d, deals) = Owing(c, deals)
  BY <1>3, <1>4 DEF Owing
<1> QED BY <1>5, <1>6, SameView DEF c, d

LEMMA SelectOfferMarket ==
    ASSUME OneAtATime, SwapInv, SerialInv, SwapInv', SerialInv', NEW h \in Handlers,
           SelectOffer(h)
    PROVE  MarketStep
<1> DEFINE c == calls[h]
           cols == Dirty(c.entity, offers[c.offer])
           d == [c EXCEPT !.cols = cols]
<1>1. At(h, "selectOffer") /\ UNCHANGED <<listings, offers, deals>> /\ Advance(h, d)
  BY DEF SelectOffer, tables
<1>2. /\ c \in Call /\ c.todo # <<>> /\ Head(c.todo) = "selectOffer"
      /\ c.entity \in SwapOffer
  BY <1>1, AtStep DEF Knows, Saving
<1>3. cols \in SUBSET Columns
  BY <1>2, DirtyColumns
<1> HIDE DEF cols
<1>4. /\ d \in Call /\ d.todo = c.todo /\ d.listing = c.listing /\ d.entity = c.entity
      /\ d.offer = c.offer
  BY <1>2, <1>3 DEF Call
<1> HIDE DEF d
<1>5. Onward(d, calls'[h], "selectOffer")
  BY <1>1, <1>2, <1>4, Onwards
<1>6. Onward(c, calls'[h], "selectOffer")
  BY <1>4, <1>5 DEF Onward
<1>7. CASE c.entity.status \in Winning
  BY <1>1, <1>6, <1>7, WinningMoves
<1>8. CASE c.entity.status \notin Winning
  <2>1. Quiet(c)
    BY <1>1, <1>8, PhaseBefore DEF PhaseIs, Quiet
  <2>2. \A t \in After("selectOffer") : t \in {"selectOffer", "writeOffer"}
    BY DEF After
  <2> QED BY <1>1, <1>6, <1>8, <2>1, <2>2, QuietMoves
<1> QED BY <1>7, <1>8

LEMMA FindRejectedMarket ==
    ASSUME OneAtATime, SwapInv, SerialInv, SwapInv', SerialInv', NEW h \in Handlers,
           FindRejected(h)
    PROVE  MarketStep
<1> DEFINE c == calls[h]
           found == {o \in OffersOf(c.listing) \ {c.offer} : offers[o].status = "rejected"}
           d == [c EXCEPT !.others = found]
<1>1. At(h, "findRejected") /\ UNCHANGED <<listings, offers, deals>> /\ Advance(h, d)
  BY DEF FindRejected, tables
<1>2. /\ c \in Call /\ c.todo # <<>> /\ Head(c.todo) = "findRejected"
      /\ c.entity.status \in Winning
  BY <1>1, AtStep, SeesStep DEF Sees, Winning
<1>3. found \in SUBSET OfferIds
  BY DEF OffersOf
<1> HIDE DEF found
<1>4. /\ d \in Call /\ d.todo = c.todo /\ d.listing = c.listing /\ d.entity = c.entity
      /\ d.offer = c.offer
  BY <1>2, <1>3 DEF Call
<1> HIDE DEF d
<1>5. Onward(d, calls'[h], "findRejected")
  BY <1>1, <1>2, <1>4, Onwards
<1>6. Onward(c, calls'[h], "findRejected")
  BY <1>4, <1>5 DEF Onward
<1> QED BY <1>1, <1>2, <1>6, WinningMoves

LEMMA TellMarket ==
    ASSUME OneAtATime, SwapInv, SerialInv, SwapInv', SerialInv', NEW h \in Handlers,
           NEW type \in NoticeType, Tell(h, type)
    PROVE  MarketStep
<1> DEFINE c == calls[h]
<1>1. At(h, type) /\ UNCHANGED <<listings, offers, deals>> /\ Advance(h, c)
  BY DEF Tell, tables
<1>2. Onward(c, calls'[h], type) /\ Sees(c, type, StepsOf(c.todo), listings, offers, now)
  BY <1>1, AtStep, Onwards, SeesStep
<1>3. CASE type = "accepted"
  <2>1. c.entity.status \in Winning
    BY <1>2, <1>3 DEF Sees, Winning
  <2> QED BY <1>1, <1>2, <1>3, <2>1, WinningMoves
<1>4. CASE type # "accepted"
  <2>1. type \in Quietly
    BY <1>4 DEF NoticeType, Quietly
  <2>2. Quiet(c)
    BY <1>1, <2>1, QuietBefore
  <2>3. \A t \in After(type) : t = "selectOffer" /\ type = "rejected"
    BY <1>4 DEF After, NoticeType
  <2>4. \A t \in After(type) : t = "selectOffer" /\ c.entity.status \notin Winning
    BY <1>2, <2>3 DEF Sees, Winning
  <2> QED BY <1>1, <1>2, <2>2, <2>4, QuietMoves
<1> QED BY <1>3, <1>4

LEMMA TellOthersMarket ==
    ASSUME OneAtATime, SwapInv, SerialInv, SwapInv', SerialInv', NEW h \in Handlers,
           NEW s, NEW type, s = "tellCancelled" \/ s = "tellRejected", TellOthers(h, s, type)
    PROVE  MarketStep
<1> DEFINE c == calls[h]
<1>1. At(h, s) /\ UNCHANGED <<listings, offers, deals>>
  BY DEF TellOthers, tables
<1>2. /\ c \in Call /\ c.todo # <<>> /\ Head(c.todo) = s
      /\ Sees(c, s, StepsOf(c.todo), listings, offers, now)
  BY <1>1, AtStep, SeesStep
<1>3. CASE Advance(h, c)
  <2>1. Onward(c, calls'[h], s)
    BY <1>2, <1>3, Onwards
  <2>2. CASE s = "tellCancelled"
    <3>1. Quiet(c) /\ \A t \in After(s) : t \in Quietly
      BY <1>1, <2>2, QuietBefore DEF Quietly, After
    <3> QED BY <1>1, <2>1, <3>1, QuietMoves
  <2>3. CASE s = "tellRejected"
    <3>1. c.entity.status \in Winning
      BY <1>2, <2>3 DEF Sees, Winning
    <3> QED BY <1>1, <2>1, <2>3, <3>1, WinningMoves
  <2> QED BY <2>2, <2>3
<1>4. CASE \E o \in c.others : Goto(h, [c EXCEPT !.others = @ \ {o}])
  <2>1. PICK o \in c.others : Goto(h, [c EXCEPT !.others = @ \ {o}])
    BY <1>4
  <2> DEFINE d == [c EXCEPT !.others = @ \ {o}]
  <2>2. calls'[h] = d
    BY <2>1 DEF Goto, SwapInv
  <2>3. /\ d.todo = c.todo /\ d.entity = c.entity /\ d.listing = c.listing
        /\ d.offer = c.offer
    BY <1>2 DEF Call
  <2> HIDE DEF d
  <2>4. (Won(d) <=> Won(c)) /\ (Turning(d) <=> Turning(c)) /\ (Clearing(d) <=> Clearing(c))
    BY <2>3 DEF Won, Turning, Clearing
  <2>5. \A x \in OfferIds : View(d, offers, x) = View(c, offers, x)
    BY <2>3, <2>4 DEF View
  <2>6. Owing(d, deals) = Owing(c, deals)
    BY <2>3, <2>4 DEF Owing
  <2> QED BY <1>1, <2>2, <2>5, <2>6, SameView
<1> QED BY <1>3, <1>4 DEF TellOthers

----------------------------------------------------------------------------
(* The steps that change the market                                        *)

LEMMA TablesTyped ==
    ASSUME SwapInv, SwapInv'
    PROVE  /\ listings \in [ListingIds -> SwapListing \cup {Absent}]
           /\ offers \in [OfferIds -> SwapOffer \cup {Absent}]
           /\ listings' \in [ListingIds -> SwapListing \cup {Absent}]
           /\ offers' \in [OfferIds -> SwapOffer \cup {Absent}]
           /\ deals \in [OfferIds -> Nat] /\ deals' \in [OfferIds -> Nat]
BY DEF SwapInv, Tabled, Counted

\* A listing is stored.
LEMMA ListingShows ==
    ASSUME SwapInv, NEW l \in ListingIds, NEW row \in SwapListing, StoreListing(l, row)
    PROVE  MListing' = [MListing EXCEPT ![l] = row.status]
<1>1. /\ listings'[l] = row /\ row # Absent
      /\ \A k \in ListingIds : k # l => listings'[k] = listings[k]
  BY AbsentIsNoSwap DEF SwapInv, Tabled, StoreListing
<1> QED BY <1>1 DEF MListing

\* A handler that shows nothing before a step, or after it.
LEMMA TablesShow ==
    ASSUME OneAtATime, NEW h \in Handlers, Quiet(calls[h])
    PROVE  /\ MOffer = [o \in OfferIds |-> Plain(offers, o)]
           /\ MOwed = {o \in OfferIds : deals[o] > 0}
<1>1. MOffer = [o \in OfferIds |-> Plain(offers, o)]
  BY MarketBefore, QuietView
<1>2. MOwed = {o \in OfferIds : deals[o] > 0}
  BY MarketBefore, QuietView
<1> QED BY <1>1, <1>2

LEMMA TablesShowAfter ==
    ASSUME OneAtATime, NEW h \in Handlers, Quiet(calls'[h])
    PROVE  /\ MOffer' = [o \in OfferIds |-> Plain(offers', o)]
           /\ MOwed' = {o \in OfferIds : deals'[o] > 0}
<1>1. MOffer' = [o \in OfferIds |-> Plain(offers', o)]
  BY MarketAfter, QuietView
<1>2. MOwed' = {o \in OfferIds : deals'[o] > 0}
  BY MarketAfter, QuietView
<1> QED BY <1>1, <1>2

LEMMA ListingMoves ==
    ASSUME NEW l \in ListingIds, Market!Publish(l) \/ Market!Withdraw(l)
    PROVE  MarketStep
BY DEF MarketStep, Market!Next

LEMMA OfferMoves ==
    ASSUME NEW o \in OfferIds,
           \/ \E l \in ListingIds : Market!Offer(o, l)
           \/ \E status \in {"cancelled", "rejected"} : Market!Close(o, status)
           \/ \E priced \in BOOLEAN : Market!Take(o, priced)
           \/ Market!Finish(o)
    PROVE  MarketStep
BY DEF MarketStep, Market!Next

LEMMA InsertListingMarket ==
    ASSUME OneAtATime, SwapInv, SerialInv, SwapInv', SerialInv', NEW h \in Handlers,
           NEW l \in ListingIds, InsertListing(h, l)
    PROVE  MarketStep
<1> DEFINE c == calls[h]
<1>1. /\ At(h, "insertListing") /\ was[l] = {} /\ StoreListing(l, c.entity) /\ Advance(h, c)
      /\ UNCHANGED <<offers, deals>>
  BY DEF InsertListing
<1>2. /\ c \in Call /\ c.todo # <<>> /\ Head(c.todo) = "insertListing"
      /\ c.entity \in SwapListing /\ c.entity.status = "active"
  BY <1>1, AtStep DEF Knows
<1>3. listings[l] = Absent
  BY <1>1, TheListing DEF SwapInv
<1>4. Quiet(c) /\ Quiet(calls'[h])
  <2>1. Onward(c, calls'[h], "insertListing") /\ After("insertListing") = {}
    BY <1>1, <1>2, Onwards DEF After
  <2>2. calls'[h] = Idle
    BY <2>1 DEF Onward
  <2> QED BY <1>1, <2>2, QuietBefore, QuietAfter DEF Quietly
<1>5. MOffer' = MOffer
  BY <1>1, <1>4, TablesShow, TablesShowAfter
<1>6. MOwed' = MOwed
  BY <1>1, <1>4, TablesShow, TablesShowAfter
<1>7. MListing' = [MListing EXCEPT ![l] = "active"] /\ MTarget' = MTarget /\ MListing[l] = "none"
  BY <1>1, <1>2, <1>3, ListingShows DEF MTarget, MListing
<1>8. Market!Publish(l)
  BY <1>5, <1>6, <1>7 DEF Market!Publish, MListing, MOffer, MTarget, MOwed
<1> QED BY <1>8, ListingMoves

\* What is written is what the handler holds.
LEMMA WrittenListing ==
    ASSUME NEW row \in SwapListing, NEW entity \in SwapListing
    PROVE  Patched(row, entity, Dirty(entity, row)) = entity
<1> DEFINE p == Patched(row, entity, Dirty(entity, row))
<1>1. /\ p = [c \in ListingColumns |-> IF c \in Dirty(entity, row) THEN entity[c] ELSE row[c]]
      /\ \A c \in ListingColumns : c \in Dirty(entity, row) <=> entity[c] # row[c]
  BY DEF Patched, Dirty, SwapListing, ListingColumns
<1>2. \A c \in ListingColumns : p[c] = entity[c]
  BY <1>1
<1>3. p = [c \in ListingColumns |-> p[c]] /\ entity = [c \in ListingColumns |-> entity[c]]
  BY <1>1 DEF SwapListing, ListingColumns
<1> QED BY <1>2, <1>3

LEMMA WrittenOffer ==
    ASSUME NEW row \in SwapOffer, NEW entity \in SwapOffer
    PROVE  Patched(row, entity, Dirty(entity, row)) = entity
<1> DEFINE p == Patched(row, entity, Dirty(entity, row))
<1>1. /\ p = [c \in OfferColumns |-> IF c \in Dirty(entity, row) THEN entity[c] ELSE row[c]]
      /\ \A c \in OfferColumns : c \in Dirty(entity, row) <=> entity[c] # row[c]
  BY DEF Patched, Dirty, SwapOffer, OfferColumns
<1>2. \A c \in OfferColumns : p[c] = entity[c]
  BY <1>1
<1>3. p = [c \in OfferColumns |-> p[c]] /\ entity = [c \in OfferColumns |-> entity[c]]
  BY <1>1 DEF SwapOffer, OfferColumns
<1> QED BY <1>2, <1>3

LEMMA WriteListingMarket ==
    ASSUME OneAtATime, SwapInv, SerialInv, SwapInv', SerialInv', NEW h \in Handlers,
           WriteListing(h)
    PROVE  MarketStep
<1> DEFINE c == calls[h]
           l == c.listing
           d0 == [c EXCEPT !.entity = Absent, !.cols = {}]
           d == calls'[h]
<1>1. /\ At(h, "writeListing") /\ StoreListing(l, Patched(listings[l], c.entity, c.cols))
      /\ Advance(h, d0) /\ UNCHANGED <<offers, deals>>
  BY DEF WriteListing
<1>2. /\ c \in Call /\ c.todo # <<>> /\ Head(c.todo) = "writeListing"
      /\ l \in ListingIds /\ listings[l] # Absent /\ c.entity \in SwapListing
      /\ c.entity.status \in {"active", "cancelled"}
  BY <1>1, AtStep DEF Knows
<1>3. /\ listings[l].status = "active" /\ c.cols = Dirty(c.entity, listings[l])
      /\ c.entity.status = "cancelled" <=> "cancelOffers" \in StepsOf(c.todo)
  BY <1>1, SeesStep DEF Sees
<1>4. StoreListing(l, c.entity)
  BY <1>1, <1>2, <1>3, TheListing, WrittenListing DEF SwapInv
<1>5. /\ MListing' = [MListing EXCEPT ![l] = c.entity.status] /\ MTarget' = MTarget
      /\ MListing[l] = "active" /\ MListing \in [ListingIds -> {"none"} \cup SwapListingStatus]
  <2>1. MListing \in [ListingIds -> {"none"} \cup SwapListingStatus]
    BY TablesTyped DEF MListing, SwapListing
  <2> QED BY <1>1, <1>2, <1>3, <1>4, <2>1, ListingShows DEF MTarget, MListing
<1>6. /\ d0 \in Call /\ d0.todo = c.todo /\ d0.listing = l /\ d0.entity = Absent
  BY <1>2 DEF Call
<1>7. Onward(d0, d, "writeListing") /\ After("writeListing") = {"cancelOffers"}
  <2>1. Onward(d0, d, "writeListing")
    BY <1>1, <1>2, <1>6, Onwards
  <2>2. After("writeListing") = {"cancelOffers"}
    BY DEF After, Steps
  <2> QED BY <2>1, <2>2
<1>8. Quiet(c)
  BY <1>1, QuietBefore DEF Quietly
<1>9. /\ MOffer = [o \in OfferIds |-> Plain(offers, o)] /\ MOwed = {o \in OfferIds : deals[o] > 0}
  BY <1>8, TablesShow
<1> HIDE DEF d0
<1>10. CASE c.entity.status = "active"
  <2>1. "cancelOffers" \notin StepsOf(c.todo)
    BY <1>3, <1>10
  <2>2. d = Idle
    <3>1. d.todo # <<>> /\ Head(d.todo) = "cancelOffers" =>
            "cancelOffers" \in StepsOf(d.todo)
      BY StepsAhead DEF SwapInv, Call
    <3> QED BY <1>6, <1>7, <2>1, <3>1 DEF Onward
  <2>3. MOffer' = MOffer /\ MOwed' = MOwed
    BY <1>1, <1>9, <2>2, IdleQuiet, TablesShowAfter
  <2>4. MListing' = MListing
    BY <1>5, <1>10
  <2> QED BY <1>5, <2>3, <2>4, MarketStays
<1>11. CASE c.entity.status = "cancelled"
  <2>1. "cancelOffers" \in StepsOf(c.todo)
    BY <1>3, <1>11
  <2>2. d.todo # <<>> /\ Head(d.todo) = "cancelOffers" /\ d.listing = l
    BY <1>6, <1>7, <2>1 DEF Onward
  <2>3. ~ Won(d) /\ ~ Turning(d) /\ Clearing(d)
    BY <2>2, PhaseAfter DEF PhaseIs
  <2>4. MOwed' = MOwed
    BY <1>1, <1>9, <2>3, MarketAfter DEF Owing
  <2>5. \A o \in OfferIds : View(d, offers, o) =
            IF o \in {x \in {y \in OfferIds : MTarget[y] = l} : MOffer[x] = "pending"}
            THEN "cancelled" ELSE MOffer[o]
    <3> SUFFICES ASSUME NEW o \in OfferIds
                 PROVE  View(d, offers, o) = IF MTarget[o] = l /\ MOffer[o] = "pending"
                                             THEN "cancelled" ELSE MOffer[o]
      OBVIOUS
    <3>1. MTarget[o] = l <=> offers[o] # Absent /\ offers[o].listing = l
      BY <1>2, SwapConstants DEF MTarget
    <3>2. MOffer[o] = Plain(offers, o)
      BY <1>9
    <3> HIDE DEF d, c
    <3> QED BY <2>2, <2>3, <3>1, <3>2 DEF View, Plain
  <2>6. MOffer' = [o \in OfferIds |->
            IF o \in {x \in {y \in OfferIds : MTarget[y] = l} : MOffer[x] = "pending"}
            THEN "cancelled" ELSE MOffer[o]]
    BY <1>1, <2>5, MarketAfter
  <2> PICK k \in ListingIds : k = l
    BY <1>2
  <2>7. Market!Withdraw(k)
    BY <1>5, <1>11, <2>4, <2>6
       DEF Market!Withdraw, Market!Pending, Market!For, MListing, MOffer, MTarget, MOwed
  <2> QED BY <1>2, <2>7, ListingMoves
<1> QED BY <1>2, <1>10, <1>11

\* A set of offers gets a status.
LEMMA OffersTurned ==
    ASSUME SwapInv, NEW S, S \subseteq Offered, NEW status \in SwapOfferStatus,
           SetOffers(S, status)
    PROVE  \A o \in OfferIds :
            /\ offers'[o] = Absent <=> offers[o] = Absent
            /\ offers[o] # Absent => /\ offers'[o].listing = offers[o].listing
                                     /\ offers'[o].status = IF o \in S THEN status
                                                            ELSE offers[o].status
<1> SUFFICES ASSUME NEW o \in OfferIds
             PROVE  /\ offers'[o] = Absent <=> offers[o] = Absent
                    /\ offers[o] # Absent =>
                        /\ offers'[o].listing = offers[o].listing
                        /\ offers'[o].status = IF o \in S THEN status ELSE offers[o].status
  OBVIOUS
<1>1. CASE o \in S
  <2>1. offers[o] # Absent /\ offers[o] \in SwapOffer
    BY <1>1, TheOffer DEF SwapInv, Offered
  <2>2. offers'[o] = [offers[o] EXCEPT !.status = status]
    BY <1>1 DEF SetOffers
  <2>3. DOMAIN offers'[o] = DOMAIN offers[o] /\ offers'[o].status = status
        /\ offers'[o].listing = offers[o].listing
    BY <2>1, <2>2 DEF SwapOffer
  <2>4. offers'[o] # Absent
    <3>1. offers'[o] \in SwapOffer
      BY <2>1, <2>2 DEF SwapOffer
    <3> QED BY <3>1, AbsentIsNoSwap
  <2> QED BY <1>1, <2>1, <2>3, <2>4
<1>2. CASE o \notin S
  BY <1>2 DEF SetOffers
<1> QED BY <1>1, <1>2

LEMMA CancelOffersMarket ==
    ASSUME OneAtATime, SwapInv, SerialInv, SwapInv', SerialInv', NEW h \in Handlers,
           CancelOffers(h)
    PROVE  MarketStep
<1> DEFINE c == calls[h]
           d == calls'[h]
<1>1. /\ At(h, "cancelOffers") /\ SetOffers(PendingOf(c.listing), "cancelled")
      /\ Advance(h, c) /\ UNCHANGED <<listings, deals>>
  BY DEF CancelOffers
<1>2. Onward(c, d, "cancelOffers") /\ After("cancelOffers") = {"tellCancelled"}
  <2>1. Onward(c, d, "cancelOffers")
    BY <1>1, AtStep, Onwards
  <2>2. After("cancelOffers") = {"tellCancelled"}
    BY DEF After, Steps
  <2> QED BY <2>1, <2>2
<1>3. Quiet(d)
  BY <1>2, QuietAfter DEF Onward, Quietly
<1>4. ~ Won(c) /\ ~ Turning(c) /\ Clearing(c)
  BY <1>1, PhaseBefore DEF PhaseIs
<1>5. \A o \in OfferIds :
            /\ offers'[o] = Absent <=> offers[o] = Absent
            /\ offers[o] # Absent => /\ offers'[o].listing = offers[o].listing
                                     /\ offers'[o].status = IF o \in PendingOf(c.listing)
                                                            THEN "cancelled"
                                                            ELSE offers[o].status
  <2>1. PendingOf(c.listing) \subseteq Offered
    BY DEF PendingOf, OffersOf, Offered
  <2> QED BY <1>1, <2>1, OffersTurned DEF SwapOfferStatus
<1>6. \A o \in OfferIds : View(c, offers, o) = Plain(offers', o)
  BY <1>4, <1>5 DEF View, Plain, PendingOf, OffersOf
<1>7. MOffer' = MOffer
  BY <1>3, <1>6, MarketBefore, TablesShowAfter
<1>8. MOwed' = MOwed
  BY <1>1, <1>3, <1>4, MarketBefore, TablesShowAfter DEF Owing
<1>9. MListing' = MListing /\ MTarget' = MTarget
  BY <1>1, <1>5 DEF MListing, MTarget
<1> QED BY <1>7, <1>8, <1>9, MarketStays

LEMMA RejectOthersMarket ==
    ASSUME OneAtATime, SwapInv, SerialInv, SwapInv', SerialInv', NEW h \in Handlers,
           RejectOthers(h)
    PROVE  MarketStep
<1> DEFINE c == calls[h]
           d == calls'[h]
<1>1. /\ At(h, "rejectOthers") /\ SetOffers(Rivals(c.offer), "rejected")
      /\ Advance(h, c) /\ UNCHANGED <<listings, deals>>
  BY DEF RejectOthers
<1>2. /\ c.entity.status \in Winning /\ "writeOffer" \in StepsOf(c.todo)
      /\ c.offer \in OfferIds
  BY <1>1, AtStep, SeesStep DEF Sees, Saving, Winning, Knows
<1>3. /\ d.todo # <<>> /\ Head(d.todo) \in {"deal", "accepted"}
      /\ StepsOf(d.todo) = StepsOf(c.todo) \ {"rejectOthers"}
      /\ d.offer = c.offer /\ d.listing = c.listing /\ d.entity = c.entity
  <2>1. Onward(c, d, "rejectOthers") /\ After("rejectOthers") = {"deal", "accepted"}
    <3>1. Onward(c, d, "rejectOthers")
      BY <1>1, AtStep, Onwards
    <3>2. After("rejectOthers") = {"deal", "accepted"}
      BY DEF After, Steps, NoticeType
    <3> QED BY <3>1, <3>2
  <2> QED BY <1>2, <2>1 DEF Onward
<1>4. Won(c) /\ Turning(c) /\ ~ Clearing(c)
  BY <1>1, PhaseBefore DEF PhaseIs
<1>5. Won(d) /\ ~ Turning(d) /\ ~ Clearing(d)
  BY <1>3, PhaseAfter DEF PhaseIs
<1>6. \A o \in OfferIds :
            /\ offers'[o] = Absent <=> offers[o] = Absent
            /\ offers[o] # Absent => /\ offers'[o].listing = offers[o].listing
                                     /\ offers'[o].status = IF o \in Rivals(c.offer)
                                                            THEN "rejected"
                                                            ELSE offers[o].status
  <2>1. Rivals(c.offer) \subseteq Offered
    BY DEF Rivals, PendingOf, OffersOf, Offered
  <2> QED BY <1>1, <2>1, OffersTurned DEF SwapOfferStatus
<1>7. \A o \in OfferIds : View(d, offers', o) = View(c, offers, o)
  BY <1>3, <1>4, <1>5, <1>6 DEF View, Rivals, PendingOf, OffersOf
<1>8. MOffer' = MOffer
  BY <1>7, MarketBefore, MarketAfter
<1>9. MOwed' = MOwed
  <2>1. Owing(d, deals) = Owing(c, deals)
    BY <1>3, <1>4, <1>5 DEF Owing
  <2> QED BY <1>1, <2>1, MarketBefore, MarketAfter
<1>10. MListing' = MListing /\ MTarget' = MTarget
  BY <1>1, <1>6 DEF MListing, MTarget
<1> QED BY <1>8, <1>9, <1>10, MarketStays

LEMMA CreateDealMarket ==
    ASSUME OneAtATime, SwapInv, SerialInv, SwapInv', SerialInv', NEW h \in Handlers,
           CreateDeal(h)
    PROVE  MarketStep
<1> DEFINE c == calls[h]
           d == calls'[h]
<1>1. /\ At(h, "deal") /\ deals' = [deals EXCEPT ![c.offer] = @ + 1]
      /\ Advance(h, c) /\ UNCHANGED <<listings, offers>>
  BY DEF CreateDeal
<1>2. /\ c.entity.status \in Winning /\ "writeOffer" \in StepsOf(c.todo)
      /\ "deal" \in StepsOf(c.todo) /\ c.offer \in OfferIds
  <2>1. c.entity.status \in Winning /\ "writeOffer" \in StepsOf(c.todo) /\ c.offer \in OfferIds
    BY <1>1, AtStep, SeesStep DEF Sees, Saving, Winning, Knows
  <2>2. "deal" \in StepsOf(c.todo)
    BY <1>1, AtStep, StepsAhead
  <2> QED BY <2>1, <2>2
<1>3. /\ d.todo # <<>> /\ Head(d.todo) = "accepted"
      /\ StepsOf(d.todo) = StepsOf(c.todo) \ {"deal"}
      /\ d.offer = c.offer /\ d.listing = c.listing /\ d.entity = c.entity
  <2>1. Onward(c, d, "deal") /\ After("deal") = {"accepted"}
    <3>1. Onward(c, d, "deal")
      BY <1>1, AtStep, Onwards
    <3>2. After("deal") = {"accepted"}
      BY DEF After, Steps, NoticeType
    <3> QED BY <3>1, <3>2
  <2> QED BY <1>2, <2>1 DEF Onward
<1>4. Won(c) /\ ~ Turning(c) /\ ~ Clearing(c)
  BY <1>1, PhaseBefore DEF PhaseIs
<1>5. Won(d) /\ ~ Turning(d) /\ ~ Clearing(d)
  BY <1>3, PhaseAfter DEF PhaseIs
<1>6. \A o \in OfferIds : View(d, offers, o) = View(c, offers, o)
  BY <1>3, <1>4, <1>5 DEF View
<1>7. MOffer' = MOffer
  BY <1>1, <1>6, MarketBefore, MarketAfter
<1>8. MOwed' = MOwed
  <2>1. /\ deals'[c.offer] > 0
        /\ \A o \in OfferIds : o # c.offer => deals'[o] = deals[o]
    BY <1>1, <1>2, TablesTyped
  <2>2. ASSUME NEW o \in OfferIds
        PROVE  o \in Owing(d, deals') <=> o \in Owing(c, deals)
    BY <1>2, <1>3, <1>4, <1>5, <2>1 DEF Owing
  <2>3. Owing(d, deals') = Owing(c, deals)
    BY <2>2 DEF Owing
  <2> QED BY <2>3, MarketBefore, MarketAfter
<1>9. MListing' = MListing /\ MTarget' = MTarget
  BY <1>1 DEF MListing, MTarget
<1> QED BY <1>7, <1>8, <1>9, MarketStays

LEMMA InsertOfferMarket ==
    ASSUME OneAtATime, SwapInv, SerialInv, SwapInv', SerialInv', NEW h \in Handlers,
           NEW o \in OfferIds, InsertOffer(h, o)
    PROVE  MarketStep
<1> DEFINE c == calls[h]
           row == c.entity
           d0 == [c EXCEPT !.offer = o, !.entity = Absent]
           d == calls'[h]
<1>1. /\ At(h, "insertOffer") /\ was[o] = {} /\ StoreOffer(o, row) /\ Advance(h, d0)
      /\ UNCHANGED <<listings, deals>>
  BY DEF InsertOffer
<1>2. /\ c \in Call /\ c.todo # <<>> /\ Head(c.todo) = "insertOffer"
      /\ row \in SwapOffer /\ row.status = "pending" /\ listings[row.listing] # Absent
      /\ listings[row.listing].status = "active"
  BY <1>1, AtStep, SeesStep DEF Knows, Sees
<1>3. offers[o] = Absent
  BY <1>1, TheOffer DEF SwapInv
<1>4. /\ offers'[o] = row /\ row # Absent
      /\ \A p \in OfferIds : p # o => offers'[p] = offers[p]
  BY <1>1, <1>2, AbsentIsNoSwap DEF StoreOffer, SwapInv, Tabled
<1>5. d0 \in Call /\ d0.todo = c.todo
  BY <1>2 DEF Call
<1> HIDE DEF d0
<1>6. Quiet(c) /\ Quiet(d)
  <2>1. Onward(d0, d, "insertOffer") /\ After("insertOffer") \subseteq Quietly
    <3>1. Onward(d0, d, "insertOffer")
      BY <1>1, <1>2, <1>5, Onwards
    <3>2. After("insertOffer") \subseteq Quietly
      BY DEF After, Quietly
    <3> QED BY <3>1, <3>2
  <2> QED BY <1>1, <2>1, QuietBefore, QuietAfter DEF Quietly, Onward
<1> PICK l \in ListingIds : l = row.listing
  BY <1>2 DEF SwapOffer
<1>7. MOffer' = [MOffer EXCEPT ![o] = "pending"] /\ MOffer[o] = "none"
  <2>1. /\ MOffer = [p \in OfferIds |-> Plain(offers, p)]
        /\ MOffer' = [p \in OfferIds |-> Plain(offers', p)]
    BY <1>6, TablesShow, TablesShowAfter
  <2>2. /\ Plain(offers', o) = "pending"
        /\ \A p \in OfferIds : p # o => Plain(offers', p) = Plain(offers, p)
    BY <1>2, <1>4 DEF Plain
  <2>3. Plain(offers, o) = "none"
    BY <1>3 DEF Plain
  <2> QED BY <2>1, <2>2, <2>3
<1>8. MTarget' = [MTarget EXCEPT ![o] = l]
  BY <1>2, <1>4 DEF MTarget
<1>9. MListing' = MListing /\ MListing[l] = "active"
  BY <1>1, <1>2 DEF MListing
<1>10. MOwed' = MOwed
  BY <1>1, <1>6, TablesShow, TablesShowAfter
<1>11. Market!Offer(o, l)
  BY <1>7, <1>8, <1>9, <1>10 DEF Market!Offer, MListing, MOffer, MTarget, MOwed
<1> QED BY <1>11, OfferMoves

\* The offer that the handler saves, and nothing else, may change.
LEMMA WriteOfferMarket ==
    ASSUME OneAtATime, SwapInv, SerialInv, SwapInv', SerialInv', NEW h \in Handlers,
           WriteOffer(h)
    PROVE  MarketStep
<1> DEFINE c == calls[h]
           row == c.entity
           d0 == [c EXCEPT !.entity = Absent, !.cols = {}]
           d == calls'[h]
<1>1. /\ At(h, "writeOffer") /\ StoreOffer(c.offer, Patched(offers[c.offer], row, c.cols))
      /\ Advance(h, d0) /\ UNCHANGED <<listings, deals>>
  BY DEF WriteOffer
<1>2. /\ c \in Call /\ c.todo # <<>> /\ Head(c.todo) = "writeOffer"
      /\ c.offer \in OfferIds /\ offers[c.offer] # Absent /\ row \in SwapOffer
      /\ row.listing = offers[c.offer].listing
  BY <1>1, AtStep DEF Knows, Saving
<1>3. /\ c.cols = Dirty(row, offers[c.offer])
      /\ row.status # "completed" => offers[c.offer].status = "pending"
  BY <1>1, SeesStep DEF Sees, Saving
<1> PICK o \in OfferIds : o = c.offer
  BY <1>2
<1>4. StoreOffer(o, row)
  BY <1>1, <1>2, <1>3, TheOffer, WrittenOffer DEF SwapInv
<1>5. /\ offers'[o] = row /\ row # Absent /\ offers[o] # Absent
      /\ \A p \in OfferIds : p # o => offers'[p] = offers[p]
  BY <1>2, <1>4, AbsentIsNoSwap DEF StoreOffer, SwapInv, Tabled
<1>6. d0 \in Call /\ d0.todo = c.todo
  BY <1>2 DEF Call
<1> HIDE DEF d0
<1>7. Quiet(d)
  <2>1. Onward(d0, d, "writeOffer")
    BY <1>1, <1>2, <1>6, Onwards
  <2>2. After("writeOffer") \subseteq Quietly
    BY DEF After, Quietly
  <2> QED BY <2>1, <2>2, QuietAfter DEF Onward
<1>8. /\ Won(c) <=> row.status \in Winning
      /\ ~ Turning(c) /\ ~ Clearing(c)
      /\ ~ (Won(c) /\ "deal" \in StepsOf(c.todo))
  BY <1>1, PhaseBefore DEF PhaseIs
<1>9. /\ \A p \in OfferIds : p # o => View(c, offers, p) = Plain(offers', p)
      /\ View(c, offers, o) = IF row.status \in Winning THEN row.status ELSE offers[o].status
      /\ Plain(offers', o) = row.status
  <2>1. row = c.entity /\ o = c.offer
    OBVIOUS
  <2> HIDE DEF c, row, d
  <2>2. ASSUME NEW p \in OfferIds, p # o PROVE View(c, offers, p) = Plain(offers', p)
    BY <1>5, <1>8, <2>1, <2>2 DEF View, Plain
  <2>3. View(c, offers, o) = IF row.status \in Winning THEN row.status ELSE offers[o].status
    BY <1>5, <1>8, <2>1 DEF View
  <2>4. Plain(offers', o) = row.status
    BY <1>5 DEF Plain
  <2> QED BY <2>2, <2>3, <2>4
<1>10. /\ MOffer' = [MOffer EXCEPT ![o] = row.status]
       /\ MOffer[o] = IF row.status \in Winning THEN row.status ELSE "pending"
  <2>1. /\ MOffer = [p \in OfferIds |-> View(c, offers, p)]
        /\ MOffer' = [p \in OfferIds |-> Plain(offers', p)]
    BY <1>7, MarketBefore, TablesShowAfter
  <2> QED BY <1>3, <1>9, <2>1 DEF Winning
<1>11. MOwed' = MOwed
  BY <1>1, <1>7, <1>8, MarketBefore, TablesShowAfter DEF Owing
<1>12. MListing' = MListing /\ MTarget' = MTarget
  BY <1>1, <1>2, <1>5 DEF MListing, MTarget
<1>13. CASE row.status \in Winning \cup {"pending"}
  <2>1. MOffer' = MOffer
    BY <1>10, <1>13 DEF MOffer, Winning
  <2> QED BY <1>11, <1>12, <2>1, MarketStays
<1>14. CASE row.status \in {"cancelled", "rejected"}
  <2> PICK status \in {"cancelled", "rejected"} : status = row.status
    BY <1>14
  <2>1. Market!Close(o, status)
    BY <1>10, <1>11, <1>12, <1>14
       DEF Market!Close, MListing, MOffer, MTarget, MOwed, Winning
  <2> QED BY <2>1, OfferMoves
<1> QED BY <1>2, <1>13, <1>14 DEF SwapOffer, SwapOfferStatus, Winning

\* The handler marks its listing, and goes on to save its offer.
LEMMA Marking ==
    ASSUME OneAtATime, SwapInv, SerialInv, SwapInv', SerialInv', NEW h \in Handlers,
           NEW s, NEW status, MarksAs(s, status), MarkListing(h, s, status),
           NEW c, c = calls[h], NEW d, d = calls'[h]
    PROVE  /\ Onward(c, d, s) /\ d # Idle
           /\ MListing' = [MListing EXCEPT ![MTarget[c.offer]] = status]
           /\ MTarget' = MTarget
           /\ c.offer \in OfferIds /\ offers[c.offer] # Absent
           /\ c.listing = offers[c.offer].listing /\ MTarget[c.offer] = c.listing
           /\ c.listing \in ListingIds /\ listings[c.listing] # Absent
<1>1. /\ At(h, s) /\ StoreListing(c.listing, [listings[c.listing] EXCEPT !.status = status])
      /\ Advance(h, c) /\ UNCHANGED offers
  BY DEF MarkListing
<1>2. /\ c \in Call /\ c.todo # <<>> /\ Head(c.todo) = s
      /\ Knows(c, s, listings, offers, was)
      /\ Sees(c, s, StepsOf(c.todo), listings, offers, now)
  BY <1>1, AtStep, SeesStep
<1>3. /\ c.offer \in OfferIds /\ offers[c.offer] # Absent
      /\ c.listing = offers[c.offer].listing
      /\ "writeOffer" \in StepsOf(c.todo)
  BY <1>2 DEF Knows, Sees, Saving, MarksAs, Winning
<1>4. c.listing \in ListingIds /\ listings[c.listing] # Absent
      /\ listings[c.listing] \in SwapListing
  BY <1>3, TheOffer, TheListing DEF SwapInv
<1>5. MTarget[c.offer] = c.listing
  BY <1>3 DEF MTarget
<1>6. MTarget' = MTarget
  BY <1>1 DEF MTarget
<1>7. MListing' = [MListing EXCEPT ![MTarget[c.offer]] = status]
  <2> DEFINE row == [listings[c.listing] EXCEPT !.status = status]
  <2>1. row \in SwapListing /\ row.status = status
    BY <1>4 DEF SwapListing, SwapListingStatus, MarksAs
  <2> HIDE DEF row
  <2>2. StoreListing(c.listing, row)
    BY <1>1 DEF row
  <2> QED BY <1>4, <1>5, <2>1, <2>2, ListingShows
<1>8. Onward(c, d, s)
  BY <1>1, <1>2, Onwards
<1>9. d # Idle
  <2>1. s # "writeOffer"
    BY DEF MarksAs
  <2>2. StepsOf(c.todo) # {s}
    BY <1>3, <2>1
  <2>3. Idle.todo = <<>>
    BY DEF Idle
  <2> QED BY <1>8, <2>2, <2>3 DEF Onward
<1> QED BY <1>3, <1>4, <1>5, <1>6, <1>7, <1>8, <1>9

LEMMA BookMarket ==
    ASSUME OneAtATime, SwapInv, SerialInv, SwapInv', SerialInv', NEW h \in Handlers,
           MarkListing(h, "book", "booked")
    PROVE  MarketStep
<1> DEFINE c == calls[h]
           d == calls'[h]
           priced == "deal" \in StepsOf(c.todo)
<1>1. MarksAs("book", "booked") /\ At(h, "book") /\ UNCHANGED <<offers, deals>>
  BY DEF MarksAs, MarkListing
<1>2. /\ Onward(c, d, "book") /\ d # Idle
      /\ MListing' = [MListing EXCEPT ![MTarget[c.offer]] = "booked"]
      /\ MTarget' = MTarget
      /\ c.offer \in OfferIds /\ offers[c.offer] # Absent
      /\ c.listing = offers[c.offer].listing /\ MTarget[c.offer] = c.listing
      /\ c.listing \in ListingIds /\ listings[c.listing] # Absent
  BY <1>1, Marking
<1>3. /\ d.todo # <<>> /\ Head(d.todo) = "rejectOthers"
      /\ StepsOf(d.todo) = StepsOf(c.todo) \ {"book"}
      /\ d.offer = c.offer /\ d.entity = c.entity
  BY <1>2 DEF Onward, After
<1>4. /\ c.entity.status = "accepted" /\ offers[c.offer].status = "pending"
      /\ listings[c.listing].status = "active"
  BY <1>1, SeesStep DEF Sees, Saving
<1>5. Won(d) /\ Turning(d) /\ ~ Clearing(d)
  BY <1>3, PhaseAfter DEF PhaseIs
<1>6. Quiet(c)
  BY <1>1, QuietBefore DEF Quietly
<1> PICK o \in OfferIds : o = c.offer
  BY <1>2
<1>7. /\ MOffer = [p \in OfferIds |-> Plain(offers, p)]
      /\ MOffer' = [p \in OfferIds |-> View(d, offers, p)]
  BY <1>1, <1>6, TablesShow, MarketAfter
<1>8. MOffer[o] = "pending" /\ MListing[MTarget[o]] = "active"
  BY <1>2, <1>4, <1>7 DEF Plain, MListing
<1>9. ASSUME NEW p \in OfferIds
      PROVE  View(d, offers, p) = IF p = o THEN "accepted"
                                  ELSE IF MTarget[p] = MTarget[o] /\ MOffer[p] = "pending"
                                  THEN "rejected" ELSE MOffer[p]
  <2>1. (offers[p] # Absent /\ offers[p].listing = c.listing) <=> MTarget[p] = MTarget[o]
    BY <1>2, SwapConstants DEF MTarget
  <2>2. MOffer[p] = Plain(offers, p)
    BY <1>7
  <2>3. /\ d.offer = o /\ d.entity.status = "accepted" /\ offers[o] # Absent
        /\ offers[o].listing = c.listing
    BY <1>2, <1>3, <1>4
  <2> HIDE DEF c, d, priced
  <2> QED BY <1>5, <2>1, <2>2, <2>3 DEF View, Plain
<1>10. MOffer' = [x \in OfferIds |->
            IF x = o THEN "accepted"
            ELSE IF x \in {y \in {z \in OfferIds : MTarget[z] = MTarget[o]} : MOffer[y] = "pending"}
            THEN "rejected" ELSE MOffer[x]]
  BY <1>7, <1>9
<1>11. MOwed' = IF priced THEN MOwed \cup {o} ELSE MOwed
  <2>1. MOwed = {p \in OfferIds : deals[p] > 0} /\ MOwed' = Owing(d, deals)
    BY <1>1, <1>6, TablesShow, MarketAfter
  <2>2. d.offer = o /\ (priced <=> "deal" \in StepsOf(d.todo))
    BY <1>3
  <2> HIDE DEF c, d, priced
  <2> QED BY <1>5, <2>1, <2>2 DEF Owing
<1> HIDE DEF c, d, priced
<1>12. ASSUME NEW b \in BOOLEAN, b <=> priced PROVE Market!Take(o, b)
  <2>1. MOwed' = IF b THEN MOwed \cup {o} ELSE MOwed
    BY <1>11, <1>12
  <2> QED BY <1>2, <1>8, <1>10, <2>1
          DEF Market!Take, Market!Pending, Market!For, MListing, MOffer, MTarget, MOwed
<1>13. Market!Take(o, TRUE) \/ Market!Take(o, FALSE)
  BY <1>12
<1> QED BY <1>13, OfferMoves

LEMMA CompleteMarket ==
    ASSUME OneAtATime, SwapInv, SerialInv, SwapInv', SerialInv', NEW h \in Handlers,
           MarkListing(h, "complete", "completed")
    PROVE  MarketStep
<1> DEFINE c == calls[h]
           d == calls'[h]
<1>1. MarksAs("complete", "completed") /\ At(h, "complete") /\ UNCHANGED <<offers, deals>>
  BY DEF MarksAs, MarkListing
<1>2. /\ Onward(c, d, "complete") /\ d # Idle
      /\ MListing' = [MListing EXCEPT ![MTarget[c.offer]] = "completed"]
      /\ MTarget' = MTarget
      /\ c.offer \in OfferIds /\ offers[c.offer] # Absent
      /\ c.listing = offers[c.offer].listing /\ MTarget[c.offer] = c.listing
      /\ c.listing \in ListingIds /\ listings[c.listing] # Absent
  BY <1>1, Marking
<1>3. /\ d.todo # <<>> /\ Head(d.todo) = "selectOffer"
      /\ d.offer = c.offer /\ d.entity = c.entity
  BY <1>2 DEF Onward, After
<1>4. c.entity.status = "completed" /\ offers[c.offer].status = "accepted"
  BY <1>1, SeesStep DEF Sees, Saving
<1>5. Won(d) /\ ~ Turning(d) /\ ~ Clearing(d) /\ "deal" \notin StepsOf(d.todo)
  BY <1>3, <1>4, PhaseAfter DEF PhaseIs, Winning
<1>6. Quiet(c)
  BY <1>1, QuietBefore DEF Quietly
<1> PICK o \in OfferIds : o = c.offer
  BY <1>2
<1>7. /\ MOffer = [p \in OfferIds |-> Plain(offers, p)]
      /\ MOffer' = [p \in OfferIds |-> View(d, offers, p)]
  BY <1>1, <1>6, TablesShow, MarketAfter
<1>8. MOffer' = [MOffer EXCEPT ![o] = "completed"] /\ MOffer[o] = "accepted"
  <2>1. d.offer = o /\ d.entity.status = "completed" /\ offers[o] # Absent
    BY <1>2, <1>3, <1>4
  <2>2. ASSUME NEW p \in OfferIds
        PROVE  View(d, offers, p) = IF p = o THEN "completed" ELSE Plain(offers, p)
    <3> HIDE DEF c, d
    <3> QED BY <1>5, <2>1 DEF View, Plain
  <2>3. Plain(offers, o) = "accepted"
    BY <1>2, <1>4 DEF Plain
  <2> QED BY <1>7, <2>2, <2>3
<1>9. MOwed' = MOwed
  <2>1. MOwed = {p \in OfferIds : deals[p] > 0} /\ MOwed' = Owing(d, deals)
    BY <1>1, <1>6, TablesShow, MarketAfter
  <2> QED BY <1>5, <2>1 DEF Owing
<1>10. Market!Finish(o)
  <2> HIDE DEF c, d
  <2> QED BY <1>2, <1>8, <1>9 DEF Market!Finish, MListing, MOffer, MTarget, MOwed
<1> QED BY <1>10, OfferMoves

\* Time passes, or nothing does.
LEMMA IdleMarket ==
    ASSUME UNCHANGED <<listings, offers, deals, calls>> PROVE MarketStep
<1>1. MListing' = MListing /\ MTarget' = MTarget
  BY DEF MListing, MTarget
<1>2. MOffer' = MOffer
  BY DEF MOffer, Outcome, Committed, Ahead, Rivals, PendingOf, OffersOf
<1>3. MOwed' = MOwed
  BY DEF MOwed, Committed, Ahead
<1> QED BY <1>1, <1>2, <1>3, MarketStays

LEMMA StepMarket ==
    ASSUME OneAtATime, SwapInv, SerialInv, SwapInv', SerialInv', NEW h \in Handlers, Step(h)
    PROVE  MarketStep
<1>1. CASE CheckListing(h) \/ \E l \in ListingIds : InsertListing(h, l)
  BY <1>1, CheckListingMarket, InsertListingMarket
<1>2. CASE SelectListing(h) \/ WriteListing(h)
  BY <1>2, SelectListingMarket, WriteListingMarket
<1>3. CASE CancelOffers(h) \/ RejectOthers(h)
  BY <1>3, CancelOffersMarket, RejectOthersMarket
<1>4. CASE TellOthers(h, "tellCancelled", "cancelled") \/ TellOthers(h, "tellRejected", "rejected")
  BY <1>4, TellOthersMarket
<1>5. CASE CheckOffer(h) \/ \E o \in OfferIds : InsertOffer(h, o)
  BY <1>5, CheckOfferMarket, InsertOfferMarket
<1>6. CASE SelectOffer(h) \/ WriteOffer(h)
  BY <1>6, SelectOfferMarket, WriteOfferMarket
<1>7. CASE MarkListing(h, "book", "booked") \/ MarkListing(h, "complete", "completed")
  BY <1>7, BookMarket, CompleteMarket
<1>8. CASE CreateDeal(h) \/ FindRejected(h)
  BY <1>8, CreateDealMarket, FindRejectedMarket
<1>9. CASE \E type \in NoticeType : Tell(h, type)
  BY <1>9, TellMarket
<1> QED BY <1>1, <1>2, <1>3, <1>4, <1>5, <1>6, <1>7, <1>8, <1>9 DEF Step

\* Every step is one of the market or none, unless it is a death.
LEMMA MarketMoves ==
    ASSUME OneAtATime, SwapInv, SerialInv, SwapInv', SerialInv', [Next]_swapVars,
           ~ \E h \in Handlers : Fail(h)
    PROVE  MarketStep
<1>1. ASSUME NEW h \in Handlers, NEW u \in Users, Request(h, u) PROVE MarketStep
  BY <1>1, RequestMarket
<1>2. ASSUME NEW h \in Handlers, Step(h) PROVE MarketStep
  BY <1>2, StepMarket
<1>3. CASE Tick
  BY <1>3, IdleMarket DEF Tick, tables
<1>4. CASE UNCHANGED swapVars
  BY <1>4, IdleMarket DEF swapVars, tables
<1> QED BY <1>1, <1>2, <1>3, <1>4 DEF Next

LEMMA MarketNext ==
    ASSUME OneAtATime, MaxFailures = 0, SwapInv, SerialInv, SwapInv', SerialInv',
           [Next]_swapVars
    PROVE  MarketStep
<1>1. ASSUME NEW h \in Handlers, Fail(h) PROVE FALSE
  BY <1>1 DEF Fail, SwapInv, Counted
<1> QED BY <1>1, MarketMoves

LEMMA MarketInit == Init => Market!Init
<1> SUFFICES ASSUME Init PROVE Market!Init
  OBVIOUS
<1>1. /\ \A l \in ListingIds : listings[l] = Absent
      /\ \A o \in OfferIds : offers[o] = Absent /\ deals[o] = 0
      /\ \A h \in Handlers : ~ Committed(h)
  BY DEF Init, Committed, Idle
<1>2. MListing = [l \in ListingIds |-> "none"] /\ MTarget = [o \in OfferIds |-> NoId]
  BY <1>1 DEF MListing, MTarget
<1>3. MOffer = [o \in OfferIds |-> "none"]
  BY <1>1 DEF MOffer, Outcome
<1>4. MOwed = {}
  BY <1>1 DEF MOwed
<1> QED BY <1>2, <1>3, <1>4 DEF Market!Init, MListing, MTarget, MOffer, MOwed

\* As long as requests come one at a time and no handler dies, the service is
\* the market: publishing, withdrawing, offering, closing, taking and
\* finishing each look like one step, although respondToOffer, cancelListing
\* and completeSwap write several tables in separate awaits.
THEOREM SwapImplementsMarket ==
    ASSUME OneAtATime, MaxFailures = 0
    PROVE  Spec => ImplementsMarket
<1>1. SwapInv /\ SwapInv' /\ SerialInv /\ SerialInv' /\ [Next]_swapVars
        => [Market!Next]_Market!marketVars
  BY MarketNext DEF MarketStep
<1> QED BY <1>1, MarketInit, SwapInvariance, SerialInvariance, PTL
        DEF Spec, ImplementsMarket, Market!Spec
----------------------------------------------------------------------------
(* What the market promises                                                *)

Taken == {"booked", "completed"}

\* A listing that some offer has won is off the market, and no other offer
\* has won it.
MarketWon ==
    /\ \A o \in OfferIds : MOffer[o] \in Winning => MListing[MTarget[o]] \in Taken
    /\ \A o, p \in OfferIds :
            (MOffer[o] \in Winning /\ MOffer[p] \in Winning /\ MTarget[o] = MTarget[p]) => o = p

\* No offer wins, no listing comes back, and whoever has won stays with it.
LEMMA NobodyWins ==
    ASSUME MarketWon,
           \A o \in OfferIds : MOffer'[o] \in Winning =>
                /\ MOffer[o] \in Winning /\ MTarget'[o] = MTarget[o]
                /\ MListing[MTarget[o]] \in Taken => MListing'[MTarget[o]] \in Taken
    PROVE  MarketWon'
BY DEF MarketWon

LEMMA MarketTyped ==
    ASSUME SwapInv
    PROVE  /\ DOMAIN MListing = ListingIds
           /\ DOMAIN MOffer = OfferIds /\ DOMAIN MTarget = OfferIds
           /\ \A o \in OfferIds : MOffer[o] # "none" => MTarget[o] \in ListingIds
<1>1. \A o \in OfferIds : MOffer[o] # "none" => offers[o] # Absent
  BY DEF MOffer, Outcome
<1>2. \A o \in OfferIds : offers[o] # Absent => MTarget[o] = offers[o].listing
  BY DEF MTarget
<1> QED BY <1>1, <1>2, TheOffer DEF SwapInv, MListing, MOffer, MTarget

\* A listing goes off the market with its only winner.
LEMMA TakeWon ==
    ASSUME SwapInv, MarketWon, NEW o \in OfferIds, NEW priced \in BOOLEAN,
           Market!Take(o, priced)
    PROVE  MarketWon'
<1> DEFINE l == MTarget[o]
<1>1. /\ MOffer[o] = "pending" /\ MListing[l] = "active"
      /\ MListing' = [MListing EXCEPT ![l] = "booked"]
      /\ MTarget' = MTarget
  BY DEF Market!Take, MOffer, MListing, MTarget
<1>2. MOffer' = [x \in OfferIds |-> IF x = o THEN "accepted"
                                    ELSE IF x \in Market!Pending(l) THEN "rejected"
                                    ELSE MOffer[x]]
  BY DEF Market!Take, MOffer, MListing, MTarget
<1>3. l \in ListingIds
  BY <1>1, MarketTyped
<1>4. \A x \in OfferIds : (MOffer'[x] \in Winning /\ x # o)
        => MOffer[x] \in Winning /\ MTarget[x] # l
  BY <1>1, <1>2 DEF MarketWon, Winning, Taken
<1>5. MListing'[l] = "booked" /\ \A k \in ListingIds : k # l => MListing'[k] = MListing[k]
  BY <1>1, <1>3, MarketTyped
<1>6. \A x \in OfferIds : MOffer[x] \in Winning => MTarget[x] \in ListingIds
  BY MarketTyped DEF Winning
<1> HIDE DEF l
<1> QED BY <1>1, <1>4, <1>5, <1>6 DEF MarketWon, Taken, l

LEMMA MarketStepWon ==
    ASSUME SwapInv, MarketWon, MarketStep
    PROVE  MarketWon'
<1> USE MarketTyped
<1>1. ASSUME NEW l \in ListingIds, Market!Publish(l) \/ Market!Withdraw(l)
      PROVE  MarketWon'
  <2>1. /\ MListing[l] \in {"none", "active"} /\ MTarget' = MTarget
        /\ \/ MListing' = [MListing EXCEPT ![l] = "active"]
           \/ MListing' = [MListing EXCEPT ![l] = "cancelled"]
    BY <1>1 DEF Market!Publish, Market!Withdraw, MListing, MTarget, MOffer
  <2>2. MListing[l] \notin Taken
    BY <2>1 DEF Taken
  <2>3. \A k \in ListingIds : k # l => MListing'[k] = MListing[k]
    BY <2>1
  <2>4. \A o \in OfferIds : MOffer'[o] \in Winning => MOffer[o] \in Winning
    BY <1>1 DEF Market!Publish, Market!Withdraw, MOffer, Winning
  <2>5. ASSUME NEW o \in OfferIds, MOffer[o] \in Winning
        PROVE  MTarget[o] \in ListingIds /\ MTarget[o] # l
    BY <2>2, <2>5 DEF MarketWon, Winning
  <2> QED BY <2>1, <2>3, <2>4, <2>5, NobodyWins
<1>2. ASSUME NEW o \in OfferIds, NEW l \in ListingIds, Market!Offer(o, l)
      PROVE  MarketWon'
  <2>1. /\ MOffer' = [MOffer EXCEPT ![o] = "pending"]
        /\ MTarget' = [MTarget EXCEPT ![o] = l] /\ MListing' = MListing
    BY <1>2 DEF Market!Offer, MListing, MTarget, MOffer
  <2> QED BY <2>1, NobodyWins DEF Winning
<1>3. ASSUME NEW o \in OfferIds, NEW status \in {"cancelled", "rejected"},
             Market!Close(o, status)
      PROVE  MarketWon'
  <2>1. /\ MOffer' = [MOffer EXCEPT ![o] = status]
        /\ MTarget' = MTarget /\ MListing' = MListing
    BY <1>3 DEF Market!Close, MListing, MTarget, MOffer
  <2> QED BY <2>1, NobodyWins DEF Winning
<1>4. ASSUME NEW o \in OfferIds, Market!Finish(o) PROVE MarketWon'
  <2>1. /\ MOffer[o] = "accepted" /\ MOffer' = [MOffer EXCEPT ![o] = "completed"]
        /\ MTarget' = MTarget /\ MListing' = [MListing EXCEPT ![MTarget[o]] = "completed"]
    BY <1>4 DEF Market!Finish, MListing, MTarget, MOffer
  <2>2. \A k \in ListingIds : MListing[k] \in Taken => MListing'[k] \in Taken
    BY <2>1 DEF Taken
  <2>3. \A x \in OfferIds : MOffer[x] \in Winning => MTarget[x] \in ListingIds
    BY DEF Winning
  <2> QED BY <2>1, <2>2, <2>3, NobodyWins DEF Winning
<1>5. ASSUME UNCHANGED Market!marketVars PROVE MarketWon'
  BY <1>5, NobodyWins DEF Market!marketVars, MListing, MTarget, MOffer
<1> QED BY <1>1, <1>2, <1>3, <1>4, <1>5, TakeWon DEF MarketStep, Market!Next

\* The market knows of every offer that is stored as a winner.
LEMMA StoredWinners ==
    ASSUME NEW o \in OfferIds, offers[o] # Absent, offers[o].status \in Winning
    PROVE  MOffer[o] \in Winning
<1> DEFINE Mine(g) == Committed(g) /\ calls[g].offer = o
           g == CHOOSE g \in Handlers : Mine(g)
<1>1. (\E h \in Handlers : Mine(h)) => calls[g].entity.status \in Winning
  BY DEF Committed, Winning
<1>2. \A h \in Handlers : o \notin Rivals(calls[h].offer) /\ o \notin PendingOf(calls[h].listing)
  BY DEF Rivals, PendingOf, Winning
<1> QED BY <1>1, <1>2 DEF MOffer, Outcome

\* A handler that dies takes back what it has not stored.
LEMMA FailWon ==
    ASSUME OneAtATime, SwapInv, MarketWon, NEW h \in Handlers, Fail(h)
    PROVE  MarketWon'
<1>1. UNCHANGED <<listings, offers>> /\ calls'[h] = Idle
  BY DEF Fail, Goto, tables, SwapInv
<1>2. MListing' = MListing /\ MTarget' = MTarget
  BY <1>1 DEF MListing, MTarget
<1>3. \A o \in OfferIds : /\ MOffer'[o] = Plain(offers, o)
                          /\ MOffer[o] = View(calls[h], offers, o)
  BY <1>1, TablesShowAfter, MarketBefore, IdleQuiet
<1>4. \A o \in OfferIds : Plain(offers, o) \in Winning => View(calls[h], offers, o) \in Winning
  BY DEF Plain, View, Won, Winning
<1> QED BY <1>2, <1>3, <1>4, NobodyWins

\* So it is when requests come one at a time, also when handlers die.
THEOREM MarketWonAlways == ASSUME OneAtATime PROVE Spec => []MarketWon
<1>1. Init => MarketWon
  <2> SUFFICES ASSUME Init PROVE MarketWon
    OBVIOUS
  <2>1. \A o \in OfferIds : offers[o] = Absent
    BY DEF Init
  <2>2. \A o \in OfferIds : MOffer[o] \notin Winning
    BY <2>1 DEF MOffer, Outcome, Winning
  <2> QED BY <2>2 DEF MarketWon
<1>2. /\ SwapInv /\ SerialInv /\ SwapInv' /\ SerialInv' /\ MarketWon /\ [Next]_swapVars
      => MarketWon'
  <2> SUFFICES ASSUME SwapInv, SerialInv, SwapInv', SerialInv', MarketWon, [Next]_swapVars
               PROVE  MarketWon'
    OBVIOUS
  <2>1. CASE \E h \in Handlers : Fail(h)
    BY <2>1, FailWon
  <2>2. CASE ~ \E h \in Handlers : Fail(h)
    BY <2>2, MarketMoves, MarketStepWon
  <2> QED BY <2>1, <2>2
<1> QED BY <1>1, <1>2, SwapInvariance, SerialInvariance, PTL DEF Spec

\* Then at most one offer for a listing is ever accepted or completed, although
\* respondToOffer and completeSwap look at no other offer: they find the listing
\* booked, or about to be.
THEOREM OneOfferWins == ASSUME OneAtATime PROVE Spec => []OneWinner
<1>1. SwapInv /\ MarketWon => OneWinner
  <2> SUFFICES ASSUME SwapInv, MarketWon, NEW o1 \in Offered, NEW o2 \in Offered,
                      offers[o1].listing = offers[o2].listing,
                      {offers[o1].status, offers[o2].status} \subseteq Winning
               PROVE  o1 = o2
    BY DEF OneWinner, Winning
  <2>1. o1 \in OfferIds /\ o2 \in OfferIds /\ offers[o1] # Absent /\ offers[o2] # Absent
    BY DEF Offered
  <2>2. MTarget[o1] = MTarget[o2]
    BY <2>1 DEF MTarget
  <2>3. MOffer[o1] \in Winning /\ MOffer[o2] \in Winning
    BY <2>1, StoredWinners
  <2> QED BY <2>1, <2>2, <2>3 DEF MarketWon
<1> QED BY <1>1, SwapInvariance, MarketWonAlways, PTL
=============================================================================

------------------------------ MODULE SpotSwap ------------------------------
(***************************************************************************)
(* SpotSwapService (src/modules/spotswap/spotswap.service.ts): listings of *)
(* parking spots, the offers other users make for them, and the            *)
(* transactions of the offers that are accepted.                           *)
(*                                                                         *)
(* A handler is a record in calls: the awaits it still has ahead (todo, in *)
(* program order), the listing and the offer it works on, the entity it    *)
(* will save with the columns save found dirty, the offers that were       *)
(* loaded together with the listing (seen), and the offers whose authors   *)
(* it still has to notify (others).  What a handler does up to its first   *)
(* write is one action; each later await is one action.                    *)
(***************************************************************************)
EXTENDS Naturals, Sequences, FiniteSets, TypeOrm

CONSTANTS
    ListingIds, OfferIds,   \* primary keys
    Users,
    Spots,          \* the parkings
    Hosts,          \* <<user, parking>>: who owns the parking or subscribes to it
    Handlers,       \* requests that can be in progress at the same time
    NoId,           \* no listing, or no offer
    SwapOps,        \* the operations the clients of this instance call
    MaxTime,        \* bound on the clock
    MaxRequests,    \* bound on the requests that clients send
    MaxFailures     \* bound on the handlers that die half way

VARIABLES
    listings,   \* the table of listings: id -> row
    offers,     \* the table of offers: id -> row
    deals,      \* the table of transactions, as offer -> number of them
    calls,      \* the handlers
    notices,    \* the notifications created so far
    now,        \* the clock
    was,        \* history: id -> the statuses its stored row has had
    moved,      \* history: listings moved by a saved update
    requests,   \* requests accepted so far
    failures    \* handlers that died so far

tables == <<listings, offers, deals, was, moved>>
swapVars == <<tables, calls, notices, now, requests, failures>>

ASSUME SwapConstants ==
    /\ Hosts \subseteq Users \X Spots
    /\ NoId \notin ListingIds \cup OfferIds
    /\ ListingIds \cap OfferIds = {}
    /\ MaxTime \in Nat /\ MaxRequests \in Nat /\ MaxFailures \in Nat

Time == 0..MaxTime
SwapListingStatus == {"active", "booked", "completed", "cancelled", "expired"}
SwapOfferStatus == {"pending", "accepted", "rejected", "cancelled", "completed"}

\* priced: the price is positive.
SwapListing == [user: Users, parking: Spots, start: Time, end: Time, priced: BOOLEAN,
                status: SwapListingStatus]
SwapOffer == [listing: ListingIds, user: Users, start: Time, end: Time,
              priced: BOOLEAN, status: SwapOfferStatus]

ASSUME AbsentIsNoSwap == Absent \notin SwapListing \cup SwapOffer

NoticeType == {"new", "updated", "withdrawn", "cancelled", "accepted", "rejected",
               "completed"}

Steps == NoticeType \cup
    {"checkListing", "insertListing", "selectListing", "writeListing", "cancelOffers",
     "tellCancelled", "checkOffer", "insertOffer", "selectOffer", "writeOffer", "book",
     "rejectOthers", "deal", "findRejected", "tellRejected", "complete"}

Idle == [todo |-> <<>>, listing |-> NoId, offer |-> NoId, entity |-> Absent,
         cols |-> {}, seen |-> {}, others |-> {}]

\* Two closed periods meet, as the queries compare them.
Meet(r1, r2) == r1.start <= r2.end /\ r1.end >= r2.start

OffersOf(l) == {o \in OfferIds : offers[o] # Absent /\ offers[o].listing = l}
PendingOf(l) == {o \in OffersOf(l) : offers[o].status = "pending"}

----------------------------------------------------------------------------
(* Storage                                                                 *)

StoreListing(l, row) ==
    /\ listings' = [listings EXCEPT ![l] = row]
    /\ was' = [was EXCEPT ![l] = @ \cup {row.status}]

StoreOffer(o, row) ==
    /\ offers' = [offers EXCEPT ![o] = row]
    /\ was' = [was EXCEPT ![o] = @ \cup {row.status}]

\* UPDATE swap_offers SET status = ... for a set of offers, in one query.
SetOffers(S, status) ==
    /\ offers' = [o \in OfferIds |->
            IF o \in S THEN [offers[o] EXCEPT !.status = status] ELSE offers[o]]
    /\ was' = [x \in DOMAIN was |-> was[x] \cup (IF x \in S THEN {status} ELSE {})]

Goto(h, c) == calls' = [calls EXCEPT ![h] = c]

\* A client's request reaches an idle handler.
Accept(h, op) ==
    /\ op \in SwapOps
    /\ calls[h] = Idle
    /\ requests < MaxRequests
    /\ requests' = requests + 1
    /\ UNCHANGED <<tables, notices, now, failures>>

\* The next await of handler h is s.
At(h, s) == calls[h].todo # <<>> /\ Head(calls[h].todo) = s

\* It is over, and c is what the handler has become: on to the next one.
Advance(h, c) ==
    Goto(h, IF Len(c.todo) = 1 THEN Idle ELSE [c EXCEPT !.todo = Tail(@)])

SaveListing == <<"selectListing", "writeListing">>
SaveOffer == <<"selectOffer", "writeOffer">>

----------------------------------------------------------------------------
(* Faulty variants of definitions below, each a slip that a change of the  *)
(* code could bring; the properties at the end must notice them.           *)

AcceptSteps_SaveFirst(row) ==
    SaveOffer \o <<"book", "rejectOthers">> \o (IF row.priced THEN <<"deal">> ELSE <<>>)
        \o <<"accepted", "findRejected", "tellRejected">>
AcceptSteps_NoSave(row) ==
    <<"book", "rejectOthers">> \o (IF row.priced THEN <<"deal">> ELSE <<>>)
        \o <<"accepted", "findRejected", "tellRejected">>
AcceptSteps_NotBooked(row) ==
    <<"rejectOthers">> \o (IF row.priced THEN <<"deal">> ELSE <<>>)
        \o <<"accepted", "findRejected", "tellRejected">> \o SaveOffer
Rivals_None(o) == {}
CanComplete_Pending(row) == row.status \in {"pending", "accepted"} /\ now >= row.end
CanComplete_AnyTime(row) == row.status = "accepted"
Blocking_Covering(row) == {l \in ListingIds :
    /\ listings[l] # Absent
    /\ listings[l].parking = row.parking
    /\ listings[l].status = "active"
    /\ listings[l].start <= row.start /\ listings[l].end >= row.end}
InsertOffer_IdForgotten(h, o) ==
    /\ At(h, "insertOffer")
    /\ was[o] = {}
    /\ StoreOffer(o, calls[h].entity)
    /\ Advance(h, [calls[h] EXCEPT !.entity = Absent])
    /\ UNCHANGED <<listings, deals, moved, notices, now, requests, failures>>

----------------------------------------------------------------------------
(* Listings                                                                *)

\* Bound: every insert in progress can still be given a key.
KeysLeft(Ids, s) ==
    Cardinality({g \in Handlers : \E i \in 1..Len(calls[g].todo) : calls[g].todo[i] = s})
        < Cardinality({x \in Ids : was[x] = {}})

\* createListing, by the owner of the parking or a subscriber.
CreateListing(h, u, p, s, e, priced) ==
    /\ Accept(h, "list")
    /\ KeysLeft(ListingIds, "insertListing")
    /\ <<u, p>> \in Hosts
    /\ s < e /\ s >= now
    /\ Goto(h, [Idle EXCEPT
            !.todo = <<"checkListing", "insertListing">>,
            !.entity = [user |-> u, parking |-> p, start |-> s, end |-> e,
                        priced |-> priced, status |-> "active"]])

\* updateListing, by its author and while it is active; new dates are held
\* against the clock but not against the other listings, and a new parking is
\* held against nothing: not even its owner is asked for.
UpdateListing(h, u, l, p, s, e, priced) ==
    /\ Accept(h, "relist")
    /\ listings[l] # Absent
    /\ listings[l].user = u
    /\ listings[l].status = "active"
    /\ \/ s = listings[l].start /\ e = listings[l].end
       \/ s < e /\ s >= now
    /\ Goto(h, [Idle EXCEPT
            !.todo = SaveListing, !.listing = l, !.seen = OffersOf(l),
            !.entity = [listings[l] EXCEPT !.parking = p, !.start = s, !.end = e,
                                           !.priced = priced]])

\* cancelListing; the authors of the offers that were pending when the listing
\* was loaded are told.
CancelListing(h, u, l) ==
    /\ Accept(h, "unlist")
    /\ listings[l] # Absent
    /\ listings[l].user = u
    /\ listings[l].status = "active"
    /\ Goto(h, [Idle EXCEPT
            !.todo = SaveListing \o <<"cancelOffers", "tellCancelled">>,
            !.listing = l, !.seen = OffersOf(l), !.others = PendingOf(l),
            !.entity = [listings[l] EXCEPT !.status = "cancelled"]])

----------------------------------------------------------------------------
(* Offers                                                                  *)

Within(s, e, row) == s < e /\ s >= row.start /\ e <= row.end

\* createOffer for an active listing of somebody else.  Whether a listing
\* allows partial days, or requires an exchange, is not modelled: the offer
\* may be for any part of the period.
CreateOffer(h, u, l, s, e, priced) ==
    /\ Accept(h, "offer")
    /\ KeysLeft(OfferIds, "insertOffer")
    /\ listings[l] # Absent
    /\ listings[l].status = "active"
    /\ listings[l].user # u
    /\ Within(s, e, listings[l])
    /\ Goto(h, [Idle EXCEPT
            !.todo = <<"checkOffer", "insertOffer", "new">>,
            !.entity = [listing |-> l, user |-> u, start |-> s, end |-> e,
                        priced |-> priced \/ listings[l].priced, status |-> "pending"]])

\* A pending offer together with its listing, which findOffer joins.
PendingOffer(o) == offers[o] # Absent /\ offers[o].status = "pending"
ListingActive(o) == listings[offers[o].listing].status = "active"

\* updateOffer, by its author: the dates it gives must lie in the listing.
UpdateOffer(h, u, o, s, e, priced) ==
    /\ Accept(h, "reoffer")
    /\ PendingOffer(o)
    /\ offers[o].user = u
    /\ ListingActive(o)
    /\ \/ s = offers[o].start /\ e = offers[o].end
       \/ Within(s, e, listings[offers[o].listing])
    /\ Goto(h, [Idle EXCEPT
            !.todo = SaveOffer \o <<"updated">>, !.offer = o,
            !.entity = [offers[o] EXCEPT !.start = s, !.end = e, !.priced = priced]])

\* cancelOffer does not look at the listing.
CancelOffer(h, u, o) ==
    /\ Accept(h, "withdraw")
    /\ PendingOffer(o)
    /\ offers[o].user = u
    /\ Goto(h, [Idle EXCEPT
            !.todo = SaveOffer \o <<"withdrawn">>, !.offer = o,
            !.entity = [offers[o] EXCEPT !.status = "cancelled"]])

\* What respondToOffer does when the answer is yes: the offer itself is saved
\* at the very end.
AcceptSteps(row) ==
    <<"book", "rejectOthers">> \o (IF row.priced THEN <<"deal">> ELSE <<>>)
        \o <<"accepted", "findRejected", "tellRejected">> \o SaveOffer

RespondToOffer(h, u, o, accept) ==
    /\ Accept(h, "respond")
    /\ PendingOffer(o)
    /\ listings[offers[o].listing].user = u
    /\ ListingActive(o)
    /\ Goto(h, [Idle EXCEPT
            !.todo = IF accept THEN AcceptSteps(offers[o]) ELSE <<"rejected">> \o SaveOffer,
            !.listing = offers[o].listing, !.offer = o,
            !.entity = [offers[o] EXCEPT !.status = IF accept THEN "accepted"
                                                    ELSE "rejected"]])

CanComplete(row) == row.status = "accepted" /\ now >= row.end

CompleteSteps == <<"complete">> \o SaveOffer \o <<"completed">>

\* completeSwap, by either party and after the end of the offer's period; both
\* are told, which is one notice here.
CompleteSwap(h, u, o) ==
    /\ Accept(h, "complete")
    /\ offers[o] # Absent
    /\ u \in {offers[o].user, listings[offers[o].listing].user}
    /\ CanComplete(offers[o])
    /\ Goto(h, [Idle EXCEPT
            !.todo = CompleteSteps,
            !.listing = offers[o].listing, !.offer = o,
            !.entity = [offers[o] EXCEPT !.status = "completed"]])

----------------------------------------------------------------------------
(* Steps of a handler after an await.                                      *)

\* Active listings of the parking that meet the new one.
Blocking(row) == {l \in ListingIds :
    /\ listings[l] # Absent
    /\ listings[l].parking = row.parking
    /\ listings[l].status = "active"
    /\ Meet(listings[l], row)}

CheckListing(h) ==
    /\ At(h, "checkListing")
    /\ IF Blocking(calls[h].entity) # {} THEN Goto(h, Idle) ELSE Advance(h, calls[h])
    /\ UNCHANGED <<tables, notices, now, requests, failures>>

InsertListing(h, l) ==
    /\ At(h, "insertListing")
    /\ was[l] = {}
    /\ StoreListing(l, calls[h].entity)
    /\ Advance(h, calls[h])
    /\ UNCHANGED <<offers, deals, moved, notices, now, requests, failures>>

\* The listing was loaded with its offers, and save compares these too: an
\* offer made since would lose its listing, which the column forbids.
SelectListing(h) ==
    /\ At(h, "selectListing")
    /\ LET c == calls[h]
       IN  IF OffersOf(c.listing) # c.seen THEN Goto(h, Idle)
           ELSE Advance(h, [c EXCEPT !.cols = Dirty(c.entity, listings[c.listing])])
    /\ UNCHANGED <<tables, notices, now, requests, failures>>

WriteListing(h) ==
    /\ At(h, "writeListing")
    /\ LET c == calls[h]
       IN  /\ StoreListing(c.listing, Patched(listings[c.listing], c.entity, c.cols))
           /\ moved' = IF {"parking", "start", "end"} \cap c.cols # {} THEN moved \cup {c.listing}
                       ELSE moved
           /\ Advance(h, [c EXCEPT !.entity = Absent, !.cols = {}])
    /\ UNCHANGED <<offers, deals, notices, now, requests, failures>>

CancelOffers(h) ==
    /\ At(h, "cancelOffers")
    /\ SetOffers(PendingOf(calls[h].listing), "cancelled")
    /\ Advance(h, calls[h])
    /\ UNCHANGED <<listings, deals, moved, notices, now, requests, failures>>

\* The author of one of the others is told per await.
TellOthers(h, s, type) ==
    /\ At(h, s)
    /\ LET c == calls[h]
       IN  IF c.others = {} THEN Advance(h, c) /\ UNCHANGED notices
           ELSE \E o \in c.others :
                    /\ notices' = notices \cup {<<type, o>>}
                    /\ Goto(h, [c EXCEPT !.others = @ \ {o}])
    /\ UNCHANGED <<tables, now, requests, failures>>

\* One offer per user and listing that is pending or accepted.
CheckOffer(h) ==
    /\ At(h, "checkOffer")
    /\ LET row == calls[h].entity
       IN  IF \E o \in OffersOf(row.listing) : /\ offers[o].user = row.user
                                               /\ offers[o].status \in {"pending", "accepted"}
           THEN Goto(h, Idle) ELSE Advance(h, calls[h])
    /\ UNCHANGED <<tables, notices, now, requests, failures>>

InsertOffer(h, o) ==
    /\ At(h, "insertOffer")
    /\ was[o] = {}
    /\ StoreOffer(o, calls[h].entity)
    /\ Advance(h, [calls[h] EXCEPT !.offer = o, !.entity = Absent])
    /\ UNCHANGED <<listings, deals, moved, notices, now, requests, failures>>

SelectOffer(h) ==
    /\ At(h, "selectOffer")
    /\ LET c == calls[h]
       IN  Advance(h, [c EXCEPT !.cols = Dirty(c.entity, offers[c.offer])])
    /\ UNCHANGED <<tables, notices, now, requests, failures>>

WriteOffer(h) ==
    /\ At(h, "writeOffer")
    /\ LET c == calls[h]
       IN  /\ StoreOffer(c.offer, Patched(offers[c.offer], c.entity, c.cols))
           /\ Advance(h, [c EXCEPT !.entity = Absent, !.cols = {}])
    /\ UNCHANGED <<listings, deals, moved, notices, now, requests, failures>>

\* The listing is booked, or completed, whatever its status has become.
MarkListing(h, s, status) ==
    /\ At(h, s)
    /\ LET l == calls[h].listing
       IN  StoreListing(l, [listings[l] EXCEPT !.status = status])
    /\ Advance(h, calls[h])
    /\ UNCHANGED <<offers, deals, moved, notices, now, requests, failures>>

\* The pending offers for the same listing.
Rivals(o) == PendingOf(offers[o].listing) \ {o}

RejectOthers(h) ==
    /\ At(h, "rejectOthers")
    /\ SetOffers(Rivals(calls[h].offer), "rejected")
    /\ Advance(h, calls[h])
    /\ UNCHANGED <<listings, deals, moved, notices, now, requests, failures>>

\* A pending transaction; nothing in the code ever completes one.
CreateDeal(h) ==
    /\ At(h, "deal")
    /\ deals' = [deals EXCEPT ![calls[h].offer] = @ + 1]
    /\ Advance(h, calls[h])
    /\ UNCHANGED <<listings, offers, was, moved, notices, now, requests, failures>>

\* All rejected offers of the listing, also those rejected long ago.
FindRejected(h) ==
    /\ At(h, "findRejected")
    /\ LET c == calls[h]
       IN  Advance(h, [c EXCEPT !.others = {o \in OffersOf(c.listing) \ {c.offer} :
                                                offers[o].status = "rejected"}])
    /\ UNCHANGED <<tables, notices, now, requests, failures>>

\* A notification about the offer of the handler.
Tell(h, type) ==
    /\ At(h, type)
    /\ notices' = notices \cup {<<type, calls[h].offer>>}
    /\ Advance(h, calls[h])
    /\ UNCHANGED <<tables, now, requests, failures>>

\* A query fails or the replica is killed: what was written stays.
Fail(h) ==
    /\ calls[h] # Idle
    /\ failures < MaxFailures
    /\ failures' = failures + 1
    /\ Goto(h, Idle)
    /\ UNCHANGED <<tables, notices, now, requests>>

Tick ==
    /\ now < MaxTime
    /\ now' = now + 1
    /\ UNCHANGED <<tables, calls, notices, requests, failures>>

----------------------------------------------------------------------------
Init ==
    /\ listings = [l \in ListingIds |-> Absent]
    /\ offers = [o \in OfferIds |-> Absent]
    /\ deals = [o \in OfferIds |-> 0]
    /\ calls = [h \in Handlers |-> Idle]
    /\ notices = {}
    /\ now = 0
    /\ was = [x \in ListingIds \cup OfferIds |-> {}]
    /\ moved = {}
    /\ requests = 0
    /\ failures = 0

Request(h, u) ==
    \/ \E s, e \in Time, priced \in BOOLEAN :
        \/ \E p \in Spots : \/ CreateListing(h, u, p, s, e, priced)
                            \/ \E l \in ListingIds : UpdateListing(h, u, l, p, s, e, priced)
        \/ \E l \in ListingIds : CreateOffer(h, u, l, s, e, priced)
        \/ \E o \in OfferIds : UpdateOffer(h, u, o, s, e, priced)
    \/ \E l \in ListingIds : CancelListing(h, u, l)
    \/ \E o \in OfferIds : \/ CancelOffer(h, u, o)
                           \/ \E accept \in BOOLEAN : RespondToOffer(h, u, o, accept)
                           \/ CompleteSwap(h, u, o)

Step(h) ==
    \/ CheckListing(h)
    \/ \E l \in ListingIds : InsertListing(h, l)
    \/ SelectListing(h)
    \/ WriteListing(h)
    \/ CancelOffers(h)
    \/ TellOthers(h, "tellCancelled", "cancelled")
    \/ CheckOffer(h)
    \/ \E o \in OfferIds : InsertOffer(h, o)
    \/ SelectOffer(h)
    \/ WriteOffer(h)
    \/ MarkListing(h, "book", "booked")
    \/ RejectOthers(h)
    \/ CreateDeal(h)
    \/ FindRejected(h)
    \/ TellOthers(h, "tellRejected", "rejected")
    \/ MarkListing(h, "complete", "completed")
    \/ \E type \in NoticeType : Tell(h, type)

Next ==
    \/ \E h \in Handlers : \/ \E u \in Users : Request(h, u)
                           \/ Step(h)
                           \/ Fail(h)
    \/ Tick

Spec == Init /\ [][Next]_swapVars

\* A request that was accepted keeps running; clients owe nothing.
FairSpec == Spec /\ \A h \in Handlers : WF_swapVars(Step(h))

----------------------------------------------------------------------------
(* What listings and offers promise, however requests interleave and fail. *)

Listed == {l \in ListingIds : listings[l] # Absent}
Offered == {o \in OfferIds : offers[o] # Absent}

\* Every variable has its type: rows, handlers and history are what the
\* entities and the handlers of spotswap.service.ts can build.
SwapTypeOK ==
    /\ listings \in [ListingIds -> SwapListing \cup {Absent}]
    /\ offers \in [OfferIds -> SwapOffer \cup {Absent}]
    /\ deals \in [OfferIds -> Nat]
    /\ \A h \in Handlers :
        /\ calls[h].todo \in Seq(Steps)
        /\ calls[h].listing \in ListingIds \cup {NoId}
        /\ calls[h].offer \in OfferIds \cup {NoId}
        /\ calls[h].entity \in SwapListing \cup SwapOffer \cup {Absent}
        /\ calls[h].seen \cup calls[h].others \subseteq OfferIds
    /\ notices \subseteq NoticeType \X OfferIds
    /\ now \in Time
    /\ was \in [ListingIds \cup OfferIds -> SUBSET (SwapListingStatus \cup SwapOfferStatus)]
    /\ moved \subseteq ListingIds
    /\ requests \in 0..MaxRequests /\ failures \in 0..MaxFailures

\* An offer is accepted, or completed, only after its listing was booked:
\* respondToOffer books the listing first and saves the offer last, and
\* completeSwap only takes an accepted offer.
WinnersBookedTheListing ==
    \A o \in Offered : offers[o].status \in {"accepted", "completed"}
        => "booked" \in was[offers[o].listing]

\* A listing is completed only if one of its offers was accepted, whatever a
\* handler that died or a stale copy has left behind.
CompletedWasWon ==
    \A l \in Listed : listings[l].status = "completed"
        => \E o \in OffersOf(l) : "accepted" \in was[o]

----------------------------------------------------------------------------
(* What they promise while requests come one at a time, and the market     *)
(* that they are as long as none of them dies either.                      *)

\* Active listings of a spot do not meet, unless updateListing, which looks at
\* no other listing, moved one of them in time or to another spot.
ActiveListingsApart ==
    \A l1, l2 \in Listed :
        (/\ l1 # l2
         /\ listings[l1].parking = listings[l2].parking
         /\ listings[l1].status = "active" /\ listings[l2].status = "active"
         /\ Meet(listings[l1], listings[l2])) => {l1, l2} \cap moved # {}

\* A listing is won by one offer: respondToOffer books it before anything else,
\* and answers offers for active listings only.
OneWinner ==
    \A o1, o2 \in Offered :
        (/\ offers[o1].listing = offers[o2].listing
         /\ {offers[o1].status, offers[o2].status} \subseteq {"accepted", "completed"})
            => o1 = o2

\* No exchange is completed before the period of its offer is over; the
\* period of an offer cannot change once it was accepted.
CompletedAfterEnd ==
    \A o \in Offered : offers[o].status = "completed" => now >= offers[o].end

\* The service implements the market.  A handler's steps after its first write
\* are taken as done: the offer it will save, the rivals it will turn down,
\* the offers it will cancel, the transaction it will create.
Ahead(h) == {calls[h].todo[i] : i \in 1..Len(calls[h].todo)}

Committed(h) == calls[h].entity # Absent
                /\ calls[h].entity.status \in {"accepted", "completed"}
                /\ Ahead(h) \cap {"book", "complete"} = {}

Outcome(o) ==
    IF offers[o] = Absent THEN "none"
    ELSE IF \E h \in Handlers : Committed(h) /\ calls[h].offer = o
    THEN calls[CHOOSE h \in Handlers : Committed(h) /\ calls[h].offer = o].entity.status
    ELSE IF \E h \in Handlers : /\ Committed(h) /\ "rejectOthers" \in Ahead(h)
                                /\ o \in Rivals(calls[h].offer)
    THEN "rejected"
    ELSE IF \E h \in Handlers : /\ "cancelOffers" \in Ahead(h)
                                /\ "writeListing" \notin Ahead(h)
                                /\ o \in PendingOf(calls[h].listing)
    THEN "cancelled"
    ELSE offers[o].status

Market == INSTANCE SwapMarket WITH
    listing <- [l \in ListingIds |->
                    IF listings[l] = Absent THEN "none" ELSE listings[l].status],
    offer <- [o \in OfferIds |-> Outcome(o)],
    target <- [o \in OfferIds |->
                    IF offers[o] = Absent THEN NoId ELSE offers[o].listing],
    owed <- {o \in OfferIds : \/ deals[o] > 0
                              \/ \E h \in Handlers : /\ Committed(h) /\ calls[h].offer = o
                                                     /\ "deal" \in Ahead(h)}

ImplementsMarket == Market!Spec

----------------------------------------------------------------------------
(* Progress                                                                *)

\* Who is told that the offer is accepted gets it accepted, unless the request
\* dies: the notification comes before the offer is saved.
AcceptanceComesTrue ==
    \A o \in OfferIds :
        <<"accepted", o>> \in notices ~> "accepted" \in was[o] \/ failures > 0
=============================================================================

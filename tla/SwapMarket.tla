----------------------------- MODULE SwapMarket -----------------------------
(***************************************************************************)
(* What the spot-swap service promises its users: a market in which each   *)
(* listing and each offer changes in one step.  A listing goes to at most  *)
(* one offer, accepting it turns all the others down, and a listing that   *)
(* is withdrawn takes its open offers with it.                             *)
(***************************************************************************)
CONSTANTS ListingIds, OfferIds, NoId

VARIABLES
    listing,    \* listing -> "none" or its status
    offer,      \* offer -> "none" or its status
    target,     \* offer -> the listing it is for, NoId before it is made
    owed        \* offers that have a transaction

marketVars == <<listing, offer, target, owed>>

For(l) == {o \in OfferIds : target[o] = l}
Pending(l) == {o \in For(l) : offer[o] = "pending"}

Init ==
    /\ listing = [l \in ListingIds |-> "none"]
    /\ offer = [o \in OfferIds |-> "none"]
    /\ target = [o \in OfferIds |-> NoId]
    /\ owed = {}

Publish(l) ==
    /\ listing[l] = "none"
    /\ listing' = [listing EXCEPT ![l] = "active"]
    /\ UNCHANGED <<offer, target, owed>>

Withdraw(l) ==
    /\ listing[l] = "active"
    /\ listing' = [listing EXCEPT ![l] = "cancelled"]
    /\ offer' = [o \in OfferIds |-> IF o \in Pending(l) THEN "cancelled" ELSE offer[o]]
    /\ UNCHANGED <<target, owed>>

Offer(o, l) ==
    /\ offer[o] = "none"
    /\ listing[l] = "active"
    /\ offer' = [offer EXCEPT ![o] = "pending"]
    /\ target' = [target EXCEPT ![o] = l]
    /\ UNCHANGED <<listing, owed>>

\* The offer is taken back by its author, or turned down.
Close(o, status) ==
    /\ offer[o] = "pending"
    /\ offer' = [offer EXCEPT ![o] = status]
    /\ UNCHANGED <<listing, target, owed>>

Take(o, priced) ==
    LET l == target[o]
    IN  /\ offer[o] = "pending"
        /\ listing[l] = "active"
        /\ listing' = [listing EXCEPT ![l] = "booked"]
        /\ offer' = [x \in OfferIds |-> IF x = o THEN "accepted"
                                        ELSE IF x \in Pending(l) THEN "rejected"
                                        ELSE offer[x]]
        /\ owed' = IF priced THEN owed \cup {o} ELSE owed
        /\ UNCHANGED target

Finish(o) ==
    /\ offer[o] = "accepted"
    /\ listing' = [listing EXCEPT ![target[o]] = "completed"]
    /\ offer' = [offer EXCEPT ![o] = "completed"]
    /\ UNCHANGED <<target, owed>>

Next ==
    \/ \E l \in ListingIds : Publish(l) \/ Withdraw(l)
    \/ \E o \in OfferIds :
        \/ \E l \in ListingIds : Offer(o, l)
        \/ \E status \in {"cancelled", "rejected"} : Close(o, status)
        \/ \E priced \in BOOLEAN : Take(o, priced)
        \/ Finish(o)

Spec == Init /\ [][Next]_marketVars
=============================================================================

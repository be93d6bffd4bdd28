------------------------------ MODULE Payments ------------------------------
(***************************************************************************)
(* PaymentsService (src/modules/payments/payments.service.ts) on top of    *)
(* BookingsService: payment intents are created at Stripe and recorded in  *)
(* the payments table, Stripe's webhooks move payments on and confirm      *)
(* bookings, refunds go to Stripe first and may cancel the booking.        *)
(*                                                                         *)
(* Stripe is external: an intent is charged or declined when the customer  *)
(* acts, and each outcome becomes an event that Stripe delivers until the  *)
(* webhook answers 200, in any order, possibly again after that.           *)
(* A payment handler is a record in pays; when it calls BookingsService it *)
(* runs the booking frame of the same handler in calls (pc "nested").      *)
(***************************************************************************)
EXTENDS Bookings

CONSTANTS
    IntentIds,      \* payment intents Stripe may create
    Amounts,        \* the amounts customers offer to pay
    RefundAmounts,  \* the amounts of refund requests; 0 when left out
    Level,          \* user -> verification level
    Linked,         \* users that have a Stripe customer from the start
    RawBody,        \* does the application keep the raw body of requests?
    MaxDuplicates,  \* bound on events delivered again after a 200
    NoEvent

VARIABLES
    payments,   \* the table, by stripePaymentIntentId: intent -> row
    pays,       \* the payment handlers
    intents,    \* Stripe: intent -> what Stripe knows of it
    events,     \* Stripe: events not acknowledged yet
    customers,  \* Stripe: user -> number of customers created for the user
    linked,     \* users whose stripeCustomerId column is set
    receipts,   \* notifications about payments created so far
    duplicates  \* acknowledged events that Stripe kept

stripeVars == <<intents, events, customers, duplicates>>
payVars == <<payments, pays, stripeVars, linked, receipts>>
vars == <<bookingVars, payVars>>

ASSUME PaymentConstants ==
    /\ Amounts \subseteq Nat \ {0}
    /\ RefundAmounts \subseteq Nat
    /\ Level \in [Users -> 0..4]
    /\ Linked \subseteq Users
    /\ RawBody \in BOOLEAN
    /\ MaxDuplicates \in Nat

PaymentStatus == {"pending", "succeeded", "failed", "refunded", "canceled"}
Payment == [booking: BookingIds, amount: Amounts, status: PaymentStatus, refundId: BOOLEAN]
PaymentColumns == {"booking", "amount", "status", "refundId"}

ASSUME AbsentIsNoPayment == Absent \notin Payment

EventType == {"succeeded", "failed"}
Event == [intent: IntentIds, type: EventType]

ASSUME NoEventIsNoEvent == NoEvent \notin Event

\* refunded counts what went back to the customer.
Intent == [state: {"none", "open", "captured"}, booking: BookingIds \cup {NoId},
           amount: Nat, refunded: Nat]
NoIntent == [state |-> "none", booking |-> NoId, amount |-> 0, refunded |-> 0]

PayPc == {"idle", "booking", "paid", "customer", "link", "intent", "record",
          "load", "refund", "select", "write", "reinsert",
          "confirm", "cancel", "nested", "notify"}
\* customer is the stripeCustomerId of the user as loaded, set or not.
Pay == [pc: PayPc, user: Users \cup {NoId}, customer: BOOLEAN,
        booking: BookingIds \cup {NoId}, amount: Nat,
        intent: IntentIds \cup {NoId}, entity: Payment \cup {Absent},
        cols: SUBSET PaymentColumns, event: Event \cup {NoEvent}]
PayIdle == [pc |-> "idle", user |-> NoId, customer |-> FALSE, booking |-> NoId, amount |-> 0,
            intent |-> NoId, entity |-> Absent, cols |-> {}, event |-> NoEvent]

\* What the renter is told of: a payment, with its amount, or a refund.
Receipt == [type: EventType \cup {"refunded"}, intent: IntentIds, sum: Nat]

\* Payments up to 50, 200 and 1000 at levels 1 to 3, nothing at level 0, and
\* any amount at level 4.
WithinLimit(level, amount) ==
    CASE level = 0 -> amount = 0
      [] level = 1 -> amount <= 50
      [] level = 2 -> amount <= 200
      [] level = 3 -> amount <= 1000
      [] level = 4 -> TRUE

PayGoto(h, p) == pays' = [pays EXCEPT ![h] = p]
PayNext(h, pc) == PayGoto(h, [pays[h] EXCEPT !.pc = pc])

----------------------------------------------------------------------------
(* Faulty variants of definitions below, each a slip that a change of the  *)
(* code could bring; the properties at the end must notice them.           *)

WithPaymentStatus_Paid(row, type) == [row EXCEPT !.status = "succeeded"]
WithPaymentStatus_EventName(row, type) == [row EXCEPT !.status = "processing"]
AfterPaymentSave_NoConfirm(p) ==
    IF p.event = NoEvent /\ p.amount \in {0, p.entity.amount} THEN "cancel" ELSE "notify"
RefundError_Swallowed(p) ==
    [p EXCEPT !.pc = "select", !.entity.status = "refunded", !.entity.refundId = TRUE]
AfterPaymentSave_ZeroIsPartial(p) ==
    CASE p.event # NoEvent -> IF p.event.type = "succeeded" THEN "confirm" ELSE "notify"
      [] OTHER -> IF p.amount = p.entity.amount THEN "cancel" ELSE "notify"
LoadPayment_Acknowledged(h) ==
    /\ pays[h].pc = "load"
    /\ LET p == pays[h]
           row == payments[p.intent]
       IN  IF row = Absent
           THEN PayGoto(h, PayIdle) /\ events' = events \ {p.event}
           ELSE /\ PayGoto(h, [p EXCEPT !.pc = "select",
                                        !.entity = [row EXCEPT !.status = p.event.type]])
                /\ UNCHANGED events
    /\ UNCHANGED <<bookingVars, payments, intents, customers, duplicates, linked, receipts>>

----------------------------------------------------------------------------
(* createPaymentIntent                                                     *)

\* The user is loaded and the amount held against the level's limit.
CreatePaymentIntent(h, u, b, amount) ==
    /\ pays[h].pc = "idle"
    /\ Accept(h, "pay")
    /\ WithinLimit(Level[u], amount)
    /\ PayGoto(h, [PayIdle EXCEPT !.pc = "booking", !.user = u, !.booking = b,
                                  !.amount = amount, !.customer = u \in linked])
    /\ UNCHANGED <<bookings, calls, inbox, now, was, failures>>
    /\ UNCHANGED <<payments, stripeVars, linked, receipts>>

\* The booking must be the caller's and pending or confirmed.
CheckPayableBooking(h) ==
    /\ pays[h].pc = "booking"
    /\ LET row == bookings[pays[h].booking]
       IN  IF row # Absent /\ row.user = pays[h].user /\ row.status \in Live
           THEN PayNext(h, "paid") ELSE PayGoto(h, PayIdle)
    /\ UNCHANGED <<bookingVars, payments, stripeVars, linked, receipts>>

AlreadyPaid(b) ==
    \E i \in IntentIds : /\ payments[i] # Absent
                         /\ payments[i].booking = b
                         /\ payments[i].status = "succeeded"

\* No payment of the booking may have succeeded.  Whether the user has a
\* customer was read with the user: two requests may each create one.
CheckNotPaid(h) ==
    /\ pays[h].pc = "paid"
    /\ IF AlreadyPaid(pays[h].booking) THEN PayGoto(h, PayIdle)
       ELSE PayNext(h, IF pays[h].customer THEN "intent" ELSE "customer")
    /\ UNCHANGED <<bookingVars, payments, stripeVars, linked, receipts>>

CreateCustomer(h) ==
    /\ pays[h].pc = "customer"
    /\ customers' = [customers EXCEPT ![pays[h].user] = @ + 1]
    /\ PayNext(h, "link")
    /\ UNCHANGED <<bookingVars, payments, intents, events, duplicates, linked, receipts>>

LinkCustomer(h) ==
    /\ pays[h].pc = "link"
    /\ linked' = linked \cup {pays[h].user}
    /\ PayNext(h, "intent")
    /\ UNCHANGED <<bookingVars, payments, stripeVars, receipts>>

\* Stripe creates the intent; the customer can pay from now on.
CreateIntent(h, i) ==
    /\ pays[h].pc = "intent"
    /\ intents[i].state = "none"
    /\ intents' = [intents EXCEPT ![i] =
            [state |-> "open", booking |-> pays[h].booking,
             amount |-> pays[h].amount, refunded |-> 0]]
    /\ PayGoto(h, [pays[h] EXCEPT !.pc = "record", !.intent = i])
    /\ UNCHANGED <<bookingVars, payments, events, customers, duplicates, linked, receipts>>

\* Stripe answers with an error, and so does the request.
IntentRefused(h) ==
    /\ pays[h].pc = "intent"
    /\ PayGoto(h, PayIdle)
    /\ UNCHANGED <<bookingVars, payments, stripeVars, linked, receipts>>

\* The payment is recorded, unless the booking it refers to was deleted.
RecordPayment(h) ==
    /\ pays[h].pc = "record"
    /\ payments' = IF bookings[pays[h].booking] = Absent THEN payments
                   ELSE [payments EXCEPT ![pays[h].intent] =
                            [booking |-> pays[h].booking, amount |-> pays[h].amount,
                             status |-> "pending", refundId |-> FALSE]]
    /\ PayGoto(h, PayIdle)
    /\ UNCHANGED <<bookingVars, stripeVars, linked, receipts>>

----------------------------------------------------------------------------
(* Stripe and the customer                                                 *)

Charge(i) ==
    /\ intents[i].state = "open"
    /\ intents' = [intents EXCEPT ![i].state = "captured"]
    /\ events' = events \cup {[intent |-> i, type |-> "succeeded"]}
    /\ UNCHANGED <<bookingVars, payments, pays, customers, duplicates, linked, receipts>>

\* A declined intent stays open: the customer may try another card.
Decline(i) ==
    /\ intents[i].state = "open"
    /\ events' = events \cup {[intent |-> i, type |-> "failed"]}
    /\ UNCHANGED <<bookingVars, payments, pays, intents, customers, duplicates, linked, receipts>>

----------------------------------------------------------------------------
(* processStripeWebhook and updatePaymentStatus                            *)

\* The signature is verified over the raw body; without one the webhook
\* answers 500 and nothing happens.
Deliver(h, event) ==
    /\ RawBody
    /\ pays[h].pc = "idle" /\ calls[h].pc = "idle"
    /\ event \in events
    /\ PayGoto(h, [PayIdle EXCEPT !.pc = "load", !.intent = event.intent, !.event = event])
    /\ UNCHANGED <<bookingVars, payments, stripeVars, linked, receipts>>

\* The entity updatePaymentStatus saves; the status it had does not matter.
WithPaymentStatus(row, type) == [row EXCEPT !.status = type]

\* An event for an unknown intent is refused; Stripe will deliver it again.
LoadPayment(h) ==
    /\ pays[h].pc = "load"
    /\ LET row == payments[pays[h].intent]
       IN  IF row = Absent THEN PayGoto(h, PayIdle)
           ELSE PayGoto(h, [pays[h] EXCEPT
                    !.pc = "select",
                    !.entity = WithPaymentStatus(row, pays[h].event.type)])
    /\ UNCHANGED <<bookingVars, payments, stripeVars, linked, receipts>>

\* What follows the save: a success confirms the booking, a total refund
\* (no amount, or the whole amount) cancels it.
AfterPaymentSave(p) ==
    CASE p.event # NoEvent -> IF p.event.type = "succeeded" THEN "confirm" ELSE "notify"
      [] OTHER -> IF p.amount \in {0, p.entity.amount} THEN "cancel" ELSE "notify"

SavePaymentSelect(h) ==
    /\ pays[h].pc = "select"
    /\ LET row == payments[pays[h].intent]
       IN  IF row = Absent THEN PayNext(h, "reinsert")
           ELSE PayGoto(h, [pays[h] EXCEPT !.pc = "write",
                                           !.cols = Dirty(pays[h].entity, row)])
    /\ UNCHANGED <<bookingVars, payments, stripeVars, linked, receipts>>

SavePaymentWrite(h) ==
    /\ pays[h].pc = "write"
    /\ payments' = [payments EXCEPT ![pays[h].intent] =
                        Updated(@, pays[h].entity, pays[h].cols)]
    /\ PayGoto(h, [pays[h] EXCEPT !.pc = AfterPaymentSave(pays[h]), !.cols = {}])
    /\ UNCHANGED <<bookingVars, stripeVars, linked, receipts>>

\* save found no row (it went with its booking) and inserts it again, which
\* fails unless the booking is back and the row is not.
SavePaymentInsert(h) ==
    /\ pays[h].pc = "reinsert"
    /\ IF /\ payments[pays[h].intent] = Absent
          /\ bookings[pays[h].entity.booking] # Absent
       THEN /\ payments' = [payments EXCEPT ![pays[h].intent] = pays[h].entity]
            /\ PayNext(h, AfterPaymentSave(pays[h]))
       ELSE PayGoto(h, PayIdle) /\ UNCHANGED payments
    /\ UNCHANGED <<bookingVars, stripeVars, linked, receipts>>

\* bookingsService.updateStatus(..., 'system', true), refused when the booking
\* does not exist any more.
StatusFor(pc) == IF pc = "confirm" THEN "confirmed" ELSE "canceled"

CallUpdateStatus(h) ==
    /\ pays[h].pc \in {"confirm", "cancel"}
    /\ bookings[pays[h].entity.booking] # Absent
    /\ BeginUpdateStatus(h, pays[h].entity.booking, StatusFor(pays[h].pc), "system")
    /\ PayNext(h, "nested")
    /\ UNCHANGED <<requests, payments, stripeVars, linked, receipts>>

CallUpdateStatusFails(h) ==
    /\ pays[h].pc \in {"confirm", "cancel"}
    /\ bookings[pays[h].entity.booking] = Absent
    /\ PayGoto(h, PayIdle)
    /\ UNCHANGED <<bookingVars, payments, stripeVars, linked, receipts>>

UpdateStatusReturns(h) ==
    /\ pays[h].pc = "nested"
    /\ calls[h].pc = "idle"
    /\ PayNext(h, "notify")
    /\ UNCHANGED <<bookingVars, payments, stripeVars, linked, receipts>>

\* The sum that a renter is told of: amount || payment.amount.
Sum(p) == IF p.amount = 0 THEN p.entity.amount ELSE p.amount

\* The renter is told and the request ends: for a webhook with the 200 that
\* makes Stripe forget the event, or nearly always so.
NotifyPayment(h) ==
    /\ pays[h].pc = "notify"
    /\ LET p == pays[h]
           type == IF p.event = NoEvent THEN "refunded" ELSE p.event.type
       IN  /\ receipts' = receipts \cup {[type |-> type, intent |-> p.intent, sum |-> Sum(p)]}
           /\ \/ events' = events \ {p.event} /\ UNCHANGED duplicates
              \/ /\ p.event # NoEvent
                 /\ duplicates < MaxDuplicates
                 /\ duplicates' = duplicates + 1
                 /\ UNCHANGED events
    /\ PayGoto(h, PayIdle)
    /\ UNCHANGED <<bookingVars, payments, intents, customers, linked>>

----------------------------------------------------------------------------
(* refundPayment                                                           *)

RefundPayment(h, i, amount) ==
    /\ pays[h].pc = "idle"
    /\ Accept(h, "refund")
    /\ payments[i] # Absent
    /\ payments[i].status = "succeeded"
    /\ PayGoto(h, [PayIdle EXCEPT !.pc = "refund", !.intent = i, !.amount = amount,
                                  !.entity = payments[i]])
    /\ UNCHANGED <<bookings, calls, inbox, now, was, failures>>
    /\ UNCHANGED <<payments, stripeVars, linked, receipts>>

\* Stripe refunds the given amount, or all that is left when none is given
\* (the service gives none for 0), and refuses more than what is left.
Left(i) == intents[i].amount - intents[i].refunded

Refundable(i, sum) ==
    intents[i].state = "captured" /\ sum > 0 /\ sum <= Left(i)

AsRefunded(row) == [row EXCEPT !.status = "refunded", !.refundId = TRUE]

\* The error of refunds.create is thrown on, and the request ends.
RefundError(p) == PayIdle

RefundAtStripe(h) ==
    /\ pays[h].pc = "refund"
    /\ LET p == pays[h]
           sum == IF p.amount = 0 THEN Left(p.intent) ELSE p.amount
       IN  IF Refundable(p.intent, sum)
           THEN /\ intents' = [intents EXCEPT ![p.intent].refunded = @ + sum]
                /\ PayGoto(h, [p EXCEPT !.pc = "select", !.entity = AsRefunded(@)])
           ELSE PayGoto(h, RefundError(p)) /\ UNCHANGED intents
    /\ UNCHANGED <<bookingVars, payments, events, customers, duplicates, linked, receipts>>

----------------------------------------------------------------------------
(* BookingsService as the payments see it: deleting a booking deletes its  *)
(* payments.  That is what PostgreSQL makes of the foreign key of Payment, *)
(* which payment.entity.ts:39 declares with onDelete: 'CASCADE'; no code   *)
(* of a service is involved.                                               *)

Cascade ==
    payments' = [i \in IntentIds |->
        IF payments[i] # Absent /\ bookings'[payments[i].booking] = Absent
        THEN Absent ELSE payments[i]]

BookingRequest(h) ==
    /\ pays[h].pc = "idle"
    /\ \E u \in Users : Request(h, u)
    /\ UNCHANGED payVars

\* An error in the booking frame ends the payment handler that called it.
BookingStep(h) ==
    /\ Step(h)
    /\ Cascade
    /\ pays' = IF InsertFails(h) THEN [pays EXCEPT ![h] = PayIdle] ELSE pays
    /\ UNCHANGED <<stripeVars, linked, receipts>>

\* The replica dies, or an await of the handler throws.
HandlerFails(h) ==
    /\ calls[h].pc # "idle" \/ pays[h].pc # "idle"
    /\ failures < MaxFailures
    /\ failures' = failures + 1
    /\ Goto(h, Idle)
    /\ PayGoto(h, PayIdle)
    /\ UNCHANGED <<bookings, inbox, now, was, requests>>
    /\ UNCHANGED <<payments, stripeVars, linked, receipts>>

Clock == Tick /\ UNCHANGED payVars

----------------------------------------------------------------------------
PayInit ==
    /\ Init
    /\ payments = [i \in IntentIds |-> Absent]
    /\ pays = [h \in Handlers |-> PayIdle]
    /\ intents = [i \in IntentIds |-> NoIntent]
    /\ events = {}
    /\ customers = [u \in Users |-> IF u \in Linked THEN 1 ELSE 0]
    /\ linked = Linked
    /\ receipts = {}
    /\ duplicates = 0

PayRequest(h) ==
    \/ \E u \in Users, b \in BookingIds, a \in Amounts : CreatePaymentIntent(h, u, b, a)
    \/ \E i \in IntentIds, a \in RefundAmounts : RefundPayment(h, i, a)

PayStep(h) ==
    \/ CheckPayableBooking(h)
    \/ CheckNotPaid(h)
    \/ CreateCustomer(h)
    \/ LinkCustomer(h)
    \/ \E i \in IntentIds : CreateIntent(h, i)
    \/ IntentRefused(h)
    \/ RecordPayment(h)
    \/ LoadPayment(h)
    \/ SavePaymentSelect(h)
    \/ SavePaymentWrite(h)
    \/ SavePaymentInsert(h)
    \/ CallUpdateStatus(h)
    \/ CallUpdateStatusFails(h)
    \/ UpdateStatusReturns(h)
    \/ NotifyPayment(h)
    \/ RefundAtStripe(h)

PayNextState ==
    \/ \E h \in Handlers : \/ PayRequest(h)
                           \/ PayStep(h)
                           \/ BookingRequest(h)
                           \/ BookingStep(h)
                           \/ HandlerFails(h)
                           \/ \E event \in events : Deliver(h, event)
    \/ \E i \in IntentIds : Charge(i) \/ Decline(i)
    \/ Clock

PaySpec == PayInit /\ [][PayNextState]_vars

\* Handlers keep running, and Stripe keeps delivering an event that has not
\* been acknowledged; customers and clients owe nothing.
FairPaySpec ==
    /\ PaySpec
    /\ \A h \in Handlers : WF_vars(PayStep(h) \/ BookingStep(h))
    /\ \A i \in IntentIds, t \in EventType :
           WF_vars(\E h \in Handlers : Deliver(h, [intent |-> i, type |-> t]))

----------------------------------------------------------------------------
(* What payments promise, however requests and webhooks interleave.        *)

\* Rows, handlers and Stripe's records have their types: those that
\* payment.entity.ts and the handlers of payments.service.ts can build.
PayTypeOK ==
    /\ payments \in [IntentIds -> Payment \cup {Absent}]
    /\ pays \in [Handlers -> Pay]
    /\ intents \in [IntentIds -> Intent]
    /\ events \subseteq Event
    /\ customers \in [Users -> Nat]
    /\ linked \subseteq Users
    /\ receipts \subseteq Receipt
    /\ duplicates \in 0..MaxDuplicates

Recorded == {i \in IntentIds : payments[i] # Absent}

\* A payment is marked succeeded only when Stripe holds the money, and
\* refunded only when Stripe has sent some of it back, whatever stale copies
\* of the row webhooks and refunds have saved.
MoneyBacksStatus ==
    \A i \in Recorded :
        /\ payments[i].status = "succeeded" => intents[i].state = "captured"
        /\ payments[i].status = "refunded" => intents[i].refunded > 0
        /\ payments[i].refundId => intents[i].refunded > 0

\* The payments table, however it is raced for, implements the ledger.
Ledger == INSTANCE PaymentLedger WITH
    recorded <- [i \in IntentIds |->
                    IF payments[i] = Absent THEN "none" ELSE payments[i].status],
    money <- [i \in IntentIds |-> intents[i].state],
    due <- [i \in IntentIds |-> intents[i].amount],
    paidBack <- [i \in IntentIds |-> intents[i].refunded]

ImplementsLedger == Ledger!Spec

\* The facts of a booking that had the given status at some time, or was deleted.
Reached(facts, status) == facts \cap {status, "deleted"} # {}

\* The booking of intent i was confirmed at some time, or deleted.
BookingSettled(i) ==
    intents[i].booking \in BookingIds /\ Reached(was[intents[i].booking], "confirmed")

\* Stripe forgets that a customer paid (the webhook answers 200) only once the
\* booking was confirmed, or deleted: an event that comes before its payment
\* is recorded, a handler that dies between the two saves and a save that finds
\* its row gone all leave the event to be delivered again.
PaidIsRemembered ==
    \A i \in IntentIds :
        intents[i].state = "captured" =>
            \/ [intent |-> i, type |-> "succeeded"] \in events
            \/ BookingSettled(i)

\* What a refund tells the renter and does to the booking fits what Stripe sent
\* back, whatever else refunds, updates or deletes at the time: the sum told
\* has gone back; one told of the whole amount, asked for as such or by giving
\* none, has had the booking canceled, if it was not deleted; and no refund
\* cancels a booking of which Stripe still holds a part of the money.
RefundsAreAsTold ==
    /\ \A r \in receipts :
          r.type = "refunded" =>
              /\ r.sum <= intents[r.intent].refunded
              /\ r.sum = intents[r.intent].amount =>
                     Reached(was[intents[r.intent].booking], "canceled")
    /\ \A h \in Handlers :
          pays[h].event = NoEvent /\ pays[h].pc \in {"cancel", "nested"} =>
              Left(pays[h].intent) = 0

----------------------------------------------------------------------------
(* Progress                                                                *)

\* Once Stripe holds the money of a recorded payment, its booking gets
\* confirmed, unless somebody deletes it; a stale copy saved later may bring
\* the deleted rows back, and then nobody confirms the booking.
PaidGetsConfirmed ==
    \A i \in IntentIds :
        (i \in Recorded /\ intents[i].state = "captured")
            ~> BookingSettled(i)
=============================================================================

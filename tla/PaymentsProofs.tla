--------------------------- MODULE PaymentsProofs ---------------------------
(***************************************************************************)
(* Proofs about Payments for any number of bookings, intents, users and    *)
(* concurrent handlers: types, what a payment's status rests on, that the  *)
(* payments table implements the ledger of PaymentLedger, that Stripe      *)
(* forgets no payment before its booking was confirmed or deleted, and     *)
(* that refunds do to money and bookings what they tell.                   *)
(*                                                                         *)
(* A webhook or a refund writes a copy of a row that may be stale, and the *)
(* row may have been deleted with its booking and be inserted again.  What *)
(* makes that harmless is that the money at Stripe only moves forward: an  *)
(* intent that was captured stays captured, one that was refunded stays    *)
(* refunded, and its booking never changes.  So the strengthening says of  *)
(* every event under way and of every copy held what MoneyBacksStatus says *)
(* of the stored rows.  And only one handler can ever record an intent:    *)
(* the one that created it, before anybody can have loaded its row.        *)
(***************************************************************************)
EXTENDS Payments, BookingsProofs, Integers

\* An event tells the truth about its intent.
EventTrue(event, money) ==
    /\ money[event.intent].state # "none"
    /\ event.type = "succeeded" => money[event.intent].state = "captured"

\* A row of intent i, stored or copied, tells the truth about it.
RowTrue(row, i, money) ==
    /\ money[i].state # "none"
    /\ row.booking = money[i].booking /\ row.amount = money[i].amount
    /\ row.status = "succeeded" => money[i].state = "captured"
    /\ row.status = "refunded" => money[i].refunded > 0
    /\ row.refundId => money[i].refunded > 0

Starting == {"booking", "paid", "customer", "link", "intent", "record"}
Copying == {"refund", "select", "write", "reinsert"}
Dirtied == {"select", "write", "reinsert"}
Calling == {"confirm", "cancel"}

\* Where a webhook or a refund holds the payment, and what makes it a refund:
\* Stripe has sent the money back.
Paying == {"select", "write", "reinsert", "confirm", "cancel", "nested", "notify"}
OfRefund(p) == p.event = NoEvent /\ p.pc \in Paying

\* What a refund will tell has gone back of the intent whose row it holds.
SentBack(p, money) ==
    /\ p.entity \in Payment /\ p.amount \in Nat
    /\ money[p.intent].state # "none"
    /\ p.entity.booking = money[p.intent].booking
    /\ p.entity.amount = money[p.intent].amount
    /\ Sum(p) <= money[p.intent].refunded

\* What a payment handler knows at each point of its way.
PayBacked(p, money) ==
    /\ p.pc \in Starting => p.user \in Users /\ p.booking \in BookingIds /\ p.amount \in Amounts
    /\ p.pc \notin Starting \cup {"idle"} => p.intent \in IntentIds
    /\ p.pc = "record" => /\ p.intent \in IntentIds
                          /\ money[p.intent].state # "none"
                          /\ money[p.intent].booking = p.booking
                          /\ money[p.intent].amount = p.amount
    /\ p.pc = "load" => /\ p.event \in Event /\ p.event.intent = p.intent
                        /\ EventTrue(p.event, money)
    /\ p.pc \in Copying => p.entity \in Payment /\ RowTrue(p.entity, p.intent, money)
    /\ p.pc \in Dirtied => p.entity.status \in {"succeeded", "failed", "refunded"}
    /\ p.pc \in Calling \cup {"nested", "notify"} => p.entity \in Payment
    /\ OfRefund(p) => SentBack(p, money)

RowsTrue == \A i \in IntentIds : payments[i] # Absent => RowTrue(payments[i], i, intents)
EventsTrue == \A event \in events : EventTrue(event, intents)
PaysBacked == \A h \in Handlers : PayBacked(pays[h], intents)

\* The intent a handler is about to record has no row, and nobody else is
\* about to write one.
RecordsFirst ==
    \A h \in Handlers :
        pays[h].pc = "record" =>
            /\ payments[pays[h].intent] = Absent
            /\ \A g \in Handlers \ {h} :
                  pays[g].pc \in Copying \cup {"record"} => pays[g].intent # pays[h].intent

\* Stripe sends back no more than it got, and what a renter was told of.
Within == \A i \in IntentIds : intents[i].refunded <= intents[i].amount

ReceiptsTrue ==
    \A r \in receipts :
        r.type = "refunded" => /\ intents[r.intent].state # "none"
                               /\ r.sum <= intents[r.intent].refunded

PayInv == /\ PayTypeOK /\ RowsTrue /\ EventsTrue /\ PaysBacked
          /\ RecordsFirst /\ Within /\ ReceiptsTrue

PIInv == IInv /\ PayInv

----------------------------------------------------------------------------
(* Rows and money                                                          *)

\* The fields of a payment have their types.
LEMMA PaymentFields ==
    ASSUME NEW row \in Payment
    PROVE  /\ DOMAIN row = PaymentColumns
           /\ row.booking \in BookingIds /\ row.amount \in Amounts
           /\ row.status \in PaymentStatus /\ row.refundId \in BOOLEAN
BY DEF Payment, PaymentColumns

\* Mixing columns of two payments gives a payment.
LEMMA PatchedPayment ==
    ASSUME NEW row \in Payment, NEW entity \in Payment, NEW cols \in SUBSET PaymentColumns
    PROVE  LET p == Patched(row, entity, cols)
           IN  /\ p \in Payment
               /\ \A c \in PaymentColumns : p[c] = IF c \in cols THEN entity[c] ELSE row[c]
<1> DEFINE p == Patched(row, entity, cols)
<1>1. p = [c \in PaymentColumns |-> IF c \in cols THEN entity[c] ELSE row[c]]
  BY PaymentFields DEF Patched
<1>2. p = [booking |-> p["booking"], amount |-> p["amount"],
           status |-> p["status"], refundId |-> p["refundId"]]
  BY <1>1 DEF PaymentColumns
<1>3. p \in Payment
  BY <1>1, <1>2, PaymentFields DEF PaymentColumns, Payment
<1> QED BY <1>1, <1>3

\* If both rows are true of the intent, so is their mix.
LEMMA PatchedTrue ==
    ASSUME NEW row \in Payment, NEW entity \in Payment, NEW cols \in SUBSET PaymentColumns,
           NEW i, NEW money, RowTrue(row, i, money), RowTrue(entity, i, money)
    PROVE  RowTrue(Patched(row, entity, cols), i, money)
<1> DEFINE p == Patched(row, entity, cols)
<1>1. /\ p.booking = IF "booking" \in cols THEN entity.booking ELSE row.booking
      /\ p.amount = IF "amount" \in cols THEN entity.amount ELSE row.amount
      /\ p.status = IF "status" \in cols THEN entity.status ELSE row.status
      /\ p.refundId = IF "refundId" \in cols THEN entity.refundId ELSE row.refundId
  BY PatchedPayment DEF PaymentColumns
<1> QED BY <1>1 DEF RowTrue

\* Money moves forward only.
Forward(before, after) ==
    \A i \in IntentIds :
        before[i].state # "none" =>
            /\ after[i].state # "none" /\ after[i].booking = before[i].booking
            /\ after[i].amount = before[i].amount
            /\ before[i].state = "captured" => after[i].state = "captured"
            /\ before[i].refunded <= after[i].refunded

\* It may also stay.
LEMMA MoneyStays ==
    ASSUME NEW money \in [IntentIds -> Intent]
    PROVE  Forward(money, money)
BY DEF Forward, Intent

\* What is true of the money stays true when it moves forward.
LEMMA TruthLasts ==
    ASSUME NEW before \in [IntentIds -> Intent], NEW after \in [IntentIds -> Intent],
           Forward(before, after)
    PROVE  /\ \A event \in Event : EventTrue(event, before) => EventTrue(event, after)
           /\ \A row, i : i \in IntentIds /\ RowTrue(row, i, before) => RowTrue(row, i, after)
           /\ \A p : PayBacked(p, before) => PayBacked(p, after)
<1>0. \A i \in IntentIds : before[i].refunded \in Nat /\ after[i].refunded \in Nat
  BY DEF Intent
<1>1. \A event \in Event : EventTrue(event, before) => EventTrue(event, after)
  BY DEF Forward, EventTrue, Event
<1>2. \A row, i : i \in IntentIds /\ RowTrue(row, i, before) => RowTrue(row, i, after)
  BY <1>0 DEF Forward, RowTrue
<1>3. ASSUME NEW p, PayBacked(p, before) PROVE PayBacked(p, after)
  <2>1. p.pc = "record" => /\ p.intent \in IntentIds
                           /\ after[p.intent].state # "none"
                           /\ after[p.intent].booking = p.booking
                           /\ after[p.intent].amount = p.amount
    BY <1>3 DEF PayBacked, Forward
  <2>2. p.pc = "load" => EventTrue(p.event, after)
    BY <1>1, <1>3 DEF PayBacked
  <2>3. p.pc \in Copying \cup Paying => p.intent \in IntentIds
    BY <1>3 DEF PayBacked, Copying, Paying, Starting
  <2>4. p.pc \in Copying => RowTrue(p.entity, p.intent, after)
    BY <1>2, <1>3, <2>3 DEF PayBacked
  <2>5. ASSUME OfRefund(p) PROVE SentBack(p, after)
    <3>1. SentBack(p, before) /\ p.intent \in IntentIds
      BY <1>3, <2>3, <2>5 DEF PayBacked, OfRefund
    <3>2. Sum(p) \in Nat
      BY <3>1, PaymentFields, PaymentConstants DEF SentBack, Sum
    <3> QED BY <1>0, <3>1, <3>2 DEF SentBack, Forward
  <2> QED BY <1>3, <2>1, <2>2, <2>4, <2>5 DEF PayBacked
<1> QED BY <1>1, <1>2, <1>3

----------------------------------------------------------------------------
(* How a step moves the invariant                                          *)

\* Types of the variables that no lemma is about.
PayCounters ==
    /\ customers \in [Users -> Nat] /\ linked \subseteq Users
    /\ receipts \subseteq Receipt /\ ReceiptsTrue
    /\ duplicates \in 0..MaxDuplicates

\* What the invariant says of one handler.
LEMMA ThePay ==
    ASSUME PayInv, NEW h \in Handlers
    PROVE  /\ pays[h] \in Pay /\ PayBacked(pays[h], intents)
           /\ pays[h].event \in Event \cup {NoEvent}
           /\ pays[h].cols \in SUBSET PaymentColumns
           /\ pays[h].amount \in Nat
BY DEF PayInv, PayTypeOK, PaysBacked, Pay

\* A refund on its way keeps what Stripe sent back for it.
LEMMA StillSentBack ==
    ASSUME NEW p, NEW q, NEW money, OfRefund(p) => SentBack(p, money),
           p.pc \in Paying, q.event = p.event, q.amount = p.amount,
           q.intent = p.intent, q.entity = p.entity
    PROVE  OfRefund(q) => SentBack(q, money)
BY DEF OfRefund, SentBack, Sum

\* A handler with nothing to do is backed.
LEMMA PayIdling ==
    /\ PayIdle \in Pay /\ PayIdle.pc = "idle"
    /\ \A money : PayBacked(PayIdle, money)
BY DEF PayIdle, Pay, PayPc, PayBacked, Starting, Copying, Dirtied, Calling,
       OfRefund, Paying

\* One handler moves on; the table, the money and the events stay.
LEMMA PayMoves ==
    ASSUME PayInv, NEW h \in Handlers, NEW p \in Pay, PayBacked(p, intents),
           p.pc # "record",
           p.pc \in Copying => \/ pays[h].pc \in Copying /\ pays[h].intent = p.intent
                               \/ payments[p.intent] # Absent,
           PayGoto(h, p), UNCHANGED <<bookings, payments, intents, events>>, PayCounters'
    PROVE  PayInv'
<1>1. /\ pays' = [pays EXCEPT ![h] = p] /\ pays \in [Handlers -> Pay]
      /\ RowsTrue /\ EventsTrue /\ PaysBacked /\ RecordsFirst /\ Within /\ ReceiptsTrue
  BY DEF PayInv, PayTypeOK, PayGoto
<1>2. PayTypeOK'
  BY <1>1 DEF PayInv, PayTypeOK, PayCounters
<1>3. RowsTrue' /\ EventsTrue' /\ Within' /\ ReceiptsTrue'
  BY <1>1 DEF RowsTrue, EventsTrue, Within, PayCounters
<1>4. PaysBacked'
  BY <1>1 DEF PaysBacked
<1>5. RecordsFirst'
  BY <1>1 DEF RecordsFirst
<1> QED BY <1>2, <1>3, <1>4, <1>5 DEF PayInv

\* One handler, with the intent to itself as far as recording goes, writes a
\* row that is true and has its booking, and gives up its copy.
LEMMA PayStores ==
    ASSUME PayInv, NEW h \in Handlers, NEW p \in Pay, PayBacked(p, intents),
           p.pc \notin Copying \cup {"record"},
           pays[h].pc \in Copying \cup {"record"}, pays[h].intent \in IntentIds,
           NEW row \in Payment \cup {Absent},
           row # Absent => RowTrue(row, pays[h].intent, intents),
           PayGoto(h, p), payments' = [payments EXCEPT ![pays[h].intent] = row],
           UNCHANGED <<bookings, intents, events>>, PayCounters'
    PROVE  PayInv'
<1>1. /\ pays' = [pays EXCEPT ![h] = p] /\ pays \in [Handlers -> Pay]
      /\ payments \in [IntentIds -> Payment \cup {Absent}]
      /\ RowsTrue /\ EventsTrue /\ PaysBacked /\ RecordsFirst /\ Within /\ ReceiptsTrue
  BY DEF PayInv, PayTypeOK, PayGoto
<1>2. PayTypeOK'
  BY <1>1 DEF PayInv, PayTypeOK, PayCounters
<1>3. RowsTrue' /\ EventsTrue' /\ Within' /\ ReceiptsTrue'
  BY <1>1 DEF RowsTrue, EventsTrue, Within, PayCounters
<1>4. PaysBacked'
  BY <1>1 DEF PaysBacked
<1>5. ASSUME NEW g \in Handlers, pays'[g].pc = "record"
      PROVE  payments'[pays'[g].intent] = Absent
  <2>1. g # h /\ pays'[g] = pays[g] /\ pays[g].pc = "record"
    BY <1>1, <1>5
  <2>2. pays[g].intent # pays[h].intent /\ payments[pays[g].intent] = Absent
    BY <2>1, <1>1 DEF RecordsFirst
  <2>3. pays[g].intent \in IntentIds
    BY <2>1, <1>1 DEF PaysBacked, PayBacked
  <2> QED BY <1>1, <2>1, <2>2, <2>3
<1>6. RecordsFirst'
  BY <1>1, <1>5 DEF RecordsFirst
<1> QED BY <1>2, <1>3, <1>4, <1>6 DEF PayInv

\* What renters were told stays true when the money moves forward.
LEMMA ReceiptsLast ==
    ASSUME intents \in [IntentIds -> Intent], intents' \in [IntentIds -> Intent],
           receipts \subseteq Receipt, ReceiptsTrue, Forward(intents, intents'),
           UNCHANGED receipts
    PROVE  ReceiptsTrue'
<1> SUFFICES ASSUME NEW r \in receipts, r.type = "refunded"
             PROVE  /\ intents'[r.intent].state # "none"
                    /\ r.sum <= intents'[r.intent].refunded
  BY DEF ReceiptsTrue
<1>1. r.intent \in IntentIds /\ r.sum \in Nat
  BY DEF Receipt
<1>2. intents[r.intent].refunded \in Nat /\ intents'[r.intent].refunded \in Nat
  BY <1>1 DEF Intent
<1>3. /\ intents[r.intent].state # "none"
      /\ r.sum <= intents[r.intent].refunded
  BY DEF ReceiptsTrue
<1> QED BY <1>1, <1>2, <1>3 DEF Forward

\* The money moves forward, and nobody else moves.
LEMMA MoneyMoves ==
    ASSUME PayInv, Forward(intents, intents'), intents' \in [IntentIds -> Intent],
           UNCHANGED <<bookings, payments, pays>>,
           events' \subseteq Event, \A event \in events' \ events : EventTrue(event, intents'),
           Within', UNCHANGED <<customers, linked, receipts, duplicates>>
    PROVE  PayInv'
<1>1. /\ RowsTrue /\ EventsTrue /\ PaysBacked /\ RecordsFirst
      /\ events \subseteq Event /\ intents \in [IntentIds -> Intent]
  BY DEF PayInv, PayTypeOK
<1>2. PayTypeOK'
  BY DEF PayInv, PayTypeOK
<1>3. RowsTrue' /\ PaysBacked'
  BY <1>1, TruthLasts DEF RowsTrue, PaysBacked
<1>4. EventsTrue'
  BY <1>1, TruthLasts DEF EventsTrue
<1>5. RecordsFirst'
  BY <1>1 DEF RecordsFirst
<1>6. ReceiptsTrue'
  BY ReceiptsLast DEF PayInv, PayTypeOK
<1> QED BY <1>2, <1>3, <1>4, <1>5, <1>6 DEF PayInv

----------------------------------------------------------------------------
(* The invariant holds initially, and every action preserves it            *)

LEMMA PayInvInit == PayInit => PIInv
<1> SUFFICES ASSUME PayInit PROVE PIInv
  OBVIOUS
<1>1. IInv
  BY InvInit DEF PayInit
<1>2. PayTypeOK
  BY PayIdling, PaymentConstants DEF PayInit, PayTypeOK, NoIntent, Intent
<1>3. RowsTrue /\ EventsTrue /\ PaysBacked /\ RecordsFirst /\ Within /\ ReceiptsTrue
  BY PayIdling DEF PayInit, RowsTrue, EventsTrue, PaysBacked, RecordsFirst, Within,
                   ReceiptsTrue, NoIntent
<1> QED BY <1>1, <1>2, <1>3 DEF PIInv, PayInv

\* Steps keep the counters.
LEMMA PayKept ==
    ASSUME PayInv, UNCHANGED <<intents, customers, linked, receipts, duplicates>>
    PROVE  PayCounters'
BY DEF PayInv, PayTypeOK, PayCounters, ReceiptsTrue

LEMMA PayRequestInv ==
    ASSUME PIInv, NEW h \in Handlers, PayRequest(h)
    PROVE  PIInv'
<1>0. IInv /\ PayInv
  BY DEF PIInv
<1>1. ASSUME NEW u \in Users, NEW b \in BookingIds, NEW a \in Amounts,
             CreatePaymentIntent(h, u, b, a)
      PROVE  PIInv'
  <2> DEFINE customer == u \in linked
             p == [PayIdle EXCEPT !.pc = "booking", !.user = u, !.booking = b, !.amount = a,
                                  !.customer = customer]
  <2>1. IInv'
    BY <1>0, <1>1, Accepted, Assembled
       DEF CreatePaymentIntent, Accept, Unstored, IInv, TypeOK, RowsBacked, CallsBacked
  <2>1a. customer \in BOOLEAN
    OBVIOUS
  <2> HIDE DEF customer
  <2>2. /\ p \in Pay /\ p.pc = "booking" /\ PayBacked(p, intents)
    BY <2>1a, PaymentConstants
       DEF PayIdle, Pay, PayPc, PayBacked, Starting, Copying, Dirtied, Calling,
       OfRefund, Paying
  <2>3. /\ PayGoto(h, p) /\ UNCHANGED <<bookings, payments, intents, events>> /\ PayCounters'
    BY <1>0, <1>1, PayKept DEF CreatePaymentIntent, stripeVars, customer
  <2> HIDE DEF p
  <2> QED BY <1>0, <2>1, <2>2, <2>3, PayMoves DEF PIInv, Copying
<1>2. ASSUME NEW i \in IntentIds, NEW a \in RefundAmounts, RefundPayment(h, i, a)
      PROVE  PIInv'
  <2> DEFINE p == [PayIdle EXCEPT !.pc = "refund", !.intent = i, !.amount = a,
                                  !.entity = payments[i]]
  <2>1. IInv'
    BY <1>0, <1>2, Accepted, Assembled
       DEF RefundPayment, Accept, Unstored, IInv, TypeOK, RowsBacked, CallsBacked
  <2>2. payments[i] \in Payment /\ payments[i] # Absent /\ RowTrue(payments[i], i, intents)
    BY <1>0, <1>2 DEF RefundPayment, PayInv, PayTypeOK, RowsTrue
  <2>3. p \in Pay /\ p.pc = "refund" /\ p.intent = i /\ PayBacked(p, intents)
    BY <2>2, PaymentConstants
       DEF PayIdle, Pay, PayPc, PayBacked, Starting, Copying, Dirtied, Calling,
       OfRefund, Paying
  <2>4. /\ PayGoto(h, p) /\ UNCHANGED <<bookings, payments, intents, events>> /\ PayCounters'
    BY <1>0, <1>2, PayKept DEF RefundPayment, stripeVars
  <2> HIDE DEF p
  <2> QED BY <1>0, <2>1, <2>2, <2>3, <2>4, PayMoves DEF PIInv
<1> QED BY <1>1, <1>2 DEF PayRequest

\* The steps of a payment handler that end it or move it on in its first half.
LEMMA PayStartInv ==
    ASSUME PayInv, NEW h \in Handlers, NEW pc \in Starting \ {"record"},
           pays[h].pc \in Starting \ {"record"},
           PayGoto(h, PayIdle) \/ PayNext(h, pc),
           UNCHANGED <<bookings, payments, intents, events>>, PayCounters'
    PROVE  PayInv'
<1>1. CASE PayGoto(h, PayIdle)
  BY <1>1, PayIdling, PayMoves DEF Copying
<1>2. CASE PayNext(h, pc)
  <2> DEFINE p == [pays[h] EXCEPT !.pc = pc]
  <2>1. p \in Pay /\ p.pc = pc
    BY ThePay DEF Pay, PayPc, Starting
  <2>2. PayBacked(p, intents)
    BY ThePay DEF Pay, PayBacked, Starting, Copying, Dirtied, Calling,
       OfRefund, Paying
  <2>3. PayGoto(h, p)
    BY <1>2 DEF PayNext
  <2> HIDE DEF p
  <2> QED BY <2>1, <2>2, <2>3, PayMoves DEF Starting, Copying
<1> QED BY <1>1, <1>2

LEMMA CreateIntentInv ==
    ASSUME PayInv, NEW h \in Handlers, NEW i \in IntentIds, CreateIntent(h, i)
    PROVE  PayInv'
<1> DEFINE intent == [state |-> "open", booking |-> pays[h].booking,
                      amount |-> pays[h].amount, refunded |-> 0]
           p == [pays[h] EXCEPT !.pc = "record", !.intent = i]
<1>1. /\ pays[h].pc = "intent" /\ intents[i].state = "none"
      /\ intents' = [intents EXCEPT ![i] = intent] /\ pays' = [pays EXCEPT ![h] = p]
      /\ UNCHANGED <<bookings, payments, events, customers, duplicates, linked, receipts>>
  BY DEF CreateIntent, PayGoto, bookingVars
<1>2. /\ PayTypeOK /\ RowsTrue /\ EventsTrue /\ PaysBacked /\ RecordsFirst
      /\ Within /\ ReceiptsTrue
  BY DEF PayInv
<1>3. pays[h].booking \in BookingIds /\ pays[h].amount \in Amounts /\ pays[h].user \in Users
  BY <1>1, ThePay DEF PayBacked, Starting
<1>4. /\ intent \in Intent
      /\ p \in Pay /\ p.pc = "record" /\ p.intent = i /\ p.booking = intent.booking
      /\ p.amount = intent.amount
  BY <1>3, ThePay, PaymentConstants DEF Intent, Pay, PayPc
<1>5. intents \in [IntentIds -> Intent] /\ pays \in [Handlers -> Pay] /\ events \subseteq Event
  BY <1>2 DEF PayTypeOK
<1>6. Forward(intents, intents') /\ intents' \in [IntentIds -> Intent]
  <2>1. \A j \in IntentIds : intents[j].refunded \in Nat
    BY <1>5 DEF Intent
  <2> QED BY <1>1, <1>4, <1>5, <2>1 DEF Forward
<1>7. PayTypeOK'
  BY <1>1, <1>2, <1>4, <1>5 DEF PayTypeOK
<1>7a. Within'
  BY <1>1, <1>2, <1>3, <1>5, PaymentConstants DEF Within
<1>8. RowsTrue' /\ EventsTrue' /\ Within' /\ ReceiptsTrue'
  BY <1>1, <1>2, <1>4, <1>5, <1>6, <1>7a, TruthLasts, ReceiptsLast
     DEF RowsTrue, EventsTrue, PayTypeOK
<1>9. PayBacked(p, intents')
  BY <1>1, <1>3, <1>5 DEF Pay, PayBacked, Starting, Copying, Dirtied, Calling,
       OfRefund, Paying
<1> HIDE DEF p, intent
<1>10. PaysBacked'
  BY <1>1, <1>2, <1>5, <1>6, <1>9, TruthLasts DEF PaysBacked
<1>11. payments[i] = Absent
  BY <1>1, <1>2 DEF RowsTrue, RowTrue
<1>12. ASSUME NEW g \in Handlers, pays[g].pc \in Copying \cup {"record"}
       PROVE  pays[g].intent # i
  <2>1. PayBacked(pays[g], intents)
    BY <1>2 DEF PaysBacked
  <2> QED BY <1>1, <1>12, <2>1 DEF PayBacked, RowTrue
<1>13. RecordsFirst'
  <2> SUFFICES ASSUME NEW g \in Handlers, pays'[g].pc = "record"
               PROVE  /\ payments[pays'[g].intent] = Absent
                      /\ \A f \in Handlers \ {g} :
                            pays'[f].pc \in Copying \cup {"record"}
                                => pays'[f].intent # pays'[g].intent
    BY <1>1 DEF RecordsFirst
  <2>1. CASE g = h
    BY <1>1, <1>4, <1>5, <1>11, <1>12, <2>1
  <2>2. CASE g # h
    <3>1. pays'[g] = pays[g]
      BY <1>1, <1>5, <2>2
    <3>2. pays[g].intent # i
      BY <1>12, <3>1
    <3> QED BY <1>1, <1>2, <1>4, <1>5, <3>1, <3>2 DEF RecordsFirst
  <2> QED BY <2>1, <2>2
<1> QED BY <1>7, <1>8, <1>10, <1>13 DEF PayInv

LEMMA RecordPaymentInv ==
    ASSUME PayInv, NEW h \in Handlers, RecordPayment(h)
    PROVE  PayInv'
<1> DEFINE i == pays[h].intent
           row == [booking |-> pays[h].booking, amount |-> pays[h].amount,
                   status |-> "pending", refundId |-> FALSE]
<1>1. /\ pays[h].pc = "record" /\ PayGoto(h, PayIdle)
      /\ UNCHANGED <<bookings, intents, events>> /\ PayCounters'
  BY PayKept DEF RecordPayment, bookingVars, stripeVars
<1>2. /\ i \in IntentIds /\ intents[i].state # "none" /\ intents[i].booking = pays[h].booking
      /\ pays[h].booking \in BookingIds /\ pays[h].amount \in Amounts
      /\ intents[i].amount = pays[h].amount
  BY <1>1, ThePay DEF PayBacked, Starting
<1>3. row \in Payment /\ RowTrue(row, i, intents)
  BY <1>2 DEF Payment, PaymentStatus, RowTrue
<1>4. CASE bookings[pays[h].booking] = Absent
  <2>1. UNCHANGED payments
    BY <1>4 DEF RecordPayment
  <2> QED BY <1>1, <2>1, PayIdling, PayMoves DEF Copying
<1>5. CASE bookings[pays[h].booking] # Absent
  <2>1. payments' = [payments EXCEPT ![i] = row] /\ row.booking = pays[h].booking
    BY <1>5 DEF RecordPayment
  <2> HIDE DEF row
  <2> QED BY <1>1, <1>2, <1>3, <1>5, <2>1, PayIdling, PayStores DEF Copying
<1> QED BY <1>4, <1>5

LEMMA LoadPaymentInv ==
    ASSUME PayInv, NEW h \in Handlers, LoadPayment(h)
    PROVE  PayInv'
<1> DEFINE i == pays[h].intent
           row == payments[i]
           entity == WithPaymentStatus(row, pays[h].event.type)
           p == [pays[h] EXCEPT !.pc = "select", !.entity = entity]
<1>1. /\ pays[h].pc = "load"
      /\ UNCHANGED <<bookings, payments, intents, events>> /\ PayCounters'
  BY PayKept DEF LoadPayment, bookingVars, stripeVars
<1>2. /\ i \in IntentIds /\ pays[h].event \in Event /\ pays[h].event.intent = i
      /\ EventTrue(pays[h].event, intents)
  BY <1>1, ThePay DEF PayBacked, Starting
<1>3. CASE row = Absent
  <2>1. PayGoto(h, PayIdle)
    BY <1>3 DEF LoadPayment
  <2> QED BY <1>1, <2>1, PayIdling, PayMoves DEF Copying
<1>4. CASE row # Absent
  <2>1. PayGoto(h, p)
    BY <1>4 DEF LoadPayment
  <2>2. row \in Payment /\ RowTrue(row, i, intents)
    BY <1>2, <1>4 DEF PayInv, PayTypeOK, RowsTrue
  <2>3. /\ pays[h].event.type \in {"succeeded", "failed"}
    BY <1>2 DEF Event, EventType
  <2>4. /\ entity \in Payment /\ entity.status = pays[h].event.type
        /\ entity.booking = row.booking /\ entity.refundId = row.refundId
        /\ entity.amount = row.amount
    BY <2>2, <2>3 DEF WithPaymentStatus, Payment, PaymentStatus
  <2>5. RowTrue(entity, i, intents)
    BY <1>2, <2>2, <2>3, <2>4 DEF RowTrue, EventTrue
  <2> HIDE DEF entity
  <2>6. /\ p \in Pay /\ p.pc = "select" /\ p.intent = i /\ p.entity = entity
        /\ p.event = pays[h].event
    BY <2>4, ThePay DEF Pay, PayPc
  <2> HIDE DEF p
  <2>6a. ~OfRefund(p)
    BY <1>2, <2>6, NoEventIsNoEvent DEF OfRefund
  <2>7. PayBacked(p, intents)
    BY <1>2, <2>3, <2>4, <2>5, <2>6, <2>6a
       DEF PayBacked, Starting, Copying, Dirtied, Calling
  <2> QED BY <1>1, <1>4, <2>1, <2>6, <2>7, PayMoves
<1> QED BY <1>3, <1>4

\* Where a handler goes after its save.
LEMMA AfterSaves ==
    ASSUME NEW p
    PROVE  AfterPaymentSave(p) \in {"confirm", "cancel", "notify"}
BY DEF AfterPaymentSave

LEMMA SavePaymentInv ==
    ASSUME PayInv, NEW h \in Handlers,
           SavePaymentSelect(h) \/ SavePaymentWrite(h) \/ SavePaymentInsert(h)
    PROVE  PayInv'
<1> DEFINE i == pays[h].intent
           row == payments[i]
           entity == pays[h].entity
           pc == AfterPaymentSave(pays[h])
<1>1. /\ pays[h].pc \in Dirtied
      /\ UNCHANGED <<bookings, intents, events>> /\ PayCounters'
  BY PayKept
     DEF SavePaymentSelect, SavePaymentWrite, SavePaymentInsert, bookingVars, stripeVars, Dirtied
<1>2. /\ i \in IntentIds /\ entity \in Payment /\ RowTrue(entity, i, intents)
      /\ entity.status \in {"succeeded", "failed", "refunded"} /\ pays[h].pc \in Copying
  BY <1>1, ThePay DEF PayBacked, Starting, Copying, Dirtied
<1>2a. pays[h].pc \in Paying /\ (OfRefund(pays[h]) => SentBack(pays[h], intents))
  BY <1>1, ThePay DEF PayBacked, Dirtied, Paying
<1>3. /\ row \in Payment \cup {Absent}
      /\ row # Absent => RowTrue(row, i, intents)
  BY <1>2 DEF PayInv, PayTypeOK, RowsTrue
<1>4. CASE SavePaymentSelect(h)
  <2> DEFINE p == [pays[h] EXCEPT !.pc = "reinsert"]
             cols == Dirty(entity, row)
             q == [pays[h] EXCEPT !.pc = "write", !.cols = cols]
  <2>1. cols \in SUBSET PaymentColumns
    BY <1>2, PaymentFields DEF Dirty
  <2>2. (PayGoto(h, p) \/ PayGoto(h, q)) /\ UNCHANGED payments
    BY <1>4 DEF SavePaymentSelect, PayNext
  <2> HIDE DEF cols
  <2>3. \A x \in {p, q} :
            /\ x \in Pay /\ x.pc \in {"write", "reinsert"} /\ x.intent = i
            /\ x.event = pays[h].event /\ x.amount = pays[h].amount /\ x.entity = entity
    BY <2>1, ThePay DEF Pay, PayPc
  <2> HIDE DEF p, q
  <2>4. \A x \in {p, q} : PayBacked(x, intents)
    <3> SUFFICES ASSUME NEW x \in {p, q} PROVE PayBacked(x, intents)
      OBVIOUS
    <3>1. OfRefund(x) => SentBack(x, intents)
      BY <1>2a, <2>3, StillSentBack
    <3> QED BY <1>2, <2>3, <3>1 DEF PayBacked, Starting, Copying, Dirtied, Calling
  <2> QED BY <1>1, <1>2, <2>2, <2>3, <2>4, PayMoves DEF Copying
<1>5. CASE SavePaymentWrite(h)
  <2> DEFINE p == [pays[h] EXCEPT !.pc = pc, !.cols = {}]
             new == Updated(row, entity, pays[h].cols)
  <2>1. PayGoto(h, p) /\ payments' = [payments EXCEPT ![i] = new]
    BY <1>5 DEF SavePaymentWrite
  <2>2. pc \in {"confirm", "cancel", "notify"}
    BY AfterSaves
  <2> HIDE DEF pc
  <2>3. /\ p \in Pay /\ p.pc = pc /\ p.intent = i /\ p.entity = entity
        /\ p.event = pays[h].event /\ p.amount = pays[h].amount
    BY <2>2, ThePay DEF Pay, PayPc
  <2> HIDE DEF p
  <2>3a. OfRefund(p) => SentBack(p, intents)
    BY <1>2a, <2>3, StillSentBack
  <2>4. PayBacked(p, intents)
    BY <1>2, <2>2, <2>3, <2>3a DEF PayBacked, Starting, Copying, Dirtied, Calling
  <2>5. /\ new \in Payment \cup {Absent}
        /\ new # Absent => RowTrue(new, i, intents)
    <3>1. CASE row = Absent
      BY <3>1 DEF Updated
    <3>2. CASE row # Absent
      <4>1. new = Patched(row, entity, pays[h].cols)
        BY <3>2 DEF Updated
      <4>2. new \in Payment /\ RowTrue(new, i, intents)
        BY <1>2, <1>3, <3>2, <4>1, ThePay, PatchedPayment, PatchedTrue
      <4>3. new.booking = row.booking
        BY <1>2, <1>3, <3>2, <4>2 DEF RowTrue
      <4> QED BY <1>3, <3>2, <4>2, <4>3
    <3> QED BY <3>1, <3>2
  <2> HIDE DEF new
  <2> QED BY <1>1, <1>2, <2>1, <2>2, <2>3, <2>4, <2>5, PayStores DEF Copying
<1>6. CASE SavePaymentInsert(h)
  <2> DEFINE p == [pays[h] EXCEPT !.pc = pc]
  <2>1. CASE PayGoto(h, PayIdle) /\ UNCHANGED payments
    BY <1>1, <2>1, PayIdling, PayMoves DEF Copying
  <2>2. CASE /\ PayGoto(h, p) /\ bookings[entity.booking] # Absent
             /\ payments' = [payments EXCEPT ![i] = entity]
    <3>1. pc \in {"confirm", "cancel", "notify"}
      BY AfterSaves
    <3> HIDE DEF pc
    <3>2. /\ p \in Pay /\ p.pc = pc /\ p.intent = i /\ p.entity = entity
          /\ p.event = pays[h].event /\ p.amount = pays[h].amount
      BY <3>1, ThePay DEF Pay, PayPc
    <3> HIDE DEF p
    <3>3. OfRefund(p) => SentBack(p, intents)
      BY <1>2a, <3>2, StillSentBack
    <3>4. PayBacked(p, intents)
      BY <1>2, <3>1, <3>2, <3>3 DEF PayBacked, Starting, Copying, Dirtied, Calling
    <3> QED BY <1>1, <1>2, <2>2, <3>1, <3>2, <3>4, PayStores DEF Copying
  <2> QED BY <1>6, <2>1, <2>2 DEF SavePaymentInsert, PayNext
<1> QED BY <1>4, <1>5, <1>6

\* The steps after the save.
LEMMA PayEndInv ==
    ASSUME PIInv, NEW h \in Handlers,
           \/ CallUpdateStatus(h) \/ CallUpdateStatusFails(h)
           \/ UpdateStatusReturns(h) \/ NotifyPayment(h)
    PROVE  PIInv'
<1>0. IInv /\ PayInv
  BY DEF PIInv
<1>1. CASE CallUpdateStatus(h)
  <2> DEFINE b == pays[h].entity.booking
             p == [pays[h] EXCEPT !.pc = "nested"]
  <2>1. /\ pays[h].pc \in Calling /\ PayGoto(h, p)
        /\ BeginUpdateStatus(h, b, StatusFor(pays[h].pc), "system")
        /\ UNCHANGED <<requests, payments, stripeVars, linked, receipts>>
    BY <1>1 DEF CallUpdateStatus, PayNext, Calling
  <2>2. UNCHANGED <<bookings, inbox, now, failures, requests>>
    BY <2>1 DEF BeginUpdateStatus, Unstored
  <2>3. b \in BookingIds
    BY <1>0, <2>1, ThePay, PaymentFields DEF PayBacked
  <2>4. StatusFor(pays[h].pc) \in Status
    BY DEF StatusFor, Status
  <2>5. IInv'
    BY <1>0, <2>1, <2>2, <2>3, <2>4, Kept, UpdateStatusBegins
  <2>6. p \in Pay /\ p.pc = "nested" /\ PayBacked(p, intents)
    <3>1. /\ p \in Pay /\ p.pc = "nested" /\ p.intent = pays[h].intent
          /\ p.entity = pays[h].entity /\ p.event = pays[h].event
          /\ p.amount = pays[h].amount
      BY <1>0, ThePay DEF Pay, PayPc
    <3> HIDE DEF p
    <3>2. /\ pays[h].pc \in Paying /\ pays[h].intent \in IntentIds
          /\ pays[h].entity \in Payment
          /\ OfRefund(pays[h]) => SentBack(pays[h], intents)
      BY <1>0, <2>1, ThePay DEF PayBacked, Calling, Paying, Starting
    <3>3. OfRefund(p) => SentBack(p, intents)
      BY <3>1, <3>2, StillSentBack
    <3> QED BY <3>1, <3>2, <3>3 DEF PayBacked, Starting, Copying, Dirtied, Calling
  <2>7. PayCounters'
    BY <1>0, <2>1, PayKept DEF stripeVars
  <2> HIDE DEF p
  <2>8. PayInv'
    BY <1>0, <2>1, <2>2, <2>6, <2>7, PayMoves DEF stripeVars, Copying
  <2> QED BY <2>5, <2>8 DEF PIInv
<1>2. CASE CallUpdateStatusFails(h)
  <2>1. /\ PayGoto(h, PayIdle) /\ UNCHANGED bookingVars
        /\ UNCHANGED <<payments, stripeVars, linked, receipts>>
    BY <1>2 DEF CallUpdateStatusFails
  <2>2. PayInv'
    BY <1>0, <2>1, PayIdling, PayKept, PayMoves DEF stripeVars, bookingVars, Copying
  <2> QED BY <1>0, <2>1, <2>2, InvStep DEF PIInv
<1>3. CASE UpdateStatusReturns(h)
  <2> DEFINE p == [pays[h] EXCEPT !.pc = "notify"]
  <2>1. /\ pays[h].pc = "nested" /\ PayGoto(h, p) /\ UNCHANGED bookingVars
        /\ UNCHANGED <<payments, stripeVars, linked, receipts>>
    BY <1>3 DEF UpdateStatusReturns, PayNext
  <2>2. p \in Pay /\ p.pc = "notify" /\ PayBacked(p, intents)
    <3>1. /\ p \in Pay /\ p.pc = "notify" /\ p.intent = pays[h].intent
          /\ p.entity = pays[h].entity /\ p.event = pays[h].event
          /\ p.amount = pays[h].amount
      BY <1>0, ThePay DEF Pay, PayPc
    <3> HIDE DEF p
    <3>2. /\ pays[h].pc \in Paying /\ pays[h].intent \in IntentIds
          /\ pays[h].entity \in Payment
          /\ OfRefund(pays[h]) => SentBack(pays[h], intents)
      BY <1>0, <2>1, ThePay DEF PayBacked, Paying, Starting
    <3>3. OfRefund(p) => SentBack(p, intents)
      BY <3>1, <3>2, StillSentBack
    <3> QED BY <3>1, <3>2, <3>3 DEF PayBacked, Starting, Copying, Dirtied, Calling
  <2> HIDE DEF p
  <2>3. PayInv'
    BY <1>0, <2>1, <2>2, PayKept, PayMoves DEF stripeVars, bookingVars, Copying
  <2> QED BY <1>0, <2>1, <2>3, InvStep DEF PIInv
<1>4. CASE NotifyPayment(h)
  <2> DEFINE p == pays[h]
             type == IF p.event = NoEvent THEN "refunded" ELSE p.event.type
  <2>1. /\ p.pc = "notify" /\ PayGoto(h, PayIdle)
        /\ UNCHANGED <<bookingVars, payments, intents, customers, linked>>
        /\ receipts' = receipts \cup {[type |-> type, intent |-> p.intent, sum |-> Sum(p)]}
        /\ events' \subseteq events
        /\ duplicates' \in 0..MaxDuplicates
    BY <1>0, <1>4, PaymentConstants DEF NotifyPayment, PayInv, PayTypeOK
  <2>2. p.intent \in IntentIds /\ p.event \in Event \cup {NoEvent}
    BY <1>0, <2>1, ThePay DEF PayBacked, Starting
  <2>2a. /\ Sum(p) \in Nat
         /\ type = "refunded" => /\ intents[p.intent].state # "none"
                                 /\ Sum(p) <= intents[p.intent].refunded
    <3>1. /\ p.entity \in Payment /\ p.amount \in Nat
          /\ OfRefund(p) => SentBack(p, intents)
      BY <1>0, <2>1, ThePay DEF PayBacked
    <3>2. Sum(p) \in Nat
      BY <3>1, PaymentFields, PaymentConstants DEF Sum
    <3>3. type = "refunded" => OfRefund(p)
      BY <2>1, <2>2, NoEventIsNoEvent DEF Event, EventType, OfRefund, Paying
    <3> QED BY <3>1, <3>2, <3>3 DEF SentBack
  <2>3. type \in EventType \cup {"refunded"}
    BY <2>2 DEF Event
  <2>4. PayTypeOK'
    BY <1>0, <2>1, <2>2, <2>2a, <2>3, PayIdling DEF PayInv, PayTypeOK, PayGoto, Receipt
  <2>5. pays' = [pays EXCEPT ![h] = PayIdle] /\ pays \in [Handlers -> Pay]
    BY <1>0, <2>1 DEF PayGoto, PayInv, PayTypeOK
  <2>6. RowsTrue' /\ EventsTrue' /\ Within'
    BY <1>0, <2>1 DEF bookingVars, PayInv, RowsTrue, EventsTrue, Within
  <2>6a. ReceiptsTrue'
    BY <1>0, <2>1, <2>2a DEF PayInv, ReceiptsTrue
  <2>7. PaysBacked' /\ RecordsFirst'
    BY <1>0, <2>1, <2>5, PayIdling DEF PayInv, PaysBacked, RecordsFirst, Copying
  <2>8. PayInv'
    BY <2>4, <2>6, <2>6a, <2>7 DEF PayInv
  <2>9. UNCHANGED bookingVars
    BY <2>1
  <2> QED BY <1>0, <2>8, <2>9, InvStep DEF PIInv
<1> QED BY <1>1, <1>2, <1>3, <1>4

LEMMA RefundAtStripeInv ==
    ASSUME PayInv, NEW h \in Handlers, RefundAtStripe(h)
    PROVE  PayInv'
<1> DEFINE i == pays[h].intent
           sum == IF pays[h].amount = 0 THEN Left(i) ELSE pays[h].amount
           entity == AsRefunded(pays[h].entity)
           p == [pays[h] EXCEPT !.pc = "select", !.entity = entity]
<1>1. /\ pays[h].pc = "refund"
      /\ UNCHANGED <<bookings, payments, events, customers, duplicates, linked, receipts>>
  BY DEF RefundAtStripe, bookingVars
<1>2. CASE PayGoto(h, PayIdle) /\ UNCHANGED intents
  BY <1>1, <1>2, PayIdling, PayKept, PayMoves DEF Copying
<1>3. CASE /\ Refundable(i, sum) /\ PayGoto(h, p)
           /\ intents' = [intents EXCEPT ![i].refunded = @ + sum]
  <2>1. /\ i \in IntentIds /\ pays[h].entity \in Payment
        /\ RowTrue(pays[h].entity, i, intents)
    BY <1>1, ThePay DEF PayBacked, Starting, Copying
  <2>2. /\ intents \in [IntentIds -> Intent] /\ intents[i].refunded \in Nat
        /\ intents[i].amount \in Nat /\ pays[h].amount \in Nat
    BY <2>1, ThePay DEF PayInv, PayTypeOK, Intent
  <2>3. sum \in Int /\ sum > 0
    BY <1>3, <2>2 DEF Left, Refundable
  <2>4. /\ intents[i].refunded + sum \in Nat \ {0}
        /\ intents[i].refunded <= intents[i].refunded + sum
        /\ intents[i].refunded + sum <= intents[i].amount
        /\ pays[h].amount <= intents[i].refunded + sum
        /\ pays[h].amount = 0 => intents[i].amount <= intents[i].refunded + sum
    BY <1>3, <2>2, <2>3 DEF Left, Refundable
  <2> DEFINE intent == [intents[i] EXCEPT !.refunded = intents[i].refunded + sum]
  <2> HIDE DEF sum
  <2>5. intents' = [intents EXCEPT ![i] = intent]
    BY <1>3, <2>1, <2>2
  <2>6. /\ intent \in Intent /\ intent.state = intents[i].state
        /\ intent.booking = intents[i].booking /\ intent.amount = intents[i].amount
        /\ intents[i].refunded <= intent.refunded /\ intent.refunded <= intent.amount
        /\ intent.refunded > 0 /\ pays[h].amount <= intent.refunded
        /\ pays[h].amount = 0 => intent.amount <= intent.refunded
    BY <2>1, <2>2, <2>4 DEF Intent
  <2> HIDE DEF intent
  <2>7. Forward(intents, intents') /\ intents' \in [IntentIds -> Intent]
    <3>1. intents' \in [IntentIds -> Intent]
      BY <2>1, <2>2, <2>5, <2>6
    <3>2. \A j \in IntentIds : intents[j].refunded \in Nat
      BY <2>2 DEF Intent
    <3> QED BY <2>1, <2>2, <2>5, <2>6, <3>1, <3>2 DEF Forward
  <2>8. /\ intents'[i].refunded > 0 /\ RowTrue(pays[h].entity, i, intents')
    <3>1. intents'[i].refunded > 0
      BY <2>1, <2>2, <2>5, <2>6
    <3> QED BY <2>1, <2>2, <2>7, <3>1, TruthLasts
  <2>9. /\ entity \in Payment /\ entity.status = "refunded"
        /\ entity.booking = pays[h].entity.booking
        /\ entity.amount = pays[h].entity.amount
    BY <2>1 DEF AsRefunded, Payment, PaymentStatus
  <2>10. RowTrue(entity, i, intents')
    BY <2>8, <2>9 DEF RowTrue
  <2> HIDE DEF entity
  <2>11. /\ p \in Pay /\ p.pc = "select" /\ p.intent = i /\ p.entity = entity
         /\ p.amount = pays[h].amount
    BY <2>9, ThePay DEF Pay, PayPc
  <2> HIDE DEF p
  <2>11a. SentBack(p, intents')
    <3>1. intents'[i] = intent
      BY <2>1, <2>2, <2>5
    <3>2. entity.amount = intent.amount /\ entity.booking = intent.booking
          /\ intent.state # "none"
      BY <2>10, <3>1 DEF RowTrue
    <3>3. Sum(p) <= intent.refunded
      BY <2>6, <2>11, <3>2 DEF Sum
    <3> QED BY <2>2, <2>9, <2>11, <3>1, <3>2, <3>3 DEF SentBack
  <2>12. PayBacked(p, intents')
    BY <2>1, <2>9, <2>10, <2>11, <2>11a DEF PayBacked, Starting, Copying, Dirtied, Calling
  <2>13. /\ pays' = [pays EXCEPT ![h] = p] /\ pays \in [Handlers -> Pay]
         /\ PayTypeOK /\ RowsTrue /\ EventsTrue /\ PaysBacked /\ RecordsFirst
         /\ Within /\ ReceiptsTrue
         /\ events \subseteq Event
    BY <1>3 DEF PayGoto, PayInv, PayTypeOK
  <2>14. PayTypeOK'
    BY <1>1, <2>7, <2>11, <2>13 DEF PayTypeOK
  <2>15. RowsTrue' /\ EventsTrue'
    BY <1>1, <2>2, <2>7, <2>13, TruthLasts DEF RowsTrue, EventsTrue
  <2>15a. Within'
    BY <2>1, <2>2, <2>5, <2>6, <2>13 DEF Within
  <2>15b. ReceiptsTrue'
    BY <1>1, <2>2, <2>7, <2>13, ReceiptsLast DEF PayTypeOK
  <2>16. PaysBacked'
    BY <2>2, <2>7, <2>12, <2>13, TruthLasts DEF PaysBacked
  <2>17. RecordsFirst'
    BY <1>1, <2>11, <2>13 DEF RecordsFirst, Copying
  <2> QED BY <2>14, <2>15, <2>15a, <2>15b, <2>16, <2>17 DEF PayInv
<1> QED BY <1>2, <1>3 DEF RefundAtStripe, RefundError

\* A step of the booking frame: what it deletes takes its payments with it.
LEMMA BookingStepInv ==
    ASSUME PIInv, NEW h \in Handlers, BookingStep(h)
    PROVE  PIInv'
<1>1. /\ IInv /\ PayTypeOK /\ RowsTrue /\ EventsTrue /\ PaysBacked /\ RecordsFirst
      /\ Within /\ ReceiptsTrue
      /\ pays \in [Handlers -> Pay] /\ payments \in [IntentIds -> Payment \cup {Absent}]
  BY DEF PIInv, PayInv, PayTypeOK
<1>2. IInv'
  BY <1>1, InvStep DEF BookingStep, Next
<1>3. /\ Cascade /\ UNCHANGED <<intents, events, customers, duplicates, linked, receipts>>
      /\ pays' = [pays EXCEPT ![h] = PayIdle] \/ pays' = pays
  BY DEF BookingStep, stripeVars
<1>4. /\ payments' \in [IntentIds -> Payment \cup {Absent}]
      /\ \A i \in IntentIds :
            payments'[i] # Absent => payments'[i] = payments[i]
      /\ \A i \in IntentIds : payments[i] = Absent => payments'[i] = Absent
  BY <1>1, <1>3 DEF Cascade
<1>5. PayTypeOK'
  BY <1>1, <1>3, <1>4, PayIdling DEF PayTypeOK
<1>6. RowsTrue' /\ EventsTrue' /\ Within' /\ ReceiptsTrue'
  BY <1>1, <1>3, <1>4 DEF RowsTrue, EventsTrue, Within, ReceiptsTrue
<1>7. PaysBacked'
  BY <1>1, <1>3, PayIdling DEF PaysBacked
<1>8. ASSUME NEW g \in Handlers, pays'[g].pc = "record"
      PROVE  payments'[pays'[g].intent] = Absent
  <2>1. pays'[g] = pays[g]
    BY <1>1, <1>3, <1>8, PayIdling
  <2>2. pays[g].intent \in IntentIds /\ payments[pays[g].intent] = Absent
    BY <1>1, <1>8, <2>1 DEF PaysBacked, PayBacked, RecordsFirst
  <2> QED BY <1>4, <2>1, <2>2
<1>9. ASSUME NEW g \in Handlers, NEW f \in Handlers \ {g}, pays'[g].pc = "record",
             pays'[f].pc \in Copying \cup {"record"}
      PROVE  pays'[f].intent # pays'[g].intent
  <2>1. pays'[g] = pays[g] /\ pays'[f] = pays[f]
    BY <1>1, <1>3, <1>9, PayIdling DEF Copying
  <2> QED BY <1>1, <1>9, <2>1 DEF RecordsFirst
<1>10. RecordsFirst'
  BY <1>8, <1>9 DEF RecordsFirst
<1> QED BY <1>2, <1>5, <1>6, <1>7, <1>10 DEF PIInv, PayInv

LEMMA PayStepInv ==
    ASSUME PIInv, NEW h \in Handlers, PayStep(h)
    PROVE  PIInv'
<1>0. IInv /\ PayInv
  BY DEF PIInv
<1>1. CASE \/ CheckPayableBooking(h) \/ CheckNotPaid(h)
           \/ CreateCustomer(h) \/ LinkCustomer(h) \/ IntentRefused(h)
  <2>1. /\ UNCHANGED <<payments, intents, events, receipts, duplicates>>
        /\ UNCHANGED bookingVars
        /\ pays[h].pc \in {"booking", "paid", "customer", "link", "intent"}
    BY <1>1 DEF CheckPayableBooking, CheckNotPaid, CreateCustomer, LinkCustomer, IntentRefused,
                stripeVars
  <2>2. pays[h].user \in Users
    BY <1>0, <2>1, ThePay DEF PayBacked, Starting
  <2>3. PayCounters'
    BY <1>0, <1>1, <2>1, <2>2
       DEF CheckPayableBooking, CheckNotPaid, CreateCustomer, LinkCustomer, IntentRefused,
           stripeVars, PayInv, PayTypeOK, PayCounters, ReceiptsTrue
  <2>4. PICK pc \in Starting \ {"record"} : PayGoto(h, PayIdle) \/ PayNext(h, pc)
    <3>1. \/ PayGoto(h, PayIdle) \/ PayNext(h, "paid") \/ PayNext(h, "intent")
          \/ PayNext(h, "customer") \/ PayNext(h, "link")
      BY <1>1 DEF CheckPayableBooking, CheckNotPaid, CreateCustomer, LinkCustomer, IntentRefused
    <3> QED BY <3>1 DEF Starting
  <2>5. UNCHANGED bookings
    BY <2>1 DEF bookingVars
  <2>6. PayInv'
    BY <1>0, <2>1, <2>3, <2>4, <2>5, PayStartInv DEF Starting
  <2> QED BY <1>0, <2>1, <2>6, InvStep DEF PIInv
<1>2. ASSUME NEW i \in IntentIds, CreateIntent(h, i) PROVE PIInv'
  <2>1. UNCHANGED bookingVars
    BY <1>2 DEF CreateIntent
  <2> QED BY <1>0, <1>2, <2>1, CreateIntentInv, InvStep DEF PIInv
<1>3. CASE RecordPayment(h)
  <2>1. UNCHANGED bookingVars
    BY <1>3 DEF RecordPayment
  <2> QED BY <1>0, <1>3, <2>1, RecordPaymentInv, InvStep DEF PIInv
<1>4. CASE LoadPayment(h)
  <2>1. UNCHANGED bookingVars
    BY <1>4 DEF LoadPayment
  <2> QED BY <1>0, <1>4, <2>1, LoadPaymentInv, InvStep DEF PIInv
<1>5. CASE SavePaymentSelect(h) \/ SavePaymentWrite(h) \/ SavePaymentInsert(h)
  <2>1. UNCHANGED bookingVars
    BY <1>5 DEF SavePaymentSelect, SavePaymentWrite, SavePaymentInsert
  <2> QED BY <1>0, <1>5, <2>1, SavePaymentInv, InvStep DEF PIInv
<1>6. CASE \/ CallUpdateStatus(h) \/ CallUpdateStatusFails(h)
           \/ UpdateStatusReturns(h) \/ NotifyPayment(h)
  BY <1>6, PayEndInv
<1>7. CASE RefundAtStripe(h)
  <2>1. UNCHANGED bookingVars
    BY <1>7 DEF RefundAtStripe
  <2> QED BY <1>0, <1>7, <2>1, RefundAtStripeInv, InvStep DEF PIInv
<1> QED BY <1>1, <1>2, <1>3, <1>4, <1>5, <1>6, <1>7 DEF PayStep

LEMMA PayInvStep == PIInv /\ [PayNextState]_vars => PIInv'
<1> SUFFICES ASSUME PIInv, [PayNextState]_vars PROVE PIInv'
  OBVIOUS
<1>0. IInv /\ PayInv
  BY DEF PIInv
<1>1. ASSUME NEW h \in Handlers, PayRequest(h) PROVE PIInv'
  BY <1>1, PayRequestInv
<1>2. ASSUME NEW h \in Handlers, PayStep(h) PROVE PIInv'
  BY <1>2, PayStepInv
<1>3. ASSUME UNCHANGED payVars, UNCHANGED bookings PROVE PayInv'
  BY <1>0, <1>3
     DEF payVars, stripeVars, PayInv, PayTypeOK, RowsTrue, EventsTrue, PaysBacked,
         RecordsFirst, Within, ReceiptsTrue
<1>4. ASSUME NEW h \in Handlers, BookingRequest(h) PROVE PIInv'
  <2>1. PICK u \in Users : Request(h, u)
    BY <1>4 DEF BookingRequest
  <2>2. UNCHANGED payVars /\ UNCHANGED bookings
    BY <1>4, <2>1
       DEF BookingRequest, Request, Create, UpdateStatus, BeginUpdateStatus, UpdateDates,
           UpdateOther, Remove, CheckIn, CheckOut, GenerateAccessCode, Unstored
  <2> QED BY <1>0, <1>3, <2>1, <2>2, RequestInv DEF PIInv
<1>5. ASSUME NEW h \in Handlers, BookingStep(h) PROVE PIInv'
  BY <1>5, BookingStepInv
<1>6. ASSUME NEW h \in Handlers, HandlerFails(h) PROVE PIInv'
  <2>1. IInv'
    BY <1>0, <1>6, Abandoned DEF HandlerFails, Unstored
  <2>2. PayInv'
    BY <1>0, <1>6, PayIdling, PayKept, PayMoves DEF HandlerFails, stripeVars, Copying
  <2> QED BY <2>1, <2>2 DEF PIInv
<1>7. ASSUME NEW h \in Handlers, NEW event \in events, Deliver(h, event) PROVE PIInv'
  <2> DEFINE p == [PayIdle EXCEPT !.pc = "load", !.intent = event.intent, !.event = event]
  <2>1. /\ PayGoto(h, p) /\ UNCHANGED <<bookings, payments, intents, events>>
        /\ UNCHANGED bookingVars /\ PayCounters'
    BY <1>0, <1>7, PayKept DEF Deliver, bookingVars, stripeVars
  <2>2. event \in Event /\ event.intent \in IntentIds /\ EventTrue(event, intents)
    BY <1>0 DEF PayInv, PayTypeOK, EventsTrue, Event
  <2>3. p \in Pay /\ p.pc = "load" /\ PayBacked(p, intents)
    BY <2>2 DEF PayIdle, Pay, PayPc, PayBacked, Starting, Copying, Dirtied, Calling,
       OfRefund, Paying
  <2> HIDE DEF p
  <2>4. PayInv'
    BY <1>0, <2>1, <2>3, PayMoves DEF Copying
  <2> QED BY <1>0, <2>1, <2>4, InvStep DEF PIInv
<1>8. ASSUME NEW i \in IntentIds, Charge(i) \/ Decline(i) PROVE PIInv'
  <2>1. /\ UNCHANGED bookingVars /\ UNCHANGED <<bookings, payments, pays>>
        /\ UNCHANGED <<customers, linked, receipts, duplicates>>
    BY <1>8 DEF Charge, Decline, bookingVars
  <2>2. intents \in [IntentIds -> Intent] /\ events \subseteq Event
    BY <1>0 DEF PayInv, PayTypeOK
  <2>3. CASE Charge(i)
    <3> DEFINE intent == [intents[i] EXCEPT !.state = "captured"]
    <3>1. /\ intents' = [intents EXCEPT ![i] = intent] /\ intents[i].state = "open"
          /\ events' = events \cup {[intent |-> i, type |-> "succeeded"]}
      BY <2>2, <2>3 DEF Charge
    <3>2. /\ intent \in Intent /\ intent.state = "captured"
          /\ intent.booking = intents[i].booking /\ intent.refunded = intents[i].refunded
          /\ intent.amount = intents[i].amount
          /\ \A j \in IntentIds : intents[j].refunded \in Nat
      BY <2>2 DEF Intent
    <3> HIDE DEF intent
    <3>3. Forward(intents, intents') /\ intents' \in [IntentIds -> Intent]
      BY <2>2, <3>1, <3>2 DEF Forward
    <3>3a. Within'
      BY <1>0, <2>2, <3>1, <3>2 DEF PayInv, Within
    <3>4. /\ events' \subseteq Event
          /\ \A event \in events' \ events : EventTrue(event, intents')
      BY <2>2, <3>1, <3>2 DEF Event, EventType, EventTrue
    <3>5. PayInv'
      BY <1>0, <2>1, <3>3, <3>3a, <3>4, MoneyMoves
    <3> QED BY <1>0, <2>1, <3>5, InvStep DEF PIInv
  <2>4. CASE Decline(i)
    <3>1. /\ intents' = intents /\ intents[i].state = "open"
          /\ events' = events \cup {[intent |-> i, type |-> "failed"]}
      BY <2>4 DEF Decline
    <3>2. Forward(intents, intents') /\ Within'
      BY <1>0, <2>2, <3>1, MoneyStays DEF PayInv, Within
    <3>3. /\ events' \subseteq Event
          /\ \A event \in events' \ events : EventTrue(event, intents')
      BY <2>2, <3>1 DEF Event, EventType, EventTrue
    <3>4. PayInv'
      BY <1>0, <2>1, <2>2, <3>1, <3>2, <3>3, MoneyMoves
    <3> QED BY <1>0, <2>1, <3>4, InvStep DEF PIInv
  <2> QED BY <1>8, <2>3, <2>4
<1>9. CASE Clock
  <2>1. UNCHANGED payVars /\ UNCHANGED bookings /\ Tick
    BY <1>9 DEF Clock, Tick, Unstored
  <2> QED BY <1>0, <1>3, <2>1, InvStep DEF PIInv, Next
<1>10. CASE UNCHANGED vars
  <2>1. UNCHANGED payVars /\ UNCHANGED bookings /\ UNCHANGED bookingVars
    BY <1>10 DEF vars, bookingVars
  <2> QED BY <1>0, <1>3, <2>1, InvStep DEF PIInv
<1> QED BY <1>1, <1>2, <1>4, <1>5, <1>6, <1>7, <1>8, <1>9, <1>10 DEF PayNextState

----------------------------------------------------------------------------
(* The theorems                                                            *)

\* The strengthened invariant holds in every reachable state.
THEOREM PayInvariance == PaySpec => []PIInv
BY PayInvInit, PayInvStep, PTL DEF PaySpec

\* Payments, payment handlers and what Stripe keeps always have their types.
THEOREM PayTypeCorrect == PaySpec => []PayTypeOK
<1>1. PIInv => PayTypeOK
  BY DEF PIInv, PayInv
<1> QED BY <1>1, PayInvariance, PTL

\* However webhooks, refunds, deletions and failures interleave, and however
\* often an event is delivered, a payment recorded as succeeded was captured
\* and one recorded as refunded was refunded.
THEOREM RecordsAreBacked == PaySpec => []MoneyBacksStatus
<1>1. PIInv => MoneyBacksStatus
  BY DEF PIInv, PayInv, RowsTrue, RowTrue, MoneyBacksStatus, Recorded
<1> QED BY <1>1, PayInvariance, PTL

\* The stages of a booking stay earned when payments confirm and cancel it.
THEOREM StagesSurvivePayments == PaySpec => []StagesInOrder
<1>1. PIInv => StagesInOrder
  BY FoundRow DEF PIInv, StagesInOrder, Stored, Backed
<1> QED BY <1>1, PayInvariance, PTL

----------------------------------------------------------------------------
(* The payments table implements the ledger                                *)

\* Nothing was sent back of an intent that does not exist.
Unopened == \A i \in IntentIds : intents[i].state = "none" => intents[i].refunded = 0

\* The steps that the ledger sees.
LEMMA LedgerSees ==
    ASSUME [PayNextState]_vars
    PROVE  \/ UNCHANGED <<payments, intents>>
           \/ \E h \in Handlers, i \in IntentIds : CreateIntent(h, i)
           \/ \E i \in IntentIds : Charge(i)
           \/ \E h \in Handlers : \/ RefundAtStripe(h) \/ RecordPayment(h)
                                  \/ SavePaymentWrite(h) \/ SavePaymentInsert(h)
                                  \/ BookingStep(h)
<1>1. ASSUME NEW h \in Handlers, PayRequest(h) PROVE UNCHANGED <<payments, intents>>
  BY <1>1 DEF PayRequest, CreatePaymentIntent, RefundPayment, stripeVars
<1>2. ASSUME NEW h \in Handlers,
             \/ CheckPayableBooking(h) \/ CheckNotPaid(h) \/ CreateCustomer(h)
             \/ LinkCustomer(h) \/ IntentRefused(h) \/ LoadPayment(h)
             \/ SavePaymentSelect(h) \/ CallUpdateStatus(h) \/ CallUpdateStatusFails(h)
             \/ UpdateStatusReturns(h) \/ NotifyPayment(h)
      PROVE  UNCHANGED <<payments, intents>>
  BY <1>2 DEF CheckPayableBooking, CheckNotPaid, CreateCustomer, LinkCustomer, IntentRefused,
              LoadPayment, SavePaymentSelect, CallUpdateStatus, CallUpdateStatusFails,
              UpdateStatusReturns, NotifyPayment, stripeVars
<1>3. ASSUME NEW h \in Handlers, BookingRequest(h) \/ HandlerFails(h)
      PROVE  UNCHANGED <<payments, intents>>
  BY <1>3 DEF BookingRequest, HandlerFails, payVars, stripeVars
<1>4. ASSUME NEW h \in Handlers, NEW event \in events, Deliver(h, event)
      PROVE  UNCHANGED <<payments, intents>>
  BY <1>4 DEF Deliver, stripeVars
<1>5. ASSUME NEW i \in IntentIds, Decline(i) PROVE UNCHANGED <<payments, intents>>
  BY <1>5 DEF Decline
<1>6. ASSUME Clock \/ UNCHANGED vars PROVE UNCHANGED <<payments, intents>>
  BY <1>6 DEF Clock, vars, payVars, stripeVars
<1> QED BY <1>1, <1>2, <1>3, <1>4, <1>5, <1>6 DEF PayNextState, PayStep

LEMMA UnopenedStep == PIInv /\ Unopened /\ [PayNextState]_vars => Unopened'
<1> SUFFICES ASSUME PIInv, Unopened, [PayNextState]_vars PROVE Unopened'
  OBVIOUS
<1>1. intents \in [IntentIds -> Intent]
  BY DEF PIInv, PayInv, PayTypeOK
<1>2. CASE UNCHANGED <<payments, intents>>
  BY <1>2 DEF Unopened
<1>3. ASSUME NEW h \in Handlers, NEW i \in IntentIds, CreateIntent(h, i) PROVE Unopened'
  BY <1>1, <1>3 DEF CreateIntent, Unopened
<1>4. ASSUME NEW i \in IntentIds, Charge(i) PROVE Unopened'
  BY <1>1, <1>4 DEF Charge, Unopened, Intent
<1>5. ASSUME NEW h \in Handlers, RefundAtStripe(h) PROVE Unopened'
  <2> DEFINE i == pays[h].intent
             sum == IF pays[h].amount = 0 THEN Left(i) ELSE pays[h].amount
  <2>1. CASE UNCHANGED intents
    BY <2>1 DEF Unopened
  <2>2. CASE /\ intents[i].state = "captured"
             /\ intents' = [intents EXCEPT ![i].refunded = @ + sum]
    <3> HIDE DEF sum
    <3> QED BY <1>1, <2>2 DEF Unopened, Intent
  <2> QED BY <1>5, <2>1, <2>2 DEF RefundAtStripe, Refundable
<1>6. ASSUME NEW h \in Handlers,
             \/ RecordPayment(h) \/ SavePaymentWrite(h) \/ SavePaymentInsert(h)
             \/ BookingStep(h)
      PROVE  Unopened'
  BY <1>6 DEF RecordPayment, SavePaymentWrite, SavePaymentInsert, BookingStep, stripeVars,
              Unopened
<1> QED BY <1>2, <1>3, <1>4, <1>5, <1>6, LedgerSees

LEMMA LedgerInit == PayInit => Ledger!Init /\ Unopened
BY DEF PayInit, NoIntent, Ledger!Init, Unopened

\* A write of intent i's row is a mark of the ledger, or none, when the status
\* stays or becomes one that is true.
LEMMA Marked ==
    ASSUME PIInv, NEW i \in IntentIds, NEW row \in Payment \cup {Absent},
           UNCHANGED intents, payments' = [payments EXCEPT ![i] = row],
           \/ row = payments[i]
           \/ /\ payments[i] # Absent /\ row # Absent
              /\ row.status = payments[i].status
           \/ /\ row # Absent
              /\ row.status \in {"succeeded", "failed", "refunded"}
              /\ RowTrue(row, i, intents)
    PROVE  [Ledger!Next]_Ledger!ledgerVars
<1>1. payments \in [IntentIds -> Payment \cup {Absent}]
  BY DEF PIInv, PayInv, PayTypeOK
<1>2. CASE \/ row = payments[i]
           \/ payments[i] # Absent /\ row # Absent /\ row.status = payments[i].status
  BY <1>1, <1>2 DEF Ledger!ledgerVars
<1>3. CASE /\ row # Absent /\ row.status \in {"succeeded", "failed", "refunded"}
           /\ RowTrue(row, i, intents)
  <2>1. Ledger!Truthful(i, row.status)
    BY <1>3 DEF RowTrue, Ledger!Truthful
  <2>2. Ledger!Mark(i, row.status)
    BY <1>1, <1>3, <2>1 DEF Ledger!Mark
  <2> QED BY <1>3, <2>2 DEF Ledger!Next
<1> QED BY <1>2, <1>3

LEMMA LedgerStep ==
    PIInv /\ Unopened /\ [PayNextState]_vars => [Ledger!Next]_Ledger!ledgerVars
<1> SUFFICES ASSUME PIInv, Unopened, [PayNextState]_vars
             PROVE  [Ledger!Next]_Ledger!ledgerVars
  OBVIOUS
<1>0. /\ PayInv /\ intents \in [IntentIds -> Intent]
      /\ payments \in [IntentIds -> Payment \cup {Absent}]
  BY DEF PIInv, PayInv, PayTypeOK
<1>1. CASE UNCHANGED <<payments, intents>>
  BY <1>1 DEF Ledger!ledgerVars
<1>2. ASSUME NEW h \in Handlers, NEW i \in IntentIds, CreateIntent(h, i)
      PROVE  [Ledger!Next]_Ledger!ledgerVars
  <2> DEFINE amount == pays[h].amount
  <2>1. /\ intents[i].state = "none" /\ intents[i].refunded = 0 /\ UNCHANGED payments
        /\ intents' = [intents EXCEPT ![i] =
              [state |-> "open", booking |-> pays[h].booking, amount |-> amount, refunded |-> 0]]
    BY <1>2 DEF CreateIntent, Unopened
  <2>2. amount \in Amounts
    BY <1>0, <1>2, ThePay DEF CreateIntent, PayBacked, Starting
  <2> HIDE DEF amount
  <2>3. Ledger!Open(i)
    BY <1>0, <2>1, <2>2 DEF Ledger!Open
  <2> QED BY <2>3 DEF Ledger!Next
<1>3. ASSUME NEW i \in IntentIds, Charge(i)
      PROVE  [Ledger!Next]_Ledger!ledgerVars
  <2>1. /\ intents[i].state = "open" /\ UNCHANGED payments
        /\ intents' = [intents EXCEPT ![i].state = "captured"]
    BY <1>3 DEF Charge
  <2>2. Ledger!Capture(i)
    BY <1>0, <2>1 DEF Ledger!Capture, Intent
  <2> QED BY <2>2 DEF Ledger!Next
<1>4. ASSUME NEW h \in Handlers, RefundAtStripe(h)
      PROVE  [Ledger!Next]_Ledger!ledgerVars
  <2>1. PICK i \in IntentIds : i = pays[h].intent
    BY <1>0, <1>4, ThePay DEF RefundAtStripe, PayBacked, Starting
  <2> DEFINE sum == IF pays[h].amount = 0 THEN Left(i) ELSE pays[h].amount
  <2>2. CASE UNCHANGED <<payments, intents>>
    BY <2>2 DEF Ledger!ledgerVars
  <2>3. CASE /\ Refundable(i, sum) /\ UNCHANGED payments
             /\ intents' = [intents EXCEPT ![i].refunded = @ + sum]
    <3>1. intents[i].amount \in Nat /\ intents[i].refunded \in Nat /\ pays[h].amount \in Nat
      BY <1>0, ThePay DEF Intent
    <3>2. sum \in 1..(intents[i].amount - intents[i].refunded)
      BY <2>3, <3>1 DEF Refundable, Left
    <3>3. intents[i].state = "captured"
      BY <2>3 DEF Refundable
    <3> HIDE DEF sum
    <3>4. Ledger!SendBack(i)
      BY <1>0, <2>3, <3>2, <3>3 DEF Ledger!SendBack, Intent
    <3> QED BY <3>4 DEF Ledger!Next
  <2> QED BY <1>4, <2>1, <2>2, <2>3 DEF RefundAtStripe
<1>5. ASSUME NEW h \in Handlers, RecordPayment(h)
      PROVE  [Ledger!Next]_Ledger!ledgerVars
  <2>1. PICK i \in IntentIds : i = pays[h].intent
    BY <1>0, <1>5, ThePay DEF RecordPayment, PayBacked, Starting
  <2> DEFINE row == [booking |-> pays[h].booking, amount |-> pays[h].amount,
                     status |-> "pending", refundId |-> FALSE]
  <2>2. CASE UNCHANGED payments
    BY <1>5, <2>2 DEF RecordPayment, stripeVars, Ledger!ledgerVars
  <2>3. CASE payments' = [payments EXCEPT ![i] = row]
    <3>1. intents[i].state # "none" /\ payments[i] = Absent
      BY <1>0, <1>5, <2>1, ThePay DEF RecordPayment, PayBacked, PayInv, RecordsFirst
    <3>2. UNCHANGED intents
      BY <1>5 DEF RecordPayment, stripeVars
    <3>3. pays[h].booking \in BookingIds /\ pays[h].amount \in Amounts
      BY <1>0, <1>5, ThePay DEF RecordPayment, PayBacked, Starting
    <3>4. row \in Payment
      BY <3>3 DEF Payment, PaymentStatus
    <3>5. row.status = "pending" /\ row # Absent
      BY <3>4, AbsentIsNoPayment
    <3> HIDE DEF row
    <3>6. Ledger!Record(i)
      BY <1>0, <2>3, <3>1, <3>2, <3>5 DEF Ledger!Record
    <3> QED BY <3>6 DEF Ledger!Next
  <2> QED BY <1>5, <2>1, <2>2, <2>3 DEF RecordPayment
<1>6. ASSUME NEW h \in Handlers, SavePaymentWrite(h) \/ SavePaymentInsert(h)
      PROVE  [Ledger!Next]_Ledger!ledgerVars
  <2> DEFINE i == pays[h].intent
             entity == pays[h].entity
             new == Updated(payments[i], entity, pays[h].cols)
  <2>1. /\ i \in IntentIds /\ entity \in Payment /\ RowTrue(entity, i, intents)
        /\ entity.status \in {"succeeded", "failed", "refunded"} /\ UNCHANGED intents
    BY <1>0, <1>6, ThePay
       DEF SavePaymentWrite, SavePaymentInsert, stripeVars, PayBacked, Starting, Copying, Dirtied
  <2>2. CASE UNCHANGED payments
    BY <2>1, <2>2 DEF Ledger!ledgerVars
  <2>3. CASE payments' = [payments EXCEPT ![i] = entity]
    BY <2>1, <2>3, AbsentIsNoPayment, Marked
  <2>4. CASE payments' = [payments EXCEPT ![i] = new] /\ payments[i] = Absent
    BY <2>1, <2>4, Marked DEF Updated
  <2>5. CASE payments' = [payments EXCEPT ![i] = new] /\ payments[i] # Absent
    <3>1. /\ payments[i] \in Payment /\ RowTrue(payments[i], i, intents)
          /\ new = Patched(payments[i], entity, pays[h].cols)
      BY <1>0, <2>1, <2>5 DEF PayInv, RowsTrue, Updated
    <3>2. /\ new \in Payment /\ RowTrue(new, i, intents)
          /\ new.status = IF "status" \in pays[h].cols THEN entity.status ELSE payments[i].status
      BY <1>0, <2>1, <3>1, ThePay, PatchedPayment, PatchedTrue DEF PaymentColumns
    <3> HIDE DEF new
    <3> QED BY <2>1, <2>5, <3>2, AbsentIsNoPayment, Marked
  <2> QED BY <1>6, <2>2, <2>3, <2>4, <2>5 DEF SavePaymentWrite, SavePaymentInsert
<1>7. ASSUME NEW h \in Handlers, BookingStep(h)
      PROVE  [Ledger!Next]_Ledger!ledgerVars
  <2>1. PICK S \in SUBSET IntentIds :
            S = {i \in IntentIds : payments[i] # Absent
                                     /\ bookings'[payments[i].booking] = Absent}
    OBVIOUS
  <2>2. /\ UNCHANGED intents
        /\ payments' = [i \in IntentIds |-> IF i \in S THEN Absent ELSE payments[i]]
    BY <1>7, <2>1 DEF BookingStep, Cascade, stripeVars
  <2>3. Ledger!Forget(S)
    BY <1>0, <2>2 DEF Ledger!Forget
  <2> QED BY <2>3 DEF Ledger!Next
<1> QED BY <1>1, <1>2, <1>3, <1>4, <1>5, <1>6, <1>7, LedgerSees

\* The payments table, whatever races for it, is an implementation of the
\* ledger: its record of a payment may lag behind the money, but every change
\* of it is one that the ledger allows.
THEOREM PaymentsImplementLedger == PaySpec => ImplementsLedger
<1>1. PaySpec => [](PIInv /\ Unopened)
  <2>1. PayInit => PIInv /\ Unopened
    BY PayInvInit, LedgerInit
  <2>2. PIInv /\ Unopened /\ [PayNextState]_vars => (PIInv /\ Unopened)'
    BY PayInvStep, UnopenedStep
  <2> QED BY <2>1, <2>2, PTL DEF PaySpec
<1> QED BY <1>1, LedgerInit, LedgerStep, PTL DEF PaySpec, ImplementsLedger, Ledger!Spec

----------------------------------------------------------------------------
(* Stripe remembers who paid, and refunds are as told                      *)
(*                                                                         *)
(* A handler that may answer 200 to the success of an intent has been      *)
(* through the save of its booking, and so has one that tells a renter of  *)
(* a total refund.  So the strengthening follows such a handler, and the   *)
(* booking frame it waits for: the frame carries the new status, which its *)
(* second query stores, unless a row that said the same was there at the   *)
(* first, or none is there any more.                                       *)

\* The booking frame c is about to give booking b the status, or has done so.
Carrying(c, b, status, facts) ==
    \/ /\ c.pc \in {"select", "write", "insert"}
       /\ c.id = b /\ c.entity \in Booking /\ c.entity.status = status
       /\ c.pc = "write" => "status" \in c.cols \/ Reached(facts, status)
    \/ c.pc \in {"notify", "idle"} /\ Reached(facts, status)

OfSuccess(p) == p.event # NoEvent /\ p.event.type = "succeeded"

\* A refund that tells of the whole amount.
OfAll(p) == OfRefund(p) /\ Sum(p) = p.entity.amount

\* The status that the handler will give to the booking.
Aim(p) == IF p.event = NoEvent THEN "canceled" ELSE "confirmed"

\* What a payment handler p with the booking frame c knows when it serves the
\* success of an intent or refunds all of one.
Attends(p, c, money, history) ==
    /\ OfSuccess(p) => /\ p.pc \in (Paying \ {"cancel"}) \cup {"load"}
                       /\ p.event \in Event /\ p.event.intent = p.intent
    /\ OfRefund(p) => /\ p.pc # "confirm"
                      /\ p.pc \in {"cancel", "nested"} => OfAll(p)
    /\ OfSuccess(p) \/ OfAll(p) =>
          /\ p.pc \in Paying => /\ p.intent \in IntentIds /\ money[p.intent].state # "none"
                                /\ p.entity.booking \in BookingIds
                                /\ p.entity.booking = money[p.intent].booking
          /\ p.pc = "nested" =>
                Carrying(c, p.entity.booking, Aim(p), history[p.entity.booking])
          /\ p.pc = "notify" => Reached(history[p.entity.booking], Aim(p))

AllAttend == \A h \in Handlers : Attends(pays[h], calls[h], intents, was)

\* An intent is for a booking.
IntentsForBookings ==
    \A i \in IntentIds : intents[i].state # "none" => intents[i].booking \in BookingIds

\* Who was told of a total refund has had the booking canceled.
CalledOff ==
    \A r \in receipts :
        r.type = "refunded" /\ r.sum = intents[r.intent].amount =>
            Reached(was[intents[r.intent].booking], "canceled")

PaidInv == PaidIsRemembered /\ AllAttend /\ IntentsForBookings /\ CalledOff

\* History only grows.
Grows(before, after) == \A b \in BookingIds : before[b] \subseteq after[b]

LEMMA ReachedLasts ==
    ASSUME NEW before, NEW after, before \subseteq after, NEW status, Reached(before, status)
    PROVE  Reached(after, status)
BY DEF Reached

\* Time changes nothing for a handler.
LEMMA AttendsLasts ==
    ASSUME NEW p, NEW c, NEW money, NEW after, NEW history, NEW later,
           Attends(p, c, money, history), Forward(money, after), Grows(history, later)
    PROVE  Attends(p, c, after, later)
<1> SUFFICES ASSUME OfSuccess(p) \/ OfAll(p) PROVE Attends(p, c, after, later)
  BY DEF Attends
<1>1. CASE p.pc \in Paying
  <2> DEFINE b == p.entity.booking
  <2>1. /\ p.intent \in IntentIds /\ money[p.intent].state # "none"
        /\ b \in BookingIds /\ b = money[p.intent].booking
    BY <1>1 DEF Attends
  <2>2. after[p.intent].state # "none" /\ b = after[p.intent].booking
    BY <2>1 DEF Forward
  <2>3. \A status : Reached(history[b], status) => Reached(later[b], status)
    BY <2>1, ReachedLasts DEF Grows
  <2>4. p.pc = "nested" => Carrying(c, b, Aim(p), later[b])
    BY <2>3 DEF Attends, Carrying
  <2>5. p.pc = "notify" => Reached(later[b], Aim(p))
    BY <2>3 DEF Attends
  <2> QED BY <2>1, <2>2, <2>4, <2>5 DEF Attends
<1>2. CASE p.pc \notin Paying
  BY <1>2 DEF Attends, Paying
<1> QED BY <1>1, <1>2

\* What renters were told of total refunds stays true.
LEMMA CalledOffLasts ==
    ASSUME PIInv, PaidInv, Forward(intents, intents'), Grows(was, was'), UNCHANGED receipts
    PROVE  CalledOff'
<1> SUFFICES ASSUME NEW r \in receipts, r.type = "refunded",
                    r.sum = intents'[r.intent].amount
             PROVE  Reached(was'[intents'[r.intent].booking], "canceled")
  BY DEF CalledOff
<1>1. r.intent \in IntentIds /\ intents[r.intent].state # "none"
  BY DEF PIInv, PayInv, PayTypeOK, ReceiptsTrue, Receipt
<1>2. /\ intents'[r.intent].booking = intents[r.intent].booking
      /\ intents'[r.intent].amount = intents[r.intent].amount
      /\ intents[r.intent].booking \in BookingIds
  BY <1>1 DEF Forward, PaidInv, IntentsForBookings
<1> QED BY <1>1, <1>2, ReachedLasts DEF PaidInv, CalledOff, Grows

\* One handler h moves, with its booking frame; the money moves forward, and
\* what Stripe forgets is settled.
LEMMA PaidMoves ==
    ASSUME PIInv, PaidInv, NEW h \in Handlers,
           \A g \in Handlers \ {h} : pays'[g] = pays[g] /\ calls'[g] = calls[g],
           Attends(pays'[h], calls'[h], intents', was'),
           Forward(intents, intents'), Grows(was, was'),
           \A i \in IntentIds : /\ intents'[i].state = "captured" => intents[i].state = "captured"
                                /\ intents'[i].state # "none" => intents'[i].booking \in BookingIds,
           \A i \in IntentIds :
               LET e == [intent |-> i, type |-> "succeeded"]
               IN  e \in events =>
                       e \in events' \/ Reached(was'[intents[i].booking], "confirmed"),
           CalledOff'
    PROVE  PaidInv'
<1>1. AllAttend'
  <2> SUFFICES ASSUME NEW g \in Handlers
               PROVE  Attends(pays'[g], calls'[g], intents', was')
    BY DEF AllAttend
  <2>1. CASE g = h
    BY <2>1
  <2>2. CASE g # h
    <3>1. Attends(pays[g], calls[g], intents, was)
      BY DEF PaidInv, AllAttend
    <3> QED BY <2>2, <3>1, AttendsLasts
  <2> QED BY <2>1, <2>2
<1>2. IntentsForBookings'
  BY DEF IntentsForBookings
<1>3. PaidIsRemembered'
  <2> SUFFICES ASSUME NEW i \in IntentIds, intents'[i].state = "captured"
               PROVE  [intent |-> i, type |-> "succeeded"] \in events' \/ BookingSettled(i)'
    BY DEF PaidIsRemembered
  <2>1. intents[i].state = "captured"
    OBVIOUS
  <2>2. intents[i].booking \in BookingIds /\ intents'[i].booking = intents[i].booking
    BY <2>1 DEF PaidInv, IntentsForBookings, Forward
  <2>3. CASE [intent |-> i, type |-> "succeeded"] \in events
    BY <2>2, <2>3 DEF BookingSettled
  <2>4. CASE Reached(was[intents[i].booking], "confirmed")
    BY <2>2, <2>4, ReachedLasts DEF BookingSettled, Grows
  <2> QED BY <2>1, <2>3, <2>4 DEF PaidInv, PaidIsRemembered, BookingSettled
<1> QED BY <1>1, <1>2, <1>3 DEF PaidInv

\* The common case: only the handler moves.
LEMMA PaidMovesAlone ==
    ASSUME PIInv, PaidInv, NEW h \in Handlers, NEW p,
           PayGoto(h, p), Attends(p, calls[h], intents, was),
           UNCHANGED <<calls, was, intents, events, receipts>>
    PROVE  PaidInv'
<1>1. pays' = [pays EXCEPT ![h] = p] /\ pays \in [Handlers -> Pay]
  BY DEF PayGoto, PIInv, PayInv, PayTypeOK
<1>2. Forward(intents, intents') /\ Grows(was, was') /\ CalledOff'
  <2>1. Forward(intents, intents') /\ Grows(was, was')
    BY MoneyStays DEF Grows, PIInv, PayInv, PayTypeOK
  <2> QED BY <2>1, CalledOffLasts
<1>3. \A i \in IntentIds : intents'[i].state # "none" => intents'[i].booking \in BookingIds
  BY DEF PaidInv, IntentsForBookings
<1>4. \A g \in Handlers \ {h} : pays'[g] = pays[g] /\ calls'[g] = calls[g]
  BY <1>1
<1>5. Attends(pays'[h], calls'[h], intents', was')
  BY <1>1
<1> QED BY <1>2, <1>3, <1>4, <1>5, PaidMoves

\* A handler with nothing to do need know nothing.
LEMMA IdleAttends ==
    \A c, money, history : Attends(PayIdle, c, money, history)
BY DEF Attends, OfSuccess, OfAll, OfRefund, Paying, PayIdle

LEMMA PaidInit == PayInit => PaidInv
<1> SUFFICES ASSUME PayInit PROVE PaidInv
  OBVIOUS
<1>1. AllAttend
  BY IdleAttends DEF PayInit, AllAttend
<1>2. PaidIsRemembered /\ IntentsForBookings /\ CalledOff
  BY DEF PayInit, PaidIsRemembered, IntentsForBookings, NoIntent, CalledOff
<1> QED BY <1>1, <1>2 DEF PaidInv


\* A handler on its way from an event of success or a refund to the answer
\* moves on, or gives up; so does any other.
LEMMA PaidPayStep ==
    ASSUME PIInv, PaidInv, NEW h \in Handlers,
           \/ CheckPayableBooking(h) \/ CheckNotPaid(h) \/ CreateCustomer(h) \/ LinkCustomer(h)
           \/ IntentRefused(h) \/ RecordPayment(h) \/ SavePaymentSelect(h)
           \/ SavePaymentWrite(h) \/ SavePaymentInsert(h) \/ CallUpdateStatusFails(h)
           \/ UpdateStatusReturns(h)
    PROVE  PaidInv'
<1>1. UNCHANGED <<calls, was, intents, events, receipts>>
  BY DEF CheckPayableBooking, CheckNotPaid, CreateCustomer, LinkCustomer, IntentRefused,
         RecordPayment, SavePaymentSelect, SavePaymentWrite, SavePaymentInsert,
         CallUpdateStatusFails, UpdateStatusReturns, bookingVars, stripeVars
<1>2. /\ pays[h] \in Pay /\ Attends(pays[h], calls[h], intents, was)
      /\ pays[h].event \in Event \cup {NoEvent}
      /\ PayBacked(pays[h], intents)
  BY ThePay DEF PaidInv, AllAttend, PIInv
<1>3. CASE PayGoto(h, PayIdle)
  BY <1>1, <1>3, IdleAttends, PaidMovesAlone
<1>4. ASSUME NEW pc \in {"paid", "intent", "customer", "link"}, PayNext(h, pc),
             pays[h].pc \in {"booking", "paid", "customer", "link"}
      PROVE  PaidInv'
  <2> DEFINE p == [pays[h] EXCEPT !.pc = pc]
  <2>1. p.event = pays[h].event /\ p.pc = pc /\ ~OfSuccess(pays[h])
    BY <1>2, <1>4 DEF Pay, Attends, Paying
  <2>2. Attends(p, calls[h], intents, was)
    BY <2>1 DEF Attends, OfSuccess, OfAll, OfRefund, Paying
  <2> HIDE DEF p
  <2> QED BY <1>1, <1>4, <2>2, PaidMovesAlone DEF PayNext, p
<1>5. ASSUME NEW p, PayGoto(h, p), pays[h].pc \in {"select", "write", "reinsert"},
             p.pc \in {"reinsert", "write", AfterPaymentSave(pays[h])},
             p.event = pays[h].event, p.intent = pays[h].intent, p.entity = pays[h].entity,
             p.amount = pays[h].amount
      PROVE  PaidInv'
  <2>1. OfSuccess(p) => p.pc \in {"reinsert", "write", "confirm"}
    BY <1>5 DEF OfSuccess, AfterPaymentSave
  <2>2. p.event = NoEvent => \/ p.pc \in {"reinsert", "write"}
                             \/ p.pc = "cancel" /\ Sum(p) = p.entity.amount
                             \/ p.pc = "notify" /\ Sum(p) # p.entity.amount
    BY <1>5 DEF AfterPaymentSave, Sum
  <2>3. OfSuccess(p) = OfSuccess(pays[h])
    BY <1>5 DEF OfSuccess
  <2>4. OfAll(p) = OfAll(pays[h])
    BY <1>5, AfterSaves DEF OfAll, OfRefund, Paying, Sum
  <2>5. p.pc \in Paying /\ pays[h].pc \in Paying
    BY <1>5, AfterSaves DEF Paying
  <2>6. Attends(p, calls[h], intents, was)
    BY <1>2, <1>5, <2>1, <2>2, <2>3, <2>4, <2>5
       DEF Attends, Paying, OfAll, OfRefund
  <2> QED BY <1>1, <1>5, <2>6, PaidMovesAlone
<1>6. CASE SavePaymentSelect(h) \/ SavePaymentWrite(h) \/ SavePaymentInsert(h)
  <2> DEFINE pc == AfterPaymentSave(pays[h])
             cols == Dirty(pays[h].entity, payments[pays[h].intent])
             p == [pays[h] EXCEPT !.pc = "write", !.cols = cols]
             q == [pays[h] EXCEPT !.pc = pc, !.cols = {}]
             r == [pays[h] EXCEPT !.pc = pc]
             s == [pays[h] EXCEPT !.pc = "reinsert"]
  <2>1. /\ pays[h].pc \in {"select", "write", "reinsert"}
        /\ \/ PayGoto(h, p) \/ PayGoto(h, q) \/ PayGoto(h, r) \/ PayGoto(h, s)
           \/ PayGoto(h, PayIdle)
    BY <1>6 DEF SavePaymentSelect, SavePaymentWrite, SavePaymentInsert, PayNext
  <2> HIDE DEF pc, cols
  <2>2. \A x \in {p, q, r, s} :
            /\ x.pc \in {"reinsert", "write", pc}
            /\ x.event = pays[h].event /\ x.intent = pays[h].intent
            /\ x.entity = pays[h].entity /\ x.amount = pays[h].amount
    BY <1>2 DEF Pay
  <2> HIDE DEF p, q, r, s
  <2> QED BY <1>3, <1>5, <2>1, <2>2 DEF pc
<1>7. CASE UpdateStatusReturns(h)
  <2> DEFINE p == [pays[h] EXCEPT !.pc = "notify"]
  <2>1. /\ pays[h].pc = "nested" /\ calls[h].pc = "idle" /\ PayGoto(h, p)
    BY <1>7 DEF UpdateStatusReturns, PayNext
  <2>2. /\ p.pc = "notify" /\ p.event = pays[h].event /\ p.intent = pays[h].intent
        /\ p.entity = pays[h].entity /\ p.amount = pays[h].amount
    BY <1>2 DEF Pay
  <2> HIDE DEF p
  <2>2a. /\ OfSuccess(p) = OfSuccess(pays[h]) /\ OfAll(p) = OfAll(pays[h])
         /\ Aim(p) = Aim(pays[h])
    BY <2>1, <2>2 DEF OfSuccess, OfAll, OfRefund, Paying, Sum, Aim
  <2>3. OfSuccess(p) \/ OfAll(p) => Reached(was[p.entity.booking], Aim(p))
    BY <1>2, <2>1, <2>2, <2>2a DEF Attends, Carrying
  <2>4. Attends(p, calls[h], intents, was)
    BY <1>2, <2>1, <2>2, <2>2a, <2>3 DEF Attends, Paying
  <2> QED BY <1>1, <2>1, <2>4, PaidMovesAlone
<1>8. CASE CheckPayableBooking(h)
  BY <1>3, <1>4, <1>8 DEF CheckPayableBooking
<1>9. CASE CheckNotPaid(h)
  BY <1>3, <1>4, <1>9 DEF CheckNotPaid
<1>10. CASE CreateCustomer(h)
  BY <1>4, <1>10 DEF CreateCustomer
<1>11. CASE LinkCustomer(h)
  BY <1>4, <1>11 DEF LinkCustomer
<1>12. CASE IntentRefused(h) \/ RecordPayment(h) \/ CallUpdateStatusFails(h)
  BY <1>3, <1>12 DEF IntentRefused, RecordPayment, CallUpdateStatusFails
<1> QED BY <1>6, <1>7, <1>8, <1>9, <1>10, <1>11, <1>12

\* An event is delivered, its payment is loaded.
LEMMA PaidDelivery ==
    ASSUME PIInv, PaidInv, NEW h \in Handlers,
           LoadPayment(h) \/ \E event \in events : Deliver(h, event)
    PROVE  PaidInv'
<1>1. UNCHANGED <<calls, was, intents, events, receipts>>
  BY DEF LoadPayment, Deliver, bookingVars, stripeVars
<1>2. ASSUME NEW event \in events, Deliver(h, event) PROVE PaidInv'
  <2> DEFINE p == [PayIdle EXCEPT !.pc = "load", !.intent = event.intent, !.event = event]
  <2>1. PayGoto(h, p) /\ event \in Event
    BY <1>2 DEF Deliver, PIInv, PayInv, PayTypeOK
  <2>2. p.pc = "load" /\ p.event = event /\ p.intent = event.intent
    BY DEF PayIdle
  <2> HIDE DEF p
  <2>3. Attends(p, calls[h], intents, was)
    BY <2>1, <2>2 DEF Attends, Paying, OfAll, OfRefund
  <2> QED BY <1>1, <2>1, <2>3, PaidMovesAlone
<1>3. CASE LoadPayment(h)
  <2> DEFINE i == pays[h].intent
             row == payments[i]
             entity == WithPaymentStatus(row, pays[h].event.type)
             p == [pays[h] EXCEPT !.pc = "select", !.entity = entity]
  <2>1. /\ pays[h].pc = "load"
        /\ IF row = Absent THEN PayGoto(h, PayIdle) ELSE PayGoto(h, p)
    BY <1>3 DEF LoadPayment
  <2>2. CASE row = Absent
    BY <1>1, <2>1, <2>2, IdleAttends, PaidMovesAlone
  <2>3. CASE row # Absent
    <3>1. /\ pays[h] \in Pay /\ i \in IntentIds /\ pays[h].event \in Event
          /\ pays[h].event.intent = i
      BY <2>1, ThePay DEF PIInv, PayBacked, Starting
    <3>2. row \in Payment /\ RowTrue(row, i, intents)
      BY <2>3, <3>1 DEF PIInv, PayInv, PayTypeOK, RowsTrue
    <3>3. entity.booking = row.booking
      BY <3>2 DEF WithPaymentStatus, Payment
    <3> HIDE DEF entity
    <3>4. p.pc = "select" /\ p.intent = i /\ p.entity = entity /\ p.event = pays[h].event
      BY <3>1 DEF Pay
    <3> HIDE DEF p
    <3>5. row.booking \in BookingIds /\ row.booking = intents[i].booking
          /\ intents[i].state # "none"
      BY <3>2, PaymentFields DEF RowTrue
    <3>6. Attends(p, calls[h], intents, was)
      BY <3>1, <3>3, <3>4, <3>5, NoEventIsNoEvent DEF Attends, Paying, OfAll, OfRefund
    <3> QED BY <1>1, <2>1, <2>3, <3>6, PaidMovesAlone
  <2> QED BY <2>2, <2>3
<1> QED BY <1>2, <1>3

\* The answer: Stripe forgets the event, and the booking is settled, or the
\* renter is told of a refund, and the booking was canceled if it was of all.
LEMMA PaidAnswer ==
    ASSUME PIInv, PaidInv, NEW h \in Handlers, NotifyPayment(h)
    PROVE  PaidInv'
<1> DEFINE p == pays[h]
<1>1. /\ p.pc = "notify" /\ PayGoto(h, PayIdle)
      /\ UNCHANGED <<calls, was, intents>>
      /\ events' = events \ {p.event} \/ events' = events
      /\ receipts' = receipts \cup
            {[type |-> IF p.event = NoEvent THEN "refunded" ELSE p.event.type,
              intent |-> p.intent, sum |-> Sum(p)]}
  BY DEF NotifyPayment, bookingVars
<1>2. pays' = [pays EXCEPT ![h] = PayIdle] /\ pays \in [Handlers -> Pay]
  BY <1>1 DEF PayGoto, PIInv, PayInv, PayTypeOK
<1>3. Attends(p, calls[h], intents, was)
  BY DEF PaidInv, AllAttend
<1>4. ASSUME NEW i \in IntentIds, [intent |-> i, type |-> "succeeded"] \in events,
             [intent |-> i, type |-> "succeeded"] \notin events'
      PROVE  Reached(was'[intents[i].booking], "confirmed")
  <2>1. p.event = [intent |-> i, type |-> "succeeded"] /\ p.event \in Event
    BY <1>1, <1>4 DEF PIInv, PayInv, PayTypeOK
  <2>2. p.event # NoEvent
    BY <2>1, NoEventIsNoEvent
  <2>3. OfSuccess(p) /\ p.event.intent = i
    BY <2>1, <2>2 DEF OfSuccess
  <2>4. /\ Reached(was[p.entity.booking], "confirmed")
        /\ p.entity.booking = intents[i].booking
    BY <1>1, <1>3, <2>2, <2>3 DEF Attends, Paying, Aim
  <2> QED BY <1>1, <2>4
<1>5. Forward(intents, intents') /\ Grows(was, was')
  BY <1>1, MoneyStays DEF Grows, PIInv, PayInv, PayTypeOK
<1>6. Attends(pays'[h], calls'[h], intents', was')
  BY <1>2, IdleAttends
<1>7. \A g \in Handlers \ {h} : pays'[g] = pays[g] /\ calls'[g] = calls[g]
  BY <1>1, <1>2
<1>8. \A i \in IntentIds : /\ intents'[i].state = "captured" => intents[i].state = "captured"
                           /\ intents'[i].state # "none" => intents'[i].booking \in BookingIds
  BY <1>1 DEF PaidInv, IntentsForBookings
<1>9. CalledOff'
  <2> SUFFICES ASSUME NEW r \in receipts', r.type = "refunded",
                      r.sum = intents[r.intent].amount
               PROVE  Reached(was[intents[r.intent].booking], "canceled")
    BY <1>1 DEF CalledOff
  <2>1. CASE r \in receipts
    BY <2>1 DEF PaidInv, CalledOff
  <2>2. CASE r \notin receipts
    <3>1. /\ r.intent = p.intent /\ r.sum = Sum(p)
          /\ p.event = NoEvent \/ p.event.type = "refunded"
      BY <1>1, <2>2
    <3>2. p.event = NoEvent
      BY <1>1, <3>1, ThePay DEF Event, EventType, PIInv
    <3>3. OfRefund(p) /\ SentBack(p, intents)
      BY <1>1, <3>2, ThePay DEF PIInv, PayBacked, OfRefund, Paying
    <3>4. OfAll(p) /\ p.entity.booking = intents[r.intent].booking
      BY <3>1, <3>3 DEF OfAll, SentBack
    <3> QED BY <1>1, <1>3, <3>2, <3>4 DEF Attends, Aim
  <2> QED BY <2>1, <2>2
<1> QED BY <1>4, <1>5, <1>6, <1>7, <1>8, <1>9, PaidMoves

\* The confirmation or cancelation is handed to a booking frame.
LEMMA PaidCall ==
    ASSUME PIInv, PaidInv, NEW h \in Handlers, CallUpdateStatus(h)
    PROVE  PaidInv'
<1> DEFINE b == pays[h].entity.booking
           status == StatusFor(pays[h].pc)
           p == [pays[h] EXCEPT !.pc = "nested"]
           c == Saving("select", b, WithStatus(bookings[b], status),
                       StatusNotes(bookings[b], status, "system"))
<1>1. /\ pays[h].pc \in Calling /\ PayGoto(h, p) /\ bookings[b] # Absent
      /\ Goto(h, c) /\ UNCHANGED <<was, intents, events, receipts>>
  BY DEF CallUpdateStatus, BeginUpdateStatus, PayNext, Calling, Unstored, stripeVars
<1>2. /\ pays[h] \in Pay /\ b \in BookingIds /\ IInv
  BY <1>1, ThePay, PaymentFields DEF PIInv, PayBacked
<1>3. bookings[b] \in Booking
  BY <1>1, <1>2, FoundRow
<1>4. /\ pays' = [pays EXCEPT ![h] = p] /\ calls' = [calls EXCEPT ![h] = c]
      /\ pays \in [Handlers -> Pay] /\ calls \in [Handlers -> Call]
  BY <1>1, <1>2 DEF PayGoto, Goto, PIInv, PayInv, PayTypeOK, IInv, TypeOK
<1>5. /\ p.pc = "nested" /\ p.event = pays[h].event /\ p.intent = pays[h].intent
      /\ p.entity = pays[h].entity /\ p.amount = pays[h].amount
  BY <1>2 DEF Pay
<1>6. /\ c.pc = "select" /\ c.id = b /\ c.entity = WithStatus(bookings[b], status)
  BY DEF Saving
<1>7. c.entity \in Booking /\ c.entity.status = status
  <2> DEFINE entity == WithStatus(bookings[b], status)
  <2>1. status \in Status
    BY DEF StatusFor, Status
  <2> HIDE DEF status
  <2>2. entity \in Booking
    BY <1>3, <2>1, Entities
  <2>3. entity.status = status
    BY <1>3 DEF WithStatus, Booking
  <2> HIDE DEF entity, c
  <2> QED BY <1>6, <2>2, <2>3 DEF entity
<1>8. Attends(pays[h], calls[h], intents, was)
  BY DEF PaidInv, AllAttend
<1>9. /\ OfSuccess(pays[h]) \/ OfAll(pays[h]) => status = Aim(pays[h])
      /\ OfRefund(pays[h]) => OfAll(pays[h])
  BY <1>1, <1>8 DEF Attends, Paying, Calling, StatusFor, OfSuccess, OfAll, OfRefund, Aim
<1> HIDE DEF p, c, status
<1>9a. /\ OfSuccess(p) = OfSuccess(pays[h]) /\ OfAll(p) = OfAll(pays[h])
       /\ OfRefund(p) = OfRefund(pays[h]) /\ Aim(p) = Aim(pays[h])
  BY <1>1, <1>5 DEF OfSuccess, OfAll, OfRefund, Paying, Calling, Sum, Aim
<1>10. Attends(p, c, intents, was)
  <2>1. OfSuccess(p) \/ OfAll(p) => Carrying(c, b, Aim(p), was[b])
    BY <1>6, <1>7, <1>9, <1>9a DEF Carrying
  <2> QED BY <1>1, <1>5, <1>8, <1>9, <1>9a, <2>1 DEF Attends, Paying, Calling
<1>11. Forward(intents, intents') /\ Grows(was, was')
  BY <1>1, MoneyStays DEF Grows, PIInv, PayInv, PayTypeOK
<1>12. \A g \in Handlers \ {h} : pays'[g] = pays[g] /\ calls'[g] = calls[g]
  BY <1>4
<1>13. Attends(pays'[h], calls'[h], intents', was')
  BY <1>1, <1>4, <1>10
<1>14. \A i \in IntentIds : intents'[i].state # "none" => intents'[i].booking \in BookingIds
  BY <1>1 DEF PaidInv, IntentsForBookings
<1>15. CalledOff'
  BY <1>1, <1>11, CalledOffLasts
<1> QED BY <1>1, <1>11, <1>12, <1>13, <1>14, <1>15, PaidMoves

\* Stripe opens an intent, or sends money back, and the handler has a refund
\* to record.
LEMMA PaidAtStripe ==
    ASSUME PIInv, PaidInv, NEW h \in Handlers,
           RefundAtStripe(h) \/ \E i \in IntentIds : CreateIntent(h, i)
    PROVE  PaidInv'
<1>0. /\ intents \in [IntentIds -> Intent] /\ pays \in [Handlers -> Pay]
      /\ pays[h] \in Pay /\ Attends(pays[h], calls[h], intents, was)
  BY ThePay DEF PIInv, PayInv, PayTypeOK, PaidInv, AllAttend
<1>1. ASSUME NEW p, PayGoto(h, p), Attends(p, calls[h], intents', was),
             UNCHANGED <<calls, was, events, receipts>>, Forward(intents, intents'),
             \A i \in IntentIds :
                 /\ intents'[i].state = "captured" => intents[i].state = "captured"
                 /\ intents'[i].state # "none" => intents'[i].booking \in BookingIds
      PROVE  PaidInv'
  <2>1. pays' = [pays EXCEPT ![h] = p]
    BY <1>1 DEF PayGoto
  <2>2. Attends(pays'[h], calls'[h], intents', was')
    BY <1>0, <1>1, <2>1
  <2>3. Grows(was, was') /\ CalledOff'
    <3>1. Grows(was, was')
      BY <1>1 DEF Grows
    <3> QED BY <1>1, <3>1, CalledOffLasts
  <2>4. \A g \in Handlers \ {h} : pays'[g] = pays[g] /\ calls'[g] = calls[g]
    BY <1>0, <1>1, <2>1
  <2> QED BY <1>1, <2>2, <2>3, <2>4, PaidMoves
<1>2. ASSUME NEW i \in IntentIds, CreateIntent(h, i) PROVE PaidInv'
  <2> DEFINE intent == [state |-> "open", booking |-> pays[h].booking,
                        amount |-> pays[h].amount, refunded |-> 0]
             p == [pays[h] EXCEPT !.pc = "record", !.intent = i]
  <2>1. /\ pays[h].pc = "intent" /\ intents[i].state = "none"
        /\ intents' = [intents EXCEPT ![i] = intent] /\ PayGoto(h, p)
        /\ UNCHANGED <<calls, was, events, receipts>>
    BY <1>2 DEF CreateIntent, bookingVars
  <2>2. p.event = pays[h].event /\ p.pc = "record"
    BY <1>0 DEF Pay
  <2>3. pays[h].booking \in BookingIds
    BY <2>1, ThePay DEF PIInv, PayBacked, Starting
  <2>4. intent.state = "open" /\ intent.booking = pays[h].booking
    OBVIOUS
  <2> HIDE DEF p, intent
  <2>5. Forward(intents, intents')
    <3>1. \A j \in IntentIds : intents[j].refunded \in Nat
      BY <1>0 DEF Intent
    <3> QED BY <1>0, <2>1, <3>1 DEF Forward
  <2>6. \A j \in IntentIds :
            /\ intents'[j].state = "captured" => intents[j].state = "captured"
            /\ intents'[j].state # "none" => intents'[j].booking \in BookingIds
    BY <1>0, <2>1, <2>3, <2>4 DEF PaidInv, IntentsForBookings
  <2>7. ~OfSuccess(p) /\ ~OfRefund(p)
    BY <1>0, <2>1, <2>2 DEF Attends, OfSuccess, OfRefund, Paying
  <2>8. Attends(p, calls[h], intents', was)
    BY <2>7 DEF Attends, OfAll
  <2> QED BY <1>1, <2>1, <2>5, <2>6, <2>8
<1>3. CASE RefundAtStripe(h)
  <2> DEFINE i == pays[h].intent
             sum == IF pays[h].amount = 0 THEN Left(i) ELSE pays[h].amount
             p == [pays[h] EXCEPT !.pc = "select", !.entity = AsRefunded(@)]
             intent == [intents[i] EXCEPT !.refunded = @ + sum]
  <2>1. /\ pays[h].pc = "refund" /\ UNCHANGED <<calls, was, events, receipts>>
        /\ \/ /\ Refundable(i, sum) /\ PayGoto(h, p)
              /\ intents' = [intents EXCEPT ![i] = intent]
           \/ PayGoto(h, PayIdle) /\ UNCHANGED intents
    BY <1>3 DEF RefundAtStripe, RefundError, bookingVars
  <2>2. /\ i \in IntentIds /\ p.event = pays[h].event /\ p.intent = i /\ p.pc = "select"
    BY <1>0, <2>1, ThePay DEF PIInv, PayBacked, Starting, Pay
  <2>3. CASE PayGoto(h, PayIdle) /\ UNCHANGED intents
    <3>1. Forward(intents, intents')
      BY <1>0, <2>3, MoneyStays
    <3> QED BY <1>1, <2>1, <2>3, <3>1, IdleAttends DEF PaidInv, IntentsForBookings
  <2>4. CASE /\ Refundable(i, sum) /\ PayGoto(h, p)
             /\ intents' = [intents EXCEPT ![i] = intent]
    <3>1. /\ intents[i].refunded \in Nat /\ intents[i].amount \in Nat
          /\ pays[h].amount \in Nat
      BY <1>0, <2>2, ThePay DEF Intent, PIInv
    <3>2. sum \in Int /\ sum > 0
      BY <2>4, <3>1 DEF Refundable, Left
    <3> HIDE DEF sum
    <3>3. /\ intent.state = intents[i].state /\ intent.booking = intents[i].booking
          /\ intent.amount = intents[i].amount /\ intents[i].refunded <= intent.refunded
          /\ \A j \in IntentIds : intents[j].refunded \in Nat
      BY <1>0, <2>2, <3>1, <3>2 DEF Intent
    <3> HIDE DEF intent, p
    <3>4. Forward(intents, intents')
      BY <1>0, <2>2, <2>4, <3>3 DEF Forward
    <3>5. \A j \in IntentIds :
              /\ intents'[j].state = "captured" => intents[j].state = "captured"
              /\ intents'[j].state # "none" => intents'[j].booking \in BookingIds
      BY <1>0, <2>2, <2>4, <3>3 DEF PaidInv, IntentsForBookings
    <3>6. ~OfSuccess(p)
      BY <1>0, <2>1, <2>2 DEF Attends, OfSuccess, Paying
    <3>7. OfRefund(p) => SentBack(p, intents')
      <4>1. PaysBacked'
        BY <1>3, RefundAtStripeInv DEF PIInv, PayInv
      <4>2. pays'[h] = p
        BY <1>0, <2>4 DEF PayGoto
      <4> QED BY <4>1, <4>2 DEF PaysBacked, PayBacked
    <3>8. Attends(p, calls[h], intents', was)
      BY <2>2, <3>6, <3>7, PaymentFields DEF Attends, OfAll, SentBack
    <3> QED BY <1>1, <2>1, <2>4, <3>4, <3>5, <3>8
  <2> QED BY <2>1, <2>3, <2>4
<1> QED BY <1>2, <1>3

\* The customer pays, and Stripe has an event of it; or the card is declined.
LEMMA PaidByCustomer ==
    ASSUME PIInv, PaidInv, NEW i \in IntentIds, Charge(i) \/ Decline(i)
    PROVE  PaidInv'
<1>0. intents \in [IntentIds -> Intent]
  BY DEF PIInv, PayInv, PayTypeOK
<1>1. /\ UNCHANGED <<calls, was, pays, receipts>> /\ events \subseteq events'
      /\ intents[i].state = "open"
      /\ \/ /\ intents' = [intents EXCEPT ![i].state = "captured"]
            /\ [intent |-> i, type |-> "succeeded"] \in events'
         \/ UNCHANGED intents
  BY DEF Charge, Decline, bookingVars
<1>2. \A j \in IntentIds :
          /\ intents'[j].booking = intents[j].booking
          /\ intents'[j].refunded = intents[j].refunded /\ intents[j].refunded \in Nat
          /\ intents'[j].amount = intents[j].amount
          /\ \/ intents'[j].state = intents[j].state
             \/ /\ j = i /\ intents'[j].state = "captured"
                /\ [intent |-> i, type |-> "succeeded"] \in events'
  BY <1>0, <1>1 DEF Intent
<1>3. Forward(intents, intents') /\ Grows(was, was')
  BY <1>1, <1>2 DEF Forward, Grows
<1>4. AllAttend'
  BY <1>1, <1>3, AttendsLasts DEF PaidInv, AllAttend
<1>5. IntentsForBookings'
  BY <1>1, <1>2 DEF PaidInv, IntentsForBookings
<1>6. PaidIsRemembered'
  BY <1>1, <1>2 DEF PaidInv, PaidIsRemembered, BookingSettled
<1>7. CalledOff'
  BY <1>1, <1>3, CalledOffLasts
<1> QED BY <1>4, <1>5, <1>6, <1>7 DEF PaidInv

\* A request that reaches an idle handler, and one that ends all of a sudden.
LEMMA PaidRequest ==
    ASSUME PIInv, PaidInv, NEW h \in Handlers,
           PayRequest(h) \/ BookingRequest(h) \/ HandlerFails(h)
    PROVE  PaidInv'
<1>0. /\ pays \in [Handlers -> Pay] /\ calls \in [Handlers -> Call]
      /\ Attends(pays[h], calls[h], intents, was)
  BY DEF PIInv, PayInv, PayTypeOK, IInv, TypeOK, PaidInv, AllAttend
<1>1. UNCHANGED <<was, intents, events, receipts>>
  BY DEF PayRequest, CreatePaymentIntent, RefundPayment, BookingRequest, HandlerFails, Request,
         Create, UpdateStatus, BeginUpdateStatus, UpdateDates, UpdateOther, Remove, CheckIn,
         CheckOut, GenerateAccessCode, Unstored, payVars, stripeVars
<1>2. ASSUME NEW p, pays' = [pays EXCEPT ![h] = p], ~OfSuccess(p), ~OfRefund(p),
             \A g \in Handlers \ {h} : calls'[g] = calls[g]
      PROVE  PaidInv'
  <2>1. Forward(intents, intents') /\ Grows(was, was')
    BY <1>1, MoneyStays DEF Grows, PIInv, PayInv, PayTypeOK
  <2>2. Attends(pays'[h], calls'[h], intents', was') /\ CalledOff'
    BY <1>0, <1>1, <1>2, <2>1, CalledOffLasts DEF Attends, OfAll
  <2>3. \A i \in IntentIds : intents'[i].state # "none" => intents'[i].booking \in BookingIds
    BY <1>1 DEF PaidInv, IntentsForBookings
  <2>4. \A g \in Handlers \ {h} : pays'[g] = pays[g] /\ calls'[g] = calls[g]
    BY <1>2
  <2> QED BY <1>1, <2>1, <2>2, <2>3, <2>4, PaidMoves
<1>3. ASSUME NEW u \in Users, NEW b \in BookingIds, NEW a \in Amounts,
             CreatePaymentIntent(h, u, b, a)
      PROVE  PaidInv'
  <2> DEFINE p == [PayIdle EXCEPT !.pc = "booking", !.user = u, !.booking = b, !.amount = a,
                                  !.customer = u \in linked]
  <2>1. pays' = [pays EXCEPT ![h] = p] /\ UNCHANGED calls
    BY <1>3 DEF CreatePaymentIntent, PayGoto
  <2>2. ~OfSuccess(p) /\ ~OfRefund(p)
    BY DEF OfSuccess, OfRefund, Paying, PayIdle
  <2> QED BY <1>2, <2>1, <2>2
<1>4. ASSUME NEW i \in IntentIds, NEW a \in RefundAmounts, RefundPayment(h, i, a)
      PROVE  PaidInv'
  <2> DEFINE p == [PayIdle EXCEPT !.pc = "refund", !.intent = i, !.amount = a,
                                  !.entity = payments[i]]
  <2>1. pays' = [pays EXCEPT ![h] = p] /\ UNCHANGED calls
    BY <1>4 DEF RefundPayment, PayGoto
  <2>2. ~OfSuccess(p) /\ ~OfRefund(p)
    BY DEF OfSuccess, OfRefund, Paying, PayIdle
  <2> QED BY <1>2, <2>1, <2>2
<1>5. CASE BookingRequest(h)
  <2>1. pays[h].pc = "idle" /\ pays' = pays
    BY <1>5 DEF BookingRequest, payVars
  <2>2. PICK c : Goto(h, c)
    BY <1>5 DEF BookingRequest, Request, Create, UpdateStatus, BeginUpdateStatus, UpdateDates,
                UpdateOther, Remove, CheckIn, CheckOut, GenerateAccessCode
  <2>3. \A g \in Handlers \ {h} : calls'[g] = calls[g]
    BY <1>0, <2>2 DEF Goto
  <2>4. ~OfSuccess(pays[h]) /\ ~OfRefund(pays[h])
    BY <1>0, <2>1 DEF Attends, OfRefund, Paying
  <2>5. pays' = [pays EXCEPT ![h] = pays[h]]
    BY <1>0, <2>1
  <2> QED BY <1>2, <2>3, <2>4, <2>5
<1>6. CASE HandlerFails(h)
  <2>1. pays' = [pays EXCEPT ![h] = PayIdle] /\ \A g \in Handlers \ {h} : calls'[g] = calls[g]
    BY <1>0, <1>6 DEF HandlerFails, PayGoto, Goto
  <2>2. ~OfSuccess(PayIdle) /\ ~OfRefund(PayIdle)
    BY DEF OfSuccess, OfRefund, Paying, PayIdle
  <2> QED BY <1>2, <2>1, <2>2
<1> QED BY <1>3, <1>4, <1>5, <1>6 DEF PayRequest


\* History only grows, and a step of the booking frame stores at most one row.
LEMMA HistoryStored ==
    ASSUME IInv, NEW b \in BookingIds, NEW row, Store(b, row)
    PROVE  /\ Grows(was, was')
           /\ row = Absent => "deleted" \in was'[b]
           /\ row # Absent => row.status \in was'[b]
<1>1. was' = [was EXCEPT ![b] = @ \cup (IF row = Absent THEN {"deleted"} ELSE Says(row))]
      /\ was \in [BookingIds -> SUBSET Fact]
  BY DEF Store, IInv, TypeOK
<1> QED BY <1>1 DEF Grows, Says

\* The booking frame that carries a new status makes a step: it ends with
\* an error, still carries it, or has settled the booking.
LEMMA CarryingStep ==
    ASSUME IInv, NEW h \in Handlers, NEW b \in BookingIds, NEW status, Step(h), ~InsertFails(h),
           Carrying(calls[h], b, status, was[b])
    PROVE  Carrying(calls'[h], b, status, was'[b])
<1> DEFINE c == calls[h]
<1>0. /\ calls \in [Handlers -> Call] /\ c \in Call
      /\ bookings \in [BookingIds -> Booking \cup {Absent}]
  BY DEF IInv, TypeOK
<1>1. c.pc \in {"select", "write", "insert", "notify", "idle"}
  BY DEF Carrying
<1>2. ASSUME NEW d, Goto(h, d) PROVE calls'[h] = d
  BY <1>0, <1>2 DEF Goto
<1>3. AfterSave(c).pc \in {"notify", "idle"}
  BY <1>0 DEF AfterSave, Idle, Call
<1>4. CASE SaveSelect(h)
  <2> DEFINE row == bookings[c.id]
             cols == Dirty(c.entity, row)
             d == [c EXCEPT !.pc = "write", !.cols = cols]
             e == [c EXCEPT !.pc = "insert"]
  <2>1. /\ c.pc = "select" /\ UNCHANGED was
        /\ Goto(h, IF row = Absent THEN e ELSE d)
    BY <1>4 DEF SaveSelect, Unstored
  <2>2. c.id = b /\ c.entity \in Booking /\ c.entity.status = status
    BY <2>1 DEF Carrying
  <2>3. CASE row = Absent
    <3>1. calls'[h] = e
      BY <1>2, <2>1, <2>3
    <3>2. e.pc = "insert" /\ e.id = b /\ e.entity = c.entity
      BY <1>0, <2>2 DEF Call
    <3> HIDE DEF e
    <3> QED BY <2>2, <3>1, <3>2 DEF Carrying
  <2>4. CASE row # Absent
    <3>1. calls'[h] = d
      BY <1>2, <2>1, <2>4
    <3>2. "status" \in cols \/ status \in was[b]
      BY <2>2, <2>4, FoundRow, RowFields DEF Dirty, Says, Columns
    <3> HIDE DEF cols
    <3>3. d.pc = "write" /\ d.id = b /\ d.entity = c.entity /\ d.cols = cols
      BY <1>0, <2>2 DEF Call
    <3> HIDE DEF d
    <3> QED BY <2>1, <2>2, <3>1, <3>2, <3>3 DEF Carrying, Reached
  <2> QED BY <2>3, <2>4
<1>5. CASE SaveWrite(h)
  <2> DEFINE row == bookings[b]
             new == Updated(row, c.entity, c.cols)
  <2>1. c.pc = "write"
    BY <1>5 DEF SaveWrite
  <2>2. /\ c.id = b /\ c.entity \in Booking /\ c.entity.status = status
        /\ "status" \in c.cols \/ Reached(was[b], status)
    BY <2>1 DEF Carrying
  <2>3. Store(b, new) /\ Goto(h, AfterSave(c))
    BY <1>5, <2>2 DEF SaveWrite
  <2>4. c.cols \in SUBSET Columns
    BY <1>0 DEF Call
  <2>5. CASE row = Absent
    <3>1. "deleted" \in was'[b]
      BY <2>3, <2>5, HistoryStored DEF Updated
    <3> QED BY <1>2, <1>3, <2>3, <3>1 DEF Carrying, Reached
  <2>6. CASE Reached(was[b], status)
    <3>1. Reached(was'[b], status)
      <4> HIDE DEF new
      <4> QED BY <2>3, <2>6, HistoryStored, ReachedLasts DEF Grows
    <3> QED BY <1>2, <1>3, <2>3, <3>1 DEF Carrying
  <2>7. CASE row # Absent /\ "status" \in c.cols
    <3>1. row \in Booking
      BY <1>0, <2>7
    <3>2. new \in Booking /\ new.status = status
      BY <2>2, <2>4, <2>7, <3>1, PatchedRow DEF Updated, Columns
    <3> HIDE DEF new
    <3>3. status \in was'[b]
      BY <2>3, <3>2, AbsentIsNoBooking, HistoryStored
    <3> QED BY <1>2, <1>3, <2>3, <3>3 DEF Carrying, Reached
  <2> QED BY <2>2, <2>5, <2>6, <2>7
<1>6. CASE SaveInsert(h)
  <2>1. c.pc = "insert"
    BY <1>6 DEF SaveInsert
  <2>2. c.id = b /\ c.entity \in Booking /\ c.entity.status = status
    BY <2>1 DEF Carrying
  <2>3. Store(b, c.entity) /\ Goto(h, AfterSave(c))
    BY <1>6, <2>2 DEF SaveInsert
  <2>4. status \in was'[b]
    BY <2>2, <2>3, AbsentIsNoBooking, HistoryStored
  <2> QED BY <1>2, <1>3, <2>3, <2>4 DEF Carrying, Reached
<1>7. CASE Notify(h)
  <2>1. c.pc = "notify" /\ UNCHANGED was
        /\ Goto(h, IF Len(c.todo) = 1 THEN Idle ELSE [c EXCEPT !.todo = Tail(@)])
    BY <1>7 DEF Notify, Unstored
  <2>2. Reached(was[b], status)
    BY <2>1 DEF Carrying
  <2>3. [c EXCEPT !.todo = Tail(@)].pc = "notify" /\ Idle.pc = "idle"
    BY <1>0, <2>1 DEF Call, Idle
  <2>4. calls'[h].pc \in {"notify", "idle"}
    BY <1>2, <2>1, <2>3
  <2> QED BY <2>1, <2>2, <2>4 DEF Carrying
<1>8. \A x \in BookingIds : ~InsertNew(h, x)
  BY <1>1 DEF InsertNew
<1>9. ~CheckConflict(h) /\ ~Delete(h) /\ ~SaveInsertFails(h)
  BY <1>1 DEF CheckConflict, Delete, SaveInsertFails
<1> QED BY <1>4, <1>5, <1>6, <1>7, <1>8, <1>9 DEF Step

LEMMA PaidBookingStep ==
    ASSUME PIInv, PaidInv, NEW h \in Handlers, BookingStep(h)
    PROVE  PaidInv'
<1> DEFINE c == calls[h]
<1>0. /\ IInv /\ pays \in [Handlers -> Pay] /\ calls \in [Handlers -> Call] /\ c \in Call
      /\ CallBacked(c, was) /\ Attends(pays[h], c, intents, was)
  BY DEF PIInv, PayInv, PayTypeOK, IInv, TypeOK, CallsBacked, PaidInv, AllAttend
<1>1. /\ Step(h) /\ UNCHANGED <<intents, events, receipts>>
      /\ pays' = IF InsertFails(h) THEN [pays EXCEPT ![h] = PayIdle] ELSE pays
  BY DEF BookingStep, stripeVars
<1>2. Grows(was, was')
  <2>1. ASSUME UNCHANGED was PROVE Grows(was, was')
    BY <2>1 DEF Grows
  <2>2. CASE CheckConflict(h) \/ SaveSelect(h) \/ SaveInsertFails(h) \/ Notify(h)
    BY <2>1, <2>2 DEF CheckConflict, SaveSelect, SaveInsertFails, Notify, Unstored
  <2>3. ASSUME NEW b \in BookingIds, InsertNew(h, b) PROVE Grows(was, was')
    BY <1>0, <2>3, HistoryStored DEF InsertNew
  <2>4. CASE SaveWrite(h) \/ SaveInsert(h) \/ Delete(h)
    <3>1. c.id \in BookingIds
      BY <1>0, <2>4 DEF SaveWrite, SaveInsert, Delete, CallBacked, HasRow
    <3>2. PICK row : Store(c.id, row)
      BY <2>4 DEF SaveWrite, SaveInsert, Delete
    <3> QED BY <1>0, <3>1, <3>2, HistoryStored
  <2> QED BY <1>1, <2>2, <2>3, <2>4 DEF Step
<1>3. Forward(intents, intents') /\ CalledOff'
  <2>1. Forward(intents, intents')
    BY <1>1, MoneyStays DEF PIInv, PayInv, PayTypeOK
  <2> QED BY <1>1, <1>2, <2>1, CalledOffLasts
<1>4. \A g \in Handlers \ {h} : pays'[g] = pays[g] /\ calls'[g] = calls[g]
  <2>1. PICK d : Goto(h, d)
    BY <1>1 DEF Step, CheckConflict, InsertNew, SaveSelect, SaveWrite, SaveInsert,
                SaveInsertFails, Delete, Notify
  <2> QED BY <1>0, <1>1, <2>1 DEF Goto
<1>5. Attends(pays'[h], calls'[h], intents', was')
  <2>1. CASE InsertFails(h)
    BY <1>0, <1>1, <2>1, IdleAttends
  <2>2. CASE ~InsertFails(h) /\ (OfSuccess(pays[h]) \/ OfAll(pays[h])) /\ pays[h].pc = "nested"
    <3> DEFINE p == pays[h]
               b == p.entity.booking
    <3>1. b \in BookingIds /\ Carrying(c, b, Aim(p), was[b])
      BY <1>0, <2>2 DEF Attends, Paying
    <3>2. Carrying(calls'[h], b, Aim(p), was'[b])
      BY <1>0, <1>1, <2>2, <3>1, CarryingStep
    <3>3. pays'[h] = p
      BY <1>1, <2>2
    <3> QED BY <1>0, <1>1, <2>2, <3>2, <3>3 DEF Attends, Paying
  <2>3. CASE ~InsertFails(h) /\ ~((OfSuccess(pays[h]) \/ OfAll(pays[h])) /\ pays[h].pc = "nested")
    <3>1. pays'[h] = pays[h]
      BY <1>1, <2>3
    <3>2. Attends(pays[h], calls'[h], intents, was)
      BY <1>0, <2>3 DEF Attends
    <3> QED BY <1>2, <1>3, <3>1, <3>2, AttendsLasts
  <2> QED BY <2>1, <2>2, <2>3
<1>6. \A i \in IntentIds : intents'[i].state # "none" => intents'[i].booking \in BookingIds
  BY <1>1 DEF PaidInv, IntentsForBookings
<1> QED BY <1>1, <1>2, <1>3, <1>4, <1>5, <1>6, PaidMoves

LEMMA PaidStep == PIInv /\ PaidInv /\ [PayNextState]_vars => PaidInv'
<1> SUFFICES ASSUME PIInv, PaidInv, [PayNextState]_vars PROVE PaidInv'
  OBVIOUS
<1>1. ASSUME NEW h \in Handlers, PayStep(h) PROVE PaidInv'
  BY <1>1, PaidPayStep, PaidDelivery, PaidAnswer, PaidCall, PaidAtStripe DEF PayStep
<1>2. ASSUME UNCHANGED <<pays, calls, was, intents, events, receipts>> PROVE PaidInv'
  BY <1>2 DEF PaidInv, PaidIsRemembered, BookingSettled, AllAttend, IntentsForBookings,
              CalledOff
<1>3. CASE Clock \/ UNCHANGED vars
  BY <1>2, <1>3 DEF Clock, Tick, Unstored, vars, bookingVars, payVars, stripeVars
<1> QED BY <1>1, <1>3, PaidRequest, PaidBookingStep, PaidDelivery, PaidByCustomer
        DEF PayNextState

\* Stripe never forgets that a customer paid before the booking was confirmed
\* or deleted: whatever dies, is delivered too early, twice or not at all,
\* the webhook answers 200 to no success it has not acted on.
THEOREM NoPaymentIsForgotten == PaySpec => []PaidIsRemembered
<1>1. PaidInv => PaidIsRemembered
  BY DEF PaidInv
<1> QED BY <1>1, PaidInit, PaidStep, PayInvariance, PTL DEF PaySpec

\* Whatever refunds, webhooks, updates, deletions and deaths come in between,
\* a renter is told of no more than Stripe sent back, told of all of it only
\* with the booking canceled or deleted, and no refund of a part cancels.
THEOREM RefundsDoAsTold == PaySpec => []RefundsAreAsTold
<1>1. ASSUME PIInv, PaidInv PROVE RefundsAreAsTold
  <2>1. ASSUME NEW h \in Handlers, pays[h].event = NoEvent, pays[h].pc \in {"cancel", "nested"}
        PROVE  Left(pays[h].intent) = 0
    <3> DEFINE p == pays[h]
               i == p.intent
    <3>1. PayBacked(p, intents) /\ Attends(p, calls[h], intents, was)
      BY <1>1, ThePay DEF PIInv, PaidInv, AllAttend
    <3>2. OfAll(p) /\ SentBack(p, intents) /\ i \in IntentIds
      BY <2>1, <3>1 DEF PayBacked, Attends, OfRefund, Paying, Starting
    <3>3. intents[i].refunded \in Nat /\ intents[i].amount \in Nat
      BY <1>1, <3>2 DEF PIInv, PayInv, PayTypeOK, Intent
    <3>4. intents[i].amount <= intents[i].refunded
      BY <3>2 DEF SentBack, OfAll
    <3>5. intents[i].refunded <= intents[i].amount
      BY <1>1, <3>2 DEF PIInv, PayInv, Within
    <3> QED BY <3>3, <3>4, <3>5 DEF Left
  <2>2. \A r \in receipts :
            r.type = "refunded" =>
                /\ r.sum <= intents[r.intent].refunded
                /\ r.sum = intents[r.intent].amount =>
                       Reached(was[intents[r.intent].booking], "canceled")
    BY <1>1 DEF PIInv, PayInv, ReceiptsTrue, PaidInv, CalledOff
  <2> QED BY <2>1, <2>2 DEF RefundsAreAsTold
<1> QED BY <1>1, PaidInit, PaidStep, PayInvariance, PTL DEF PaySpec
=============================================================================

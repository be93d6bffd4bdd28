--------------------------- MODULE PaymentLedger ---------------------------
(***************************************************************************)
(* What the payments table promises about the money at Stripe, with all    *)
(* requests, webhooks, retries and failures abstracted away: the record of *)
(* a payment may lag behind the money, or miss it altogether, but it never *)
(* claims what has not happened.                                           *)
(***************************************************************************)
EXTENDS Naturals

CONSTANTS IntentIds, Amounts

VARIABLES
    recorded,   \* what the table says of the intent, "none" without a row
    money,      \* what Stripe says of it
    due,        \* the amount of the intent, 0 while there is none
    paidBack    \* how much of it Stripe has sent back

ledgerVars == <<recorded, money, due, paidBack>>

Init ==
    /\ recorded = [i \in IntentIds |-> "none"]
    /\ money = [i \in IntentIds |-> "none"]
    /\ due = [i \in IntentIds |-> 0]
    /\ paidBack = [i \in IntentIds |-> 0]

\* The customer's money: an intent is opened, charged, and sent back.
Open(i) ==
    /\ money[i] = "none"
    /\ money' = [money EXCEPT ![i] = "open"]
    /\ \E amount \in Amounts : due' = [due EXCEPT ![i] = amount]
    /\ UNCHANGED <<recorded, paidBack>>

Capture(i) ==
    /\ money[i] = "open"
    /\ money' = [money EXCEPT ![i] = "captured"]
    /\ UNCHANGED <<recorded, due, paidBack>>

SendBack(i) ==
    /\ money[i] = "captured"
    /\ \E sum \in 1..(due[i] - paidBack[i]) :
            paidBack' = [paidBack EXCEPT ![i] = @ + sum]
    /\ UNCHANGED <<recorded, money, due>>

\* The record: a payment starts pending, once, and then says what is true.
Truthful(i, status) ==
    CASE status = "succeeded" -> money[i] = "captured"
      [] status = "refunded" -> paidBack[i] > 0
      [] status = "failed" -> money[i] # "none"
      [] OTHER -> FALSE

Record(i) ==
    /\ recorded[i] = "none" /\ money[i] # "none"
    /\ recorded' = [recorded EXCEPT ![i] = "pending"]
    /\ UNCHANGED <<money, due, paidBack>>

Mark(i, status) ==
    /\ Truthful(i, status)
    /\ recorded' = [recorded EXCEPT ![i] = status]
    /\ UNCHANGED <<money, due, paidBack>>

\* Payments disappear with the booking they belong to.
Forget(S) ==
    /\ recorded' = [i \in IntentIds |-> IF i \in S THEN "none" ELSE recorded[i]]
    /\ UNCHANGED <<money, due, paidBack>>

Next ==
    \/ \E i \in IntentIds :
        \/ Open(i) \/ Capture(i) \/ SendBack(i) \/ Record(i)
        \/ \E status \in {"succeeded", "refunded", "failed"} : Mark(i, status)
    \/ \E S \in SUBSET IntentIds : Forget(S)

Spec == Init /\ [][Next]_ledgerVars
=============================================================================

----------------------------- MODULE MCPayments -----------------------------
EXTENDS Payments, TLC

Symmetry == Permutations(BookingIds) \cup Permutations(Handlers)
            \cup Permutations(IntentIds)

\* Everybody has passed the phone verification.
MCLevel == [u \in Users |-> 2]
=============================================================================

-------------------------- MODULE MCSubscriptions --------------------------
EXTENDS Subscriptions, TLC

Symmetry == Permutations(SubIds) \cup Permutations(PauseIds) \cup Permutations(Handlers)
            \cup Permutations(Users)
=============================================================================

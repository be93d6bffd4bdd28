---------------------------- MODULE MCAccounts ----------------------------
EXTENDS Accounts, TLC

Symmetry == Permutations(AccountIds) \cup Permutations(Emails) \cup Permutations(Phones)
            \cup Permutations(RequestIds) \cup Permutations(Handlers)
=============================================================================

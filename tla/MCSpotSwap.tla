----------------------------- MODULE MCSpotSwap -----------------------------
EXTENDS SpotSwap, TLC

CONSTANTS host, p1

\* The host owns one parking, and nobody the others.
MCHosts == {<<host, p1>>}

Symmetry == Permutations(ListingIds) \cup Permutations(OfferIds)
            \cup Permutations(Handlers) \cup Permutations(Users \ {host})
=============================================================================

----------------------------- MODULE MCBookings -----------------------------
EXTENDS Bookings, TLC

Symmetry == Permutations(BookingIds) \cup Permutations(Handlers)
=============================================================================

----------------------------- MODULE BookingsMC -----------------------------
EXTENDS Bookings, TLC

Symmetry == Permutations(Users) \cup Permutations(Cards) \cup Permutations(Threads)
              \cup Permutations(Terms)
=============================================================================

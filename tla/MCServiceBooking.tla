-------------------------- MODULE MCServiceBooking --------------------------
(* Instances of ServiceBooking for TLC.                                       *)
EXTENDS ServiceBooking, TLC

CONSTANTS b1, b2, s1, s2, w1, w2

Alike == Permutations(Bookings) \cup Permutations(Slots) \cup Permutations(Workers)
=============================================================================

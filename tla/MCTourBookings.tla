--------------------------- MODULE MCTourBookings ---------------------------
(***************************************************************************)
(* Two bookings ask for three of the two seats left.                      *)
(***************************************************************************)
EXTENDS TourBookings, TLC

CONSTANTS b1, b2, d1

MCDepartureOf == (b1 :> d1) @@ (b2 :> d1)
MCSeatsOf == (b1 :> 1) @@ (b2 :> 2)
MCCapacity == d1 :> 2
=============================================================================

--------------------------- MODULE MCTourPayments ---------------------------
(***************************************************************************)
(* One booking, followed from its create request to its refund.            *)
(***************************************************************************)
EXTENDS TourPayments, TLC

CONSTANTS b1, d1

MCDepartureOf == b1 :> d1
MCSeatsOf == b1 :> 1
MCCapacity == d1 :> 1
=============================================================================

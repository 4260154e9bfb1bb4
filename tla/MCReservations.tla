--------------------------- MODULE MCReservations ---------------------------
(***************************************************************************)
(* A stay and a table, two cancel requests and two settlements.            *)
(***************************************************************************)
EXTENDS Reservations, TLC

CONSTANTS s1, t1, c1, c2, w1, w2
=============================================================================

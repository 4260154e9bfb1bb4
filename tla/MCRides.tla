------------------------------- MODULE MCRides -------------------------------
(***************************************************************************)
(* Two requests of one tourist.                                            *)
(***************************************************************************)
EXTENDS Rides, TLC

CONSTANT u1

OneRider == [r \in Rides |-> u1]
MCDriversFor == [r \in Rides |-> Drivers]
MCToDropoff == [r \in Rides |-> 2]
=============================================================================

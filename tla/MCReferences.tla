---------------------------- MODULE MCReferences ----------------------------
(***************************************************************************)
(* Two tour bookings and three reservations of one kind around New Year.   *)
(***************************************************************************)
EXTENDS References, TLC

CONSTANTS t1, t2, r1, r2, r3, TUR, STY

MCSeriesOf == (t1 :> TUR) @@ (t2 :> TUR) @@ (r1 :> STY) @@ (r2 :> STY) @@ (r3 :> STY)

\* The requests of a series are interchangeable.
Symmetry == Permutations({t1, t2}) \cup Permutations({r1, r2, r3})
=============================================================================

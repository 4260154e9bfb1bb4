----------------------------- MODULE SeatLedger -----------------------------
(***************************************************************************)
(* What the booking service promises about inventory: a booking gets its   *)
(* seats only while they fit, and keeps them until they are given back.    *)
(* How the seats of a set of bookings are counted is left open.            *)
(***************************************************************************)
EXTENDS Naturals

CONSTANTS Bookings, DepartureOf, Capacity, On(_), SeatsTaken(_)

VARIABLE held   \* the bookings that hold seats

Init == held = {}

Reserve(b) ==
    /\ b \notin held
    /\ SeatsTaken((held \cap On(DepartureOf[b])) \cup {b})
         <= Capacity[DepartureOf[b]]
    /\ held' = held \cup {b}

Release(S) == held' = held \ S

Next == (\E b \in Bookings : Reserve(b)) \/ (\E S \in SUBSET held : Release(S))

Spec == Init /\ [][Next]_held
=============================================================================

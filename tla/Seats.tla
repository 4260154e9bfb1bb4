------------------------------- MODULE Seats -------------------------------
(***************************************************************************)
(* The fixed part of the seat inventory: which departure a booking request *)
(* asks for, how many seats it wants, and how many a departure has.        *)
(***************************************************************************)
EXTENDS Naturals, FiniteSets

CONSTANTS
    Bookings,       \* one element per accepted POST /bookings body
    Departures,
    DepartureOf,    \* booking -> its departure (immutable once inserted)
    SeatsOf,        \* booking -> seats asked for, 1..20 by the request DTO
    MaxSeats,       \* the DTO's upper bound on seats
    Capacity        \* departure -> capacity (no operation changes it)

ASSUME SeatsAssumption ==
    /\ IsFiniteSet(Bookings)
    /\ MaxSeats \in Nat
    /\ DepartureOf \in [Bookings -> Departures]
    /\ SeatsOf \in [Bookings -> 1..MaxSeats]
    /\ Capacity \in [Departures -> Nat]

On(d) == {b \in Bookings : DepartureOf[b] = d}

\* SUM(seats) over a set of bookings, counted seat by seat.
SeatUnits(S) == {u \in S \X (1..MaxSeats) : u[2] <= SeatsOf[u[1]]}
SeatsTaken(S) == Cardinality(SeatUnits(S))
=============================================================================

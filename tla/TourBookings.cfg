CONSTANTS
    b1 = b1
    b2 = b2
    d1 = d1
    Bookings = {b1, b2}
    Departures = {d1}
    DepartureOf <- MCDepartureOf
    SeatsOf <- MCSeatsOf
    MaxSeats = 2
    Capacity <- MCCapacity
    Cancels = {c1}
    Settlements = {w1, w2}
    NoBooking = NoBooking
    MaxCrashes = 1
SPECIFICATION FairSpec
INVARIANTS TypeOK SeatsWithinCapacity AwardedOnce
PROPERTIES RefinesLedger RefinesLifecycle HoldsExpire PastBookingsComplete
CHECK_DEADLOCK FALSE

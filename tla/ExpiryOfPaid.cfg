CONSTANTS
    b1 = b1
    d1 = d1
    Bookings = {b1}
    Departures = {d1}
    DepartureOf <- MCDepartureOf
    SeatsOf <- MCSeatsOf
    MaxSeats = 1
    Capacity <- MCCapacity
    Cancels = {c1, c2}
    Settlements = {w1, w2}
    NoBooking = NoBooking
    MaxCrashes = 1
SPECIFICATION PSpec
PROPERTY ExpiresOnlyUnpaid
CHECK_DEADLOCK FALSE

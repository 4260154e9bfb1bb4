CONSTANTS
    s1 = s1
    t1 = t1
    c1 = c1
    c2 = c2
    w1 = w1
    w2 = w2
    Stays = {s1}
    Tables = {t1}
    Cancels = {c1, c2}
    Settlements = {w1, w2}
    NoReservation = NoReservation
    MaxCrashes = 1
SPECIFICATION FairSpec
INVARIANTS VTypeOK PaidWhileConfirmed CancelledStays
PROPERTY PaidStayRefunded
CHECK_DEADLOCK FALSE

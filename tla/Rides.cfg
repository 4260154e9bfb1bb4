CONSTANTS
    u1 = u1
    Rides = {r1, r2}
    RiderOf <- OneRider
    Drivers = {d1}
    DriversFor <- MCDriversFor
    MaxLeg = 2
    ToDropoff <- MCToDropoff
    Cancels = {c1}
    Ticks = {t1}
    NoRide = NoRide
    NoDriver = NoDriver
    MaxFaults = 1
SPECIFICATION FairSpec
INVARIANTS RTypeOK OneRideUnlessRaced DriverServesOne BusyDriversServe
PROPERTIES StatusFollowsEdges RidesFinish
CHECK_DEADLOCK FALSE

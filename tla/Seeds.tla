-------------------------------- MODULE Seeds --------------------------------
(***************************************************************************)
(* The seed script, src/database/seeds/seed.ts, as the sequence of steps   *)
(* that a run takes. A row is told by its table, the key it is looked for  *)
(* by and, where there are several of a key, a number. Nothing is left of  *)
(* the images that a run puts back, or of times but the day.               *)
(***************************************************************************)
EXTENDS Schema, SeedData, Integers

Row(table, key, n) == [table |-> table, key |-> key, n |-> n]

\* A step looks for the first of its rows and, if it is not there, saves them
\* one after the other. It dereferences the rows it needs, and stores values.
Step(saves, needs, values) ==
    [does |-> "ensure", saves |-> saves, needs |-> needs, values |-> values]

User(email) == Row("users", email, 0)
Destination(name) == Row("destinations", name, 0)
TourRow(slug) == Row("tours", slug, 0)
Booking(reference) == Row("tour_bookings", reference, 0)
ReviewBooking(k) == Row("tour_bookings", "TUR-SEED", k)
Review(k) == Row("reviews", "TUR-SEED", k)
Tourist == User("kofi@voyago.test")
\* fault: nobody of that address is seeded
FirstVendor == User("vendor@voyago.test")
Vendor == User("vendor1@voyago.test")

UserSteps ==
    [k \in DOMAIN seedUsers |->
        LET u == seedUsers[k] IN
        Step(<<User(u.email)>>
                \o IF u.company THEN <<Row("operator_profiles", u.email, 0)>> ELSE <<>>,
             {}, {Value("users", "role", u.role)})]

ReviewerSteps ==
    [k \in DOMAIN seedReviewers |->
        Step(<<User(seedReviewers[k])>>, {}, {Value("users", "role", "TOURIST")})]

DestinationSteps ==
    [k \in DOMAIN seedDestinations |-> Step(<<Destination(seedDestinations[k])>>, {}, {})]

\* fault: the departure is not pinned to the morning
at(day, days, nth) == 100 * nth + day + days

\* Departures of the n-th run, which is on some day, are told by their day.
atMorning(day, days, nth) == day + days

Departure(slug, day, days, nth) ==
    Row("tour_departures", slug, atMorning(day, days, nth))

TourSteps(day, nth) ==
    FlattenSeq([k \in DOMAIN seedTours |->
        LET t == seedTours[k].tour IN
        <<Step(<<TourRow(t.slug)>>, {Destination(seedTours[k].destination), User(t.operator)},
               {Value("tours", "status", "APPROVED")})>>
        \o [j \in DOMAIN t.departs |->
              Step(<<Departure(t.slug, day, t.departs[j], nth)>>, {TourRow(t.slug)},
                   {Value("tour_departures", "status", "SCHEDULED")})]])

\* A booking is of a tour's past departure, or of its first to come.
Departs(slug) == (CHOOSE t \in ToSet(seedTours) : t.tour.slug = slug).tour.departs
PastDays(slug) == CHOOSE n \in ToSet(Departs(slug)) : n < 0
NextDays(slug) == CHOOSE n \in ToSet(Departs(slug)) :
                     n >= 0 /\ \A m \in ToSet(Departs(slug)) : m >= n \/ m < 0

DemoBookings == <<
    <<"kakum-canopy-walk", "TUR-2026-9001", "CONFIRMED", FALSE>>,
    <<"cape-coast-castle-tour", "TUR-2026-9002", "COMPLETED", TRUE>>,
    <<"mole-safari-tour", "TUR-2026-9003", "CANCELLED", FALSE>>>>

DemoBookingSteps(day, nth) ==
    [k \in DOMAIN DemoBookings |->
        LET b == DemoBookings[k]
            days == IF b[4] THEN PastDays(b[1]) ELSE NextDays(b[1])
        IN  Step(<<Booking(b[2])>>,
                 {Tourist, TourRow(b[1]), Departure(b[1], day, days, nth)},
                 {Value("tour_bookings", "status", b[3])})]

\* Each review has a booking of its own.
ReviewSteps(day, nth) ==
    FlattenSeq([k \in DOMAIN seedReviews |->
        LET r == seedReviews[k] IN
        <<Step(<<ReviewBooking(k)>>,
               {User(r.reviewer), TourRow(r.tourSlug),
                Departure(r.tourSlug, day, PastDays(r.tourSlug), nth)},
               {Value("tour_bookings", "status", "COMPLETED")}),
          Step(<<Review(k)>>, {ReviewBooking(k), TourRow(r.tourSlug)}, {})>>])

\* The tours that reviews were seeded for, in the order they were met.
ReviewedSlugs ==
    LET first == {k \in DOMAIN seedReviews :
                    \A j \in 1..(k - 1) : seedReviews[j].tourSlug # seedReviews[k].tourSlug}
    IN  [i \in 1..Cardinality(first) |->
            LET k == CHOOSE k \in first : Cardinality({j \in first : j <= k}) = i
            IN  seedReviews[k].tourSlug]

\* Their ratings: the rows are read, then the tour loaded before is saved.
RecomputeSteps ==
    FlattenSeq([k \in DOMAIN ReviewedSlugs |->
        LET tour == TourRow(ReviewedSlugs[k])
            step(does) == [does |-> does, saves |-> <<tour>>, needs |-> {tour}, values |-> {}]
        IN  <<step("read"), step("save")>>])

FacilitySteps ==
    [k \in DOMAIN seedFacilities |->
        Step(<<Row("medical_facilities", seedFacilities[k][1], 0)>>, {},
             {Value("medical_facilities", "type", seedFacilities[k][2])})]

ContactSteps ==
    [k \in DOMAIN seedEmergencyContacts |->
        Step(<<Row("emergency_contacts", seedEmergencyContacts[k], 0)>>, {Tourist}, {})]

Location(slug) == Row("locations", slug, 0)
Restaurant(slug) == Row("restaurants", slug, 0)

LocationSteps ==
    [k \in DOMAIN seedCampusLocations |->
        Step(<<Location(seedCampusLocations[k][1])>>, {},
             {Value("locations", "category", seedCampusLocations[k][2])})]

RestaurantSteps ==
    [k \in DOMAIN seedRestaurants |-> Step(<<Restaurant(seedRestaurants[k])>>, {}, {})]

\* The campus joints, owned by the demo vendor.
JointSteps ==
    [k \in DOMAIN seedCampusRestaurants |->
        LET r == seedCampusRestaurants[k]
        IN  Step(<<Restaurant(r.slug)>>, {Vendor, Location(r.nearestLocation)}, {})]

StayRow(slug) == Row("stays", slug, 0)
StaySteps ==
    [k \in DOMAIN seedStays |->
        LET s == seedStays[k]
        IN  Step(<<StayRow(s.slug)>> \o [n \in 1..s.rooms |-> Row("rooms", s.slug, n)], {},
                 {Value("stays", "category", s.category)})]

\* The flights of all routes are saved in one transaction, and only when there
\* is none: one row stands for them.
Flights == Row("flights", "all", 0)
FlightSteps == <<Step(<<Flights>>, {}, {})>>

DriverSteps ==
    [k \in DOMAIN seedDrivers |->
        Step(<<Row("drivers", seedDrivers[k][1], 0)>>, {},
             {Value("drivers", "vehicle_type", seedDrivers[k][2])})]

\* The item that a reservation takes its snapshot of; there is none of a route
\* that is not flown.
Item(r) ==
    CASE r.type = "STAY" -> {StayRow(r.lookup)}
      [] r.type = "TABLE" -> {Restaurant(r.lookup)}
      [] r.type = "FLIGHT" /\ Contains(seedFlightRoutes, r.lookup) -> {Flights}
      [] r.type = "FLIGHT" /\ ~Contains(seedFlightRoutes, r.lookup) -> {Row("flights", r.lookup, 0)}

ReservationRow(reference) == Row("reservations", reference, 0)
ReservationSteps ==
    [k \in DOMAIN seedReservations |->
        LET r == seedReservations[k]
        IN  Step(<<ReservationRow(r.reference)>>, {Tourist} \cup Item(r),
                 {Value("reservations", "type", r.type),
                  Value("reservations", "status", r.status)})]

DemoPayments == <<
    <<"ps_seed_tur_9001", Booking("TUR-2026-9001"), "TOUR", "PAID">>,
    <<"ps_seed_tur_9002", Booking("TUR-2026-9002"), "TOUR", "PAID">>,
    <<"ps_seed_tur_9003", Booking("TUR-2026-9003"), "TOUR", "REFUNDED">>,
    <<"ps_seed_rsv_4101", ReservationRow("RSV-2026-4101"), "RESERVATION", "PAID">>,
    <<"ps_seed_rsv_4102", ReservationRow("RSV-2026-4102"), "RESERVATION", "PAID">>,
    <<"ps_seed_rsv_4103", ReservationRow("RSV-2026-4103"), "RESERVATION", "PAID">>,
    <<"ps_seed_rsv_4104", ReservationRow("RSV-2026-4104"), "RESERVATION", "PAID">>,
    <<"ps_seed_rsv_4106", ReservationRow("RSV-2026-4106"), "RESERVATION", "FAILED">>>>

PaymentSteps ==
    [k \in DOMAIN DemoPayments |->
        LET p == DemoPayments[k]
        IN  Step(<<Row("payments", p[1], 0)>>, {p[2]},
                 {Value("payments", "source", p[3]), Value("payments", "status", p[4])})]

ItinerarySteps ==
    [k \in DOMAIN seedItineraries |->
        Step(<<Row("itineraries", seedItineraries[k], 0)>>, {Tourist}, {})]

seed(day, nth) ==
    UserSteps \o ReviewerSteps \o DestinationSteps \o TourSteps(day, nth)
    \o DemoBookingSteps(day, nth) \o ReviewSteps(day, nth) \o RecomputeSteps
    \o FacilitySteps \o ContactSteps \o LocationSteps \o RestaurantSteps \o JointSteps
    \o StaySteps \o FlightSteps \o DriverSteps \o ReservationSteps \o PaymentSteps
    \o ItinerarySteps
=============================================================================

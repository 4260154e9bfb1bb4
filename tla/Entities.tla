------------------------------ MODULE Entities ------------------------------
(***************************************************************************)
(* The tables that the entity classes describe: the enums they declare and *)
(* the columns, unique constraints and indexes of each class. Relations    *)
(* are left out: most of the foreign keys that migrations add are not      *)
(* declared in the classes.                                                *)
(***************************************************************************)
EXTENDS Schema

NoEnums == [c \in {} |-> {}]

Entity(t, plain, enums, uniques, indexes) ==
    TableOf(t, plain, DOMAIN enums, uniques)
    \cup UNION {Enum(t, c, enums[c]) : c \in DOMAIN enums}
    \cup {Index(t, i) : i \in indexes}

ChatRole == {"USER", "ASSISTANT"}
BookingStatus == {"PENDING", "CONFIRMED", "CANCELLED", "COMPLETED"}
FacilityType == {"HOSPITAL", "CLINIC", "PHARMACY", "POLICE", "FIRE", "EMBASSY"}
SosKind == {"MEDICAL", "SECURITY", "FIRE", "OTHER"}
SosStatus == {"ACTIVE", "CANCELLED", "RESOLVED"}
FavoriteType == {"TOUR", "STAY", "RESTAURANT", "DESTINATION", "LOCATION"}
Cabin == {"ECONOMY", "PREMIUM_ECONOMY", "BUSINESS", "FIRST"}
LocationCategory == {"LECTURE_HALL", "DEPARTMENT", "PARK_FIELD", "HOSTEL_HALL",
        "ADMINISTRATION", "OTHER"}
PaymentSource == {"TOUR", "RESERVATION"}
PaymentStatus == {"PENDING", "PAID", "FAILED", "REFUNDED"}
ReservationType == {"STAY", "FLIGHT", "TABLE"}
ReservationStatus == {"PENDING", "CONFIRMED", "CANCELLED", "COMPLETED"}
VehicleType == {"TAXI", "CAR_HIRE", "SHUTTLE", "BUS"}
RideStatus == {"REQUESTED", "DRIVER_ASSIGNED", "ARRIVING", "IN_PROGRESS",
        "COMPLETED", "CANCELLED"}
StayCategory == {"HOTEL", "VILLA", "HOSTEL", "APARTMENT"}
DepartureStatus == {"SCHEDULED", "CANCELLED"}
TourStatus == {"DRAFT", "PENDING_REVIEW", "APPROVED", "SUSPENDED"}
UserRole == {"TOURIST", "OPERATOR", "STUDENT", "STAFF", "VISITOR", "VENDOR",
        "ADMIN"}

ChatMessageTable ==
    Entity("chat_messages", {"id", "session_id", "content", "actions",
        "created_at"}, "role" :> ChatRole, {}, {{"session_id"}})
ChatSessionTable ==
    Entity("chat_sessions", {"id", "user_id", "title", "created_at", "updated_at"},
        NoEnums, {}, {{"user_id"}})
PasswordResetTokenTable ==
    Entity("password_reset_tokens", {"id", "user_id", "token_hash", "expires_at",
        "used_at", "created_at"}, NoEnums, {}, {{"user_id"}})
RefreshTokenTable ==
    Entity("refresh_tokens", {"id", "user_id", "token_hash", "expires_at",
        "revoked_at", "user_agent", "created_at"}, NoEnums, {}, {{"user_id"}})
TourBookingTable ==
    Entity("tour_bookings", {"id", "reference", "tourist_id", "departure_id",
        "seats", "unit_price_minor", "total_minor", "currency", "cancelled_at",
        "created_at", "updated_at"}, "status" :> BookingStatus, {{"reference"}},
        {{"tourist_id"}, {"departure_id"}})
DestinationTable ==
    Entity("destinations", {"id", "name", "region", "country", "description",
        "hero_image_url", "lat", "lng", "created_at", "updated_at"}, NoEnums, {},
        {})
EmergencyContactTable ==
    Entity("emergency_contacts", {"id", "user_id", "name", "phone", "email",
        "relationship", "created_at"}, NoEnums, {}, {{"user_id"}})
MedicalFacilityTable ==
    Entity("medical_facilities", {"id", "name", "description", "lat", "lng",
        "phone", "open_24h", "country", "created_at"}, "type" :> FacilityType, {},
        {{"type"}, {"country"}})
SosAlertTable ==
    Entity("sos_alerts", {"id", "alert_id", "user_id", "lat", "lng", "note",
        "notified_contacts", "created_at", "cancelled_at"},
        "kind" :> SosKind @@ "status" :> SosStatus, {{"alert_id"}}, {{"user_id"}})
FavoriteTable ==
    Entity("favorites", {"id", "user_id", "item_id", "snapshot", "created_at"},
        "type" :> FavoriteType, {{"user_id", "type", "item_id"}}, {{"user_id"}})
FlightOfferTable ==
    Entity("flight_offers", {"id", "flight_id", "adults", "children", "infants",
        "total_minor", "currency", "expires_at", "created_at"}, "cabin" :> Cabin,
        {}, {{"flight_id"}})
FlightTable ==
    Entity("flights", {"id", "airline_code", "airline_name", "airline_logo_url",
        "origin", "destination", "departs_at", "arrives_at", "flight_number",
        "duration_minutes", "stops", "baggage_kg", "refundable", "amenities",
        "price_minor", "currency", "seats_available"}, NoEnums, {}, {{"origin",
        "destination"}})
RestaurantReviewTable ==
    Entity("restaurant_reviews", {"id", "restaurant_id", "author_id", "rating",
        "body", "created_at"}, NoEnums, {{"restaurant_id", "author_id"}},
        {{"restaurant_id"}})
RestaurantTable ==
    Entity("restaurants", {"id", "slug", "name", "cuisine", "price_tier",
        "description", "lat", "lng", "hero_image_url", "images", "dietary",
        "opening_hours", "menu", "phone", "whatsapp", "email", "contact_consent",
        "owner_id", "nearest_location_id", "rating_avg", "rating_count",
        "created_at", "updated_at"}, NoEnums, {{"slug"}}, {{"cuisine"},
        {"owner_id"}, {"nearest_location_id"}})
ItineraryTable ==
    Entity("itineraries", {"id", "user_id", "title", "destination_name", "days",
        "budget_minor", "party_size", "interests", "plan", "model", "created_at"},
        NoEnums, {}, {{"user_id"}})
LocationTable ==
    Entity("locations", {"id", "slug", "name", "description", "lat", "lng",
        "photos", "building_notes", "created_at", "updated_at"},
        "category" :> LocationCategory, {{"slug"}}, {{"category"}})
NotificationTable ==
    Entity("notifications", {"id", "user_id", "type", "title", "body", "data",
        "read", "created_at"}, NoEnums, {}, {{"user_id"}, {"read"}})
PaymentTable ==
    Entity("payments", {"id", "booking_id", "provider_ref", "amount_minor",
        "currency", "authorization_url", "raw_event", "created_at", "updated_at"},
        "source" :> PaymentSource @@ "status" :> PaymentStatus, {{"provider_ref"}},
        {{"booking_id"}})
ReservationTable ==
    Entity("reservations", {"id", "reference", "user_id", "total_minor", "currency",
        "item", "created_at", "cancelled_at"},
        "type" :> ReservationType @@ "status" :> ReservationStatus, {{"reference"}},
        {{"user_id"}})
ReviewTable ==
    Entity("reviews", {"id", "tour_id", "booking_id", "author_id", "rating", "body",
        "created_at"}, NoEnums, {{"booking_id"}}, {{"tour_id"}})
DriverTable ==
    Entity("drivers", {"id", "name", "phone", "rating", "vehicle_make",
        "vehicle_model", "vehicle_plate", "vehicle_color", "lat", "lng",
        "available"}, "vehicle_type" :> VehicleType, {}, {{"vehicle_type"},
        {"available"}})
RideQuoteTable ==
    Entity("ride_quotes", {"id", "pickup", "dropoff", "fare_minor", "eta_minutes",
        "surge_multiplier", "currency", "scheduled_at", "expires_at", "created_at"},
        "vehicle_type" :> VehicleType, {}, {})
RideTable ==
    Entity("rides", {"id", "user_id", "pickup", "dropoff", "fare_minor", "currency",
        "driver_id", "driver_lat", "driver_lng", "eta_minutes", "scheduled_at",
        "started_at", "completed_at", "created_at", "updated_at"},
        "status" :> RideStatus @@ "vehicle_type" :> VehicleType, {}, {{"user_id"},
        {"driver_id"}})
RoomTable ==
    Entity("rooms", {"id", "stay_id", "name", "max_guests", "bed",
        "price_per_night_minor", "available"}, NoEnums, {}, {{"stay_id"}})
StayTable ==
    Entity("stays", {"id", "slug", "name", "location", "lat", "lng", "stars",
        "rating_avg", "rating_count", "from_price_minor", "currency", "amenities",
        "images", "hero_image_url", "description", "created_at", "updated_at"},
        "category" :> StayCategory, {{"slug"}}, {{"category"}})
TourDepartureTable ==
    Entity("tour_departures", {"id", "tour_id", "departs_at", "capacity"},
        "status" :> DepartureStatus, {}, {{"tour_id"}})
TourTable ==
    Entity("tours", {"id", "operator_id", "destination_id", "title", "slug",
        "description", "price_minor", "currency", "duration_minutes",
        "hero_image_url", "rating_avg", "rating_count", "created_at", "updated_at"},
        "status" :> TourStatus, {{"slug"}}, {{"operator_id"}, {"destination_id"}})
OperatorProfileTable ==
    Entity("operator_profiles", {"id", "user_id", "company_name", "verified_at"},
        NoEnums, {{"user_id"}}, {})
UserTable ==
    Entity("users", {"id", "email", "password_hash", "full_name", "phone",
        "avatar_url", "loyalty_points", "created_at", "updated_at"},
        "role" :> UserRole, {{"email"}}, {})

EntitySchema ==
    ChatMessageTable \cup ChatSessionTable \cup PasswordResetTokenTable \cup
    RefreshTokenTable \cup TourBookingTable \cup DestinationTable \cup
    EmergencyContactTable \cup MedicalFacilityTable \cup SosAlertTable \cup
    FavoriteTable \cup FlightOfferTable \cup FlightTable \cup
    RestaurantReviewTable \cup RestaurantTable \cup ItineraryTable \cup
    LocationTable \cup NotificationTable \cup PaymentTable \cup
    ReservationTable \cup ReviewTable \cup DriverTable \cup RideQuoteTable \cup
    RideTable \cup RoomTable \cup StayTable \cup TourDepartureTable \cup
    TourTable \cup OperatorProfileTable \cup UserTable
=============================================================================

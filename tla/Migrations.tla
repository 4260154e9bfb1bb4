----------------------------- MODULE Migrations -----------------------------
(***************************************************************************)
(* The migrations of src/database/migrations, statement by statement, in   *)
(* the order in which TypeORM runs them: by the time stamp of their name.  *)
(***************************************************************************)
EXTENDS Schema

UsersUp == <<
    CreateType("users", "role", {"TOURIST", "OPERATOR", "ADMIN"}),
    CreateTableDefault("users", {"id", "email", "password_hash", "full_name",
        "phone",
        "loyalty_points", "created_at", "updated_at"}, {"role"}, {{"email"}},
        "role", "TOURIST"),
    CreateTable("operator_profiles", {"id", "company_name", "verified_at",
        "user_id"}, {}, {{"user_id"}}),
    AddKey("operator_profiles", "user_id", "users")>>
UsersDown == <<
    DropKey("operator_profiles", "user_id"),
    DropTable("operator_profiles"),
    DropTable("users"),
    DropType("users", "role")>>

RefreshTokensUp == <<
    CreateTable("refresh_tokens", {"id", "user_id", "token_hash", "expires_at",
        "revoked_at", "user_agent", "created_at"}, {}, {}),
    CreateIndex("refresh_tokens", {"user_id"})>>
RefreshTokensDown == <<
    DropIndex("refresh_tokens", {"user_id"}),
    DropTable("refresh_tokens")>>

DestinationsUp == <<
    CreateTable("destinations", {"id", "name", "region", "country", "description",
        "hero_image_url", "lat", "lng", "created_at", "updated_at"}, {}, {})>>
DestinationsDown == <<
    DropTable("destinations")>>

ToursUp == <<
    CreateType("tour_departures", "status", {"SCHEDULED", "CANCELLED"}),
    CreateTable("tour_departures", {"id", "tour_id", "departs_at", "capacity"},
        {"status"}, {}),
    CreateIndex("tour_departures", {"tour_id"}),
    CreateType("tours", "status", {"DRAFT", "PENDING_REVIEW", "APPROVED",
        "SUSPENDED"}),
    CreateTable("tours", {"id", "operator_id", "destination_id", "title", "slug",
        "description", "price_minor", "currency", "duration_minutes",
        "hero_image_url", "rating_avg", "rating_count", "created_at",
        "updated_at"}, {"status"}, {{"slug"}}),
    CreateIndex("tours", {"operator_id"}),
    CreateIndex("tours", {"destination_id"})>>
ToursDown == <<
    DropIndex("tours", {"destination_id"}),
    DropIndex("tours", {"operator_id"}),
    DropTable("tours"),
    DropType("tours", "status"),
    DropIndex("tour_departures", {"tour_id"}),
    DropTable("tour_departures"),
    DropType("tour_departures", "status")>>

BookingsUp == <<
    CreateType("tour_bookings", "status", {"PENDING", "CONFIRMED", "CANCELLED",
        "COMPLETED"}),
    CreateTable("tour_bookings", {"id", "reference", "tourist_id", "departure_id",
        "seats", "unit_price_minor", "total_minor", "currency", "cancelled_at",
        "created_at", "updated_at"}, {"status"}, {{"reference"}}),
    CreateIndex("tour_bookings", {"tourist_id"}),
    CreateIndex("tour_bookings", {"departure_id"})>>
BookingsDown == <<
    DropIndex("tour_bookings", {"departure_id"}),
    DropIndex("tour_bookings", {"tourist_id"}),
    DropTable("tour_bookings"),
    DropType("tour_bookings", "status")>>

PaymentsUp == <<
    CreateType("payments", "status", {"PENDING", "PAID", "FAILED", "REFUNDED"}),
    CreateTable("payments", {"id", "booking_id", "provider_ref", "amount_minor",
        "currency", "authorization_url", "raw_event", "created_at", "updated_at"},
        {"status"}, {{"provider_ref"}}),
    CreateIndex("payments", {"booking_id"})>>
PaymentsDown == <<
    DropIndex("payments", {"booking_id"}),
    DropTable("payments"),
    DropType("payments", "status")>>

ReviewsUp == <<
    CreateTable("reviews", {"id", "tour_id", "booking_id", "author_id", "rating",
        "body", "created_at"}, {}, {{"booking_id"}}),
    CreateIndex("reviews", {"tour_id"})>>
ReviewsDown == <<
    DropIndex("reviews", {"tour_id"}),
    DropTable("reviews")>>

PasswordResetTokensUp == <<
    CreateTable("password_reset_tokens", {"id", "user_id", "token_hash",
        "expires_at", "used_at", "created_at"}, {}, {}),
    CreateIndex("password_reset_tokens", {"user_id"})>>
PasswordResetTokensDown == <<
    DropIndex("password_reset_tokens", {"user_id"}),
    DropTable("password_reset_tokens")>>

UserAvatarUp == <<
    AddColumn("users", "avatar_url")>>
UserAvatarDown == <<
    DropColumn("users", "avatar_url")>>

ItinerariesUp == <<
    CreateTable("itineraries", {"id", "user_id", "title", "destination_name",
        "days", "budget_minor", "party_size", "interests", "plan", "model",
        "created_at"}, {}, {}),
    CreateIndex("itineraries", {"user_id"})>>
ItinerariesDown == <<
    DropIndex("itineraries", {"user_id"}),
    DropTable("itineraries")>>

EmergencyUp == <<
    CreateTable("emergency_contacts", {"id", "user_id", "name", "phone", "email",
        "relationship", "created_at"}, {}, {}),
    CreateIndex("emergency_contacts", {"user_id"}),
    CreateType("medical_facilities", "type", {"HOSPITAL", "CLINIC", "PHARMACY",
        "POLICE", "FIRE", "EMBASSY"}),
    CreateTable("medical_facilities", {"id", "name", "description", "lat", "lng",
        "phone", "open_24h", "country", "created_at"}, {"type"}, {}),
    CreateIndex("medical_facilities", {"type"}),
    CreateIndex("medical_facilities", {"country"}),
    CreateType("sos_alerts", "kind", {"MEDICAL", "SECURITY", "FIRE", "OTHER"}),
    CreateType("sos_alerts", "status", {"ACTIVE", "CANCELLED", "RESOLVED"}),
    CreateTable("sos_alerts", {"id", "alert_id", "user_id", "lat", "lng", "note",
        "notified_contacts", "created_at", "cancelled_at"},
        {"kind", "status"}, {{"alert_id"}}),
    CreateIndex("sos_alerts", {"user_id"})>>
EmergencyDown == <<
    DropIndex("sos_alerts", {"user_id"}),
    DropTable("sos_alerts"),
    DropType("sos_alerts", "status"),
    DropType("sos_alerts", "kind"),
    DropIndex("medical_facilities", {"country"}),
    DropIndex("medical_facilities", {"type"}),
    DropTable("medical_facilities"),
    DropType("medical_facilities", "type"),
    DropIndex("emergency_contacts", {"user_id"}),
    DropTable("emergency_contacts")>>

ReservationsUp == <<
    CreateType("reservations", "type", {"STAY", "FLIGHT", "TABLE"}),
    CreateType("reservations", "status", {"PENDING", "CONFIRMED", "CANCELLED",
        "COMPLETED"}),
    CreateTable("reservations", {"id", "reference", "user_id", "total_minor",
        "currency", "item", "created_at", "cancelled_at"},
        {"type", "status"}, {{"reference"}}),
    CreateIndex("reservations", {"user_id"})>>
ReservationsDown == <<
    DropIndex("reservations", {"user_id"}),
    DropTable("reservations"),
    DropType("reservations", "status"),
    DropType("reservations", "type")>>

RestaurantsUp == <<
    CreateTable("restaurants", {"id", "slug", "name", "cuisine", "price_tier",
        "description", "lat", "lng", "hero_image_url", "images", "dietary",
        "opening_hours", "menu", "rating_avg", "rating_count", "created_at",
        "updated_at"}, {}, {{"slug"}}),
    CreateIndex("restaurants", {"cuisine"})>>
RestaurantsDown == <<
    DropIndex("restaurants", {"cuisine"}),
    DropTable("restaurants")>>

PaymentSourceUp == <<
    CreateType("payments", "source", {"TOUR", "RESERVATION"}),
    AddTyped("payments", "source")>>
PaymentSourceDown == <<
    DropColumn("payments", "source"),
    DropType("payments", "source")>>

StaysUp == <<
    CreateTable("rooms", {"id", "stay_id", "name", "max_guests", "bed",
        "price_per_night_minor", "available"}, {}, {}),
    CreateIndex("rooms", {"stay_id"}),
    CreateType("stays", "category", {"HOTEL", "VILLA", "HOSTEL", "APARTMENT"}),
    CreateTable("stays", {"id", "slug", "name", "location", "lat", "lng", "stars",
        "rating_avg", "rating_count", "from_price_minor", "currency", "amenities",
        "images", "hero_image_url", "description", "created_at", "updated_at"},
        {"category"}, {{"slug"}}),
    CreateIndex("stays", {"category"})>>
StaysDown == <<
    DropIndex("stays", {"category"}),
    DropTable("stays"),
    DropType("stays", "category"),
    DropIndex("rooms", {"stay_id"}),
    DropTable("rooms")>>

FlightsUp == <<
    CreateTable("flights", {"id", "airline_code", "airline_name",
        "airline_logo_url", "origin", "destination", "departs_at", "arrives_at",
        "flight_number", "duration_minutes", "stops", "baggage_kg", "refundable",
        "amenities", "price_minor", "currency", "seats_available"}, {}, {}),
    CreateIndex("flights", {"origin", "destination"}),
    CreateType("flight_offers", "cabin", {"ECONOMY", "PREMIUM_ECONOMY", "BUSINESS",
        "FIRST"}),
    CreateTable("flight_offers", {"id", "flight_id", "adults", "children",
        "infants", "total_minor", "currency", "expires_at", "created_at"},
        {"cabin"}, {}),
    CreateIndex("flight_offers", {"flight_id"})>>
FlightsDown == <<
    DropIndex("flight_offers", {"flight_id"}),
    DropTable("flight_offers"),
    DropType("flight_offers", "cabin"),
    DropIndex("flights", {"origin", "destination"}),
    DropTable("flights")>>

RidesUp == <<
    CreateType("drivers", "vehicle_type", {"TAXI", "CAR_HIRE", "SHUTTLE", "BUS"}),
    CreateTable("drivers", {"id", "name", "phone", "rating", "vehicle_make",
        "vehicle_model", "vehicle_plate", "vehicle_color", "lat", "lng",
        "available"}, {"vehicle_type"}, {}),
    CreateIndex("drivers", {"vehicle_type"}),
    CreateIndex("drivers", {"available"}),
    CreateType("ride_quotes", "vehicle_type", {"TAXI", "CAR_HIRE", "SHUTTLE",
        "BUS"}),
    CreateTable("ride_quotes", {"id", "pickup", "dropoff", "fare_minor",
        "eta_minutes", "surge_multiplier", "currency", "scheduled_at",
        "expires_at", "created_at"}, {"vehicle_type"}, {}),
    CreateType("rides", "status", {"REQUESTED", "DRIVER_ASSIGNED", "ARRIVING",
        "IN_PROGRESS", "COMPLETED", "CANCELLED"}),
    CreateType("rides", "vehicle_type", {"TAXI", "CAR_HIRE", "SHUTTLE", "BUS"}),
    CreateTable("rides", {"id", "user_id", "pickup", "dropoff", "fare_minor",
        "currency", "driver_id", "driver_lat", "driver_lng", "eta_minutes",
        "scheduled_at", "started_at", "completed_at", "created_at", "updated_at"},
        {"status", "vehicle_type"}, {}),
    CreateIndex("rides", {"user_id"}),
    CreateIndex("rides", {"driver_id"})>>
RidesDown == <<
    DropIndex("rides", {"driver_id"}),
    DropIndex("rides", {"user_id"}),
    DropTable("rides"),
    DropType("rides", "vehicle_type"),
    DropType("rides", "status"),
    DropTable("ride_quotes"),
    DropType("ride_quotes", "vehicle_type"),
    DropIndex("drivers", {"available"}),
    DropIndex("drivers", {"vehicle_type"}),
    DropTable("drivers"),
    DropType("drivers", "vehicle_type")>>

FavoritesAndNotificationsUp == <<
    CreateType("favorites", "type", {"TOUR", "STAY", "RESTAURANT", "DESTINATION"}),
    CreateTable("favorites", {"id", "user_id", "item_id", "snapshot",
        "created_at"}, {"type"}, {{"user_id", "type", "item_id"}}),
    CreateIndex("favorites", {"user_id"}),
    CreateTable("notifications", {"id", "user_id", "type", "title", "body", "data",
        "read", "created_at"}, {}, {}),
    CreateIndex("notifications", {"user_id"}),
    CreateIndex("notifications", {"read"})>>
FavoritesAndNotificationsDown == <<
    DropIndex("notifications", {"read"}),
    DropIndex("notifications", {"user_id"}),
    DropTable("notifications"),
    DropIndex("favorites", {"user_id"}),
    DropTable("favorites"),
    DropType("favorites", "type")>>

LocationsUp == <<
    CreateType("locations", "category", {"LECTURE_HALL", "DEPARTMENT",
        "PARK_FIELD", "HOSTEL_HALL", "ADMINISTRATION", "OTHER"}),
    CreateTable("locations", {"id", "slug", "name", "description", "lat", "lng",
        "photos", "building_notes", "created_at", "updated_at"}, {"category"},
        {{"slug"}}),
    CreateIndex("locations", {"category"})>>
LocationsDown == <<
    DropIndex("locations", {"category"}),
    DropTable("locations"),
    DropType("locations", "category")>>

\* The type of an enum column is replaced by one with these values.
RetypeRole(values) == <<
    RenameType("users", "role"),
    CreateType("users", "role", values),
    DropDefault("users", "role"),
    Retype("users", "role"),
    SetDefault("users", "role", "TOURIST"),
    DropOldType("users", "role")>>
RetypeFavorite(values) == <<
    RenameType("favorites", "type"),
    CreateType("favorites", "type", values),
    Retype("favorites", "type"),
    DropOldType("favorites", "type")>>

CampusFoodUp == RetypeRole({"TOURIST", "OPERATOR", "VENDOR", "ADMIN"}) \o <<
    AddColumn("restaurants", "phone"),
    AddColumn("restaurants", "whatsapp"),
    AddColumn("restaurants", "email"),
    AddColumn("restaurants", "contact_consent"),
    AddColumn("restaurants", "owner_id"),
    CreateIndex("restaurants", {"owner_id"}),
    AddKey("restaurants", "owner_id", "users"),
    AddColumn("restaurants", "nearest_location_id"),
    CreateIndex("restaurants", {"nearest_location_id"}),
    AddKey("restaurants", "nearest_location_id", "locations"),
    CreateTable("restaurant_reviews", {"id", "restaurant_id", "author_id",
        "rating", "body", "created_at"}, {}, {{"restaurant_id", "author_id"}}),
    CreateIndex("restaurant_reviews", {"restaurant_id"}),
    AddKey("restaurant_reviews", "restaurant_id", "restaurants"),
    AddKey("restaurant_reviews", "author_id", "users")>>
CampusFoodDown == <<
    DropTable("restaurant_reviews"),
    DropKey("restaurants", "nearest_location_id"),
    DropIndex("restaurants", {"nearest_location_id"}),
    DropColumn("restaurants", "nearest_location_id"),
    DropKey("restaurants", "owner_id"),
    DropIndex("restaurants", {"owner_id"}),
    DropColumn("restaurants", "owner_id"),
    DropColumn("restaurants", "contact_consent"),
    DropColumn("restaurants", "email"),
    DropColumn("restaurants", "whatsapp"),
    DropColumn("restaurants", "phone"),
    UpdateRows("users", "role", {"VENDOR"}, "OPERATOR")>>
    \o RetypeRole({"TOURIST", "OPERATOR", "ADMIN"})

AssistantUp == <<
    CreateTable("chat_sessions", {"id", "user_id", "title", "created_at",
        "updated_at"}, {}, {}),
    CreateIndex("chat_sessions", {"user_id"}),
    AddKey("chat_sessions", "user_id", "users"),
    CreateType("chat_messages", "role", {"USER", "ASSISTANT"}),
    CreateTable("chat_messages", {"id", "session_id", "content", "actions",
        "created_at"}, {"role"}, {}),
    CreateIndex("chat_messages", {"session_id"}),
    AddKey("chat_messages", "session_id", "chat_sessions")>>
\* fault: the enum of the messages is left behind
AssistantTablesDown == <<
    DropTable("chat_messages"),
    DropTable("chat_sessions")>>
AssistantDown == <<
    DropTable("chat_messages"),
    DropType("chat_messages", "role"),
    DropTable("chat_sessions")>>

CampusRolesAndFavoritesUp ==
    RetypeRole({"TOURIST", "OPERATOR", "STUDENT", "STAFF", "VISITOR", "VENDOR", "ADMIN"})
    \o RetypeFavorite({"TOUR", "STAY", "RESTAURANT", "DESTINATION", "LOCATION"})
\* fault: favorite locations are kept
CampusRolesDown ==
    RetypeFavorite({"TOUR", "STAY", "RESTAURANT", "DESTINATION"})
    \o <<UpdateRows("users", "role", {"STUDENT", "STAFF", "VISITOR"}, "TOURIST")>>
    \o RetypeRole({"TOURIST", "OPERATOR", "VENDOR", "ADMIN"})
CampusRolesAndFavoritesDown ==
    <<DeleteRows("favorites", "type", "LOCATION")>>
    \o RetypeFavorite({"TOUR", "STAY", "RESTAURANT", "DESTINATION"})
    \o <<UpdateRows("users", "role", {"STUDENT", "STAFF", "VISITOR"}, "TOURIST")>>
    \o RetypeRole({"TOURIST", "OPERATOR", "VENDOR", "ADMIN"})

Ups == <<
    UsersUp, RefreshTokensUp, DestinationsUp, ToursUp, BookingsUp, PaymentsUp,
    ReviewsUp, PasswordResetTokensUp, UserAvatarUp, ItinerariesUp, EmergencyUp,
    ReservationsUp, RestaurantsUp, PaymentSourceUp, StaysUp, FlightsUp, RidesUp,
    FavoritesAndNotificationsUp, LocationsUp, CampusFoodUp, AssistantUp,
    CampusRolesAndFavoritesUp>>
Downs == <<
    UsersDown, RefreshTokensDown, DestinationsDown, ToursDown, BookingsDown,
    PaymentsDown, ReviewsDown, PasswordResetTokensDown, UserAvatarDown,
    ItinerariesDown, EmergencyDown, ReservationsDown, RestaurantsDown,
    PaymentSourceDown, StaysDown, FlightsDown, RidesDown,
    FavoritesAndNotificationsDown, LocationsDown, CampusFoodDown, AssistantDown,
    CampusRolesAndFavoritesDown>>
=============================================================================

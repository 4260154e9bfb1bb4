------------------------------ MODULE SeedData ------------------------------
(***************************************************************************)
(* The rows of src/database/seeds/data: of each what finds it again, what  *)
(* it refers to and what it stores under an enum. Names, texts, places,    *)
(* prices, images, menus, opening hours and plans are left out.            *)
(***************************************************************************)
EXTENDS SequencesExt

OP1 == "operator1@voyago.test"
OP2 == "operator2@voyago.test"

\* Departures are in days from now: one past, two upcoming. The rating is
\* left to the reviews where the count is 0.
Tour(slug, operator, departs, count) ==
    [slug |-> slug, operator |-> operator, departs |-> departs, count |-> count]
At(destination, there) ==
    [k \in DOMAIN there |-> [tour |-> there[k], destination |-> destination]]

Stay(slug, category, rooms) == [slug |-> slug, category |-> category, rooms |-> rooms]

Reservation(reference, type, status, lookup) ==
    [reference |-> reference, type |-> type, status |-> status, lookup |-> lookup]

seedUsers == <<
    [email |-> "admin@voyago.test", role |-> "ADMIN", company |-> FALSE],
    [email |-> "operator1@voyago.test", role |-> "OPERATOR", company |-> TRUE],
    [email |-> "operator2@voyago.test", role |-> "OPERATOR", company |-> TRUE],
    [email |-> "vendor1@voyago.test", role |-> "VENDOR", company |-> FALSE],
    [email |-> "kofi@voyago.test", role |-> "TOURIST", company |-> FALSE],
    [email |-> "student@ug.edu.gh", role |-> "STUDENT", company |-> FALSE]>>

seedReviewers == <<
    "reviewer01@voyago.test", "reviewer02@voyago.test", "reviewer03@voyago.test",
    "reviewer04@voyago.test", "reviewer05@voyago.test", "reviewer06@voyago.test",
    "reviewer07@voyago.test", "reviewer08@voyago.test", "reviewer09@voyago.test",
    "reviewer10@voyago.test", "reviewer11@voyago.test", "reviewer12@voyago.test",
    "reviewer13@voyago.test", "reviewer14@voyago.test", "reviewer15@voyago.test",
    "reviewer16@voyago.test", "reviewer17@voyago.test", "reviewer18@voyago.test",
    "reviewer19@voyago.test", "reviewer20@voyago.test", "reviewer21@voyago.test",
    "reviewer22@voyago.test", "reviewer23@voyago.test", "reviewer24@voyago.test",
    "reviewer25@voyago.test">>

seedDestinations == <<
    "Cape Coast", "Accra", "Kumasi", "Mole National Park", "Elmina", "Ho", "Busua",
    "Wli Falls", "Ada Foah", "Tamale", "Axim", "Nzulezo">>

CapeCoastTours == At("Cape Coast", <<
    Tour("kakum-canopy-walk", OP1, <<-42, 30, 58>>, 0),
    Tour("cape-coast-castle-tour", OP1, <<-21, 14, 40>>, 0),
    Tour("assin-manso-slave-river", OP2, <<-35, 18, 46>>, 22)>>)
AccraTours == At("Accra", <<
    Tour("accra-city-heritage-tour", OP1, <<-28, 12, 33>>, 0),
    Tour("jamestown-street-food-walk", OP2, <<-14, 9, 27>>, 37),
    Tour("accra-art-and-markets", OP2, <<-19, 16, 44>>, 14)>>)
KumasiTours == At("Kumasi", <<
    Tour("manhyia-palace-tour", OP2, <<-31, 15, 41>>, 0),
    Tour("kejetia-market-walk", OP2, <<-11, 20, 48>>, 29),
    Tour("bonwire-kente-workshop", OP2, <<-24, 22, 52>>, 18)>>)
MoleNationalParkTours == At("Mole National Park", <<
    Tour("mole-safari-tour", OP2, <<-38, 45, 72>>, 0),
    Tour("mole-walking-safari", OP1, <<-16, 37, 65>>, 26)>>)
ElminaTours == At("Elmina", <<
    Tour("elmina-castle-tour", OP1, <<-26, 11, 36>>, 0),
    Tour("elmina-fishing-harbour-tour", OP1, <<-9, 13, 31>>, 11),
    Tour("elmina-posuban-shrines", OP2, <<-33, 25, 54>>, 8)>>)
HoTours == At("Ho", <<
    Tour("mount-adaklu-hike", OP1, <<-22, 19, 47>>, 16),
    Tour("tafi-atome-monkey-sanctuary", OP1, <<-13, 24, 51>>, 31)>>)
BusuaTours == At("Busua", <<
    Tour("busua-surf-lesson", OP1, <<-17, 8, 29>>, 24),
    Tour("cape-three-points-hike", OP2, <<-29, 21, 49>>, 13),
    Tour("busua-village-cook-along", OP2, <<-8, 17, 38>>, 19)>>)
WliFallsTours == At("Wli Falls", <<
    Tour("wli-waterfalls-hike", OP1, <<-25, 10, 34>>, 0),
    Tour("wli-upper-falls-trek", OP1, <<-20, 26, 55>>, 12)>>)
AdaFoahTours == At("Ada Foah", <<
    Tour("ada-estuary-boat-cruise", OP2, <<-12, 7, 28>>, 34),
    Tour("ada-kite-surfing-intro", OP2, <<-15, 23, 50>>, 9),
    Tour("songor-lagoon-salt-tour", OP1, <<-27, 29, 57>>, 7)>>)
TamaleTours == At("Tamale", <<
    Tour("tamale-cultural-tour", OP2, <<-23, 27, 56>>, 15),
    Tour("larabanga-mosque-visit", OP2, <<-18, 32, 61>>, 21)>>)
AximTours == At("Axim", <<
    Tour("axim-fort-san-antonio", OP1, <<-30, 20, 45>>, 10),
    Tour("axim-beach-and-lagoon-day", OP1, <<-10, 14, 39>>, 17)>>)
NzulezoTours == At("Nzulezo", <<
    Tour("nzulezo-stilt-village-tour", OP2, <<-34, 18, 43>>, 0),
    Tour("amansuri-wetland-birding", OP2, <<-7, 31, 60>>, 6)>>)
seedTours ==
    CapeCoastTours \o AccraTours \o KumasiTours \o MoleNationalParkTours \o ElminaTours \o
    HoTours \o BusuaTours \o WliFallsTours \o AdaFoahTours \o TamaleTours \o AximTours \o
    NzulezoTours

\* A review is by one of the seedReviewers.
Reviewed(slug, reviewers, stars) ==
    [k \in DOMAIN reviewers |->
        [tourSlug |-> slug, reviewer |-> seedReviewers[reviewers[k]], rating |-> stars[k]]]

KakumCanopyWalkReviews == Reviewed("kakum-canopy-walk",
    <<1, 2, 3, 4, 5, 6>>, <<5, 4, 5, 4, 5, 3>>)
CapeCoastCastleReviews == Reviewed("cape-coast-castle-tour",
    <<7, 8, 9, 10, 11, 12>>, <<5, 5, 4, 5, 4, 5>>)
AccraCityHeritageReviews == Reviewed("accra-city-heritage-tour",
    <<13, 14, 15, 16, 17, 18>>, <<4, 5, 4, 3, 5, 4>>)
ManhyiaPalaceReviews == Reviewed("manhyia-palace-tour",
    <<19, 20, 21, 22, 23, 24>>, <<5, 4, 5, 4, 5, 4>>)
MoleSafariReviews == Reviewed("mole-safari-tour",
    <<25, 1, 2, 3, 4, 5>>, <<5, 5, 4, 5, 4, 5>>)
ElminaCastleReviews == Reviewed("elmina-castle-tour",
    <<6, 7, 8, 9, 10, 11>>, <<5, 4, 5, 4, 5, 4>>)
WliFallsReviews == Reviewed("wli-waterfalls-hike",
    <<12, 13, 14, 15, 16, 17>>, <<5, 5, 4, 5, 4, 5>>)
NzulezoReviews == Reviewed("nzulezo-stilt-village-tour",
    <<18, 19, 20, 21, 22, 23>>, <<5, 4, 5, 4, 5, 4>>)
seedReviews ==
    KakumCanopyWalkReviews \o CapeCoastCastleReviews \o AccraCityHeritageReviews \o
    ManhyiaPalaceReviews \o MoleSafariReviews \o ElminaCastleReviews \o WliFallsReviews \o
    NzulezoReviews

seedFacilities == <<
    <<"Korle Bu Teaching Hospital", "HOSPITAL">>,
    <<"37 Military Hospital", "HOSPITAL">>,
    <<"Greater Accra Regional Hospital (Ridge)", "HOSPITAL">>,
    <<"Cape Coast Teaching Hospital", "HOSPITAL">>,
    <<"Komfo Anokye Teaching Hospital", "HOSPITAL">>,
    <<"Ghana Police Service HQ", "POLICE">>,
    <<"Ghana National Fire Service HQ", "FIRE">>,
    <<"U.S. Embassy Accra", "EMBASSY">>,
    <<"Tamale Teaching Hospital", "HOSPITAL">>,
    <<"Ho Teaching Hospital", "HOSPITAL">>,
    <<"Effia Nkwanta Regional Hospital", "HOSPITAL">>,
    <<"Nyaho Medical Centre", "CLINIC">>,
    <<"Ernest Chemists Pharmacy, Osu", "PHARMACY">>,
    <<"British High Commission Accra", "EMBASSY">>,
    <<"Ashanti Regional Police Command", "POLICE">>>>

seedEmergencyContacts == <<
    "+233244000101", "+233244000102", "+233244000103">>

CampusLocations1 == <<
    <<"balme-library", "ADMINISTRATION">>, <<"great-hall", "ADMINISTRATION">>,
    <<"commonwealth-hall", "HOSTEL_HALL">>, <<"legon-hall", "HOSTEL_HALL">>,
    <<"akuafo-hall", "HOSTEL_HALL">>, <<"volta-hall", "HOSTEL_HALL">>,
    <<"mensah-sarbah-hall", "HOSTEL_HALL">>,
    <<"jones-quartey-building", "LECTURE_HALL">>,
    <<"nll-lecture-block", "LECTURE_HALL">>,
    <<"department-of-computer-science", "DEPARTMENT">>,
    <<"university-of-ghana-business-school", "DEPARTMENT">>,
    <<"school-of-law", "DEPARTMENT">>>>
CampusLocations2 == <<
    <<"institute-of-african-studies", "DEPARTMENT">>,
    <<"main-administration-building", "ADMINISTRATION">>,
    <<"university-of-ghana-medical-centre", "OTHER">>,
    <<"university-of-ghana-stadium", "PARK_FIELD">>,
    <<"legon-botanical-gardens", "PARK_FIELD">>, <<"night-market", "OTHER">>,
    <<"bush-canteen", "OTHER">>, <<"elizabeth-frances-sey-hall", "HOSTEL_HALL">>>>
seedCampusLocations == CampusLocations1 \o CampusLocations2

Restaurants1 == <<
    "buka-restaurant-osu", "santoku-accra", "zen-garden-accra",
    "coco-lounge-cape-coast", "republic-bar-accra">>
Restaurants2 == <<
    "asanka-local-accra", "azmera-accra", "country-kitchen-accra",
    "urban-grill-accra", "la-chaumiere-accra">>
Restaurants3 == <<
    "mamma-mia-accra", "honeysuckle-accra", "skybar-25-accra",
    "polo-beach-club-accra", "vic-baboos-kumasi">>
Restaurants4 == <<
    "chopstix-kumasi", "katawodieso-kumasi", "baobab-house-cape-coast",
    "oasis-beach-cape-coast", "aqua-safari-restaurant-ada">>
seedRestaurants == Restaurants1 \o Restaurants2 \o Restaurants3 \o Restaurants4

CampusRestaurants1 == <<
    [slug |-> "bush-canteen-chop-bar", nearestLocation |-> "bush-canteen"],
    [slug |-> "night-market-waakye", nearestLocation |-> "night-market"],
    [slug |-> "akuafo-hall-cafeteria", nearestLocation |-> "akuafo-hall"],
    [slug |-> "legon-hall-annex-canteen", nearestLocation |-> "legon-hall"]>>
CampusRestaurants2 == <<
    [slug |-> "balme-library-coffee-shop", nearestLocation |-> "balme-library"],
    [slug |-> "commonwealth-hall-grill", nearestLocation |-> "commonwealth-hall"],
    [slug |-> "ugbs-food-court",
     nearestLocation |-> "university-of-ghana-business-school"],
    [slug |-> "sarbah-park-pizza", nearestLocation |-> "mensah-sarbah-hall"]>>
seedCampusRestaurants == CampusRestaurants1 \o CampusRestaurants2

Stays1 == <<
    Stay("labadi-beach-hotel", "HOTEL", 2),
    Stay("kempinski-gold-coast-accra", "HOTEL", 2),
    Stay("coconut-grove-cape-coast", "VILLA", 2),
    Stay("movenpick-ambassador-accra", "HOTEL", 3)>>
Stays2 == <<
    Stay("alisa-hotel-north-ridge", "HOTEL", 2),
    Stay("tang-palace-accra", "HOTEL", 2),
    Stay("villa-monticello-accra", "HOTEL", 2),
    Stay("lancaster-kumasi-city", "HOTEL", 2)>>
Stays3 == <<
    Stay("royal-senchi-akosombo", "VILLA", 2),
    Stay("zaina-lodge-mole", "VILLA", 2),
    Stay("busua-inn", "VILLA", 2),
    Stay("axim-beach-resort", "VILLA", 2)>>
Stays4 == <<
    Stay("aqua-safari-ada", "VILLA", 2),
    Stay("somewhere-nice-hostel-accra", "HOSTEL", 2),
    Stay("signature-apartments-accra", "APARTMENT", 2)>>
seedStays == Stays1 \o Stays2 \o Stays3 \o Stays4

seedFlightRoutes == <<
    "ACC-LOS", "LOS-ACC", "ACC-ABJ", "ACC-KMS", "KMS-ACC", "ACC-TML", "TML-ACC",
    "ACC-LHR", "ACC-ADD", "ACC-NBO">>

Drivers1 == <<
    <<"GR-1201-24", "TAXI">>, <<"GT-4402-23", "TAXI">>,
    <<"GN-8813-24", "CAR_HIRE">>, <<"GW-2290-23", "CAR_HIRE">>,
    <<"GS-1150-24", "SHUTTLE">>, <<"GR-6677-22", "SHUTTLE">>,
    <<"GC-3321-23", "BUS">>, <<"GX-9098-24", "TAXI">>, <<"GE-5512-24", "TAXI">>,
    <<"GB-7741-22", "TAXI">>, <<"GV-3308-25", "CAR_HIRE">>,
    <<"GY-1194-24", "CAR_HIRE">>, <<"GH-2276-23", "SHUTTLE">>>>
Drivers2 == <<
    <<"GL-8802-22", "BUS">>, <<"GM-4417-25", "BUS">>>>
seedDrivers == Drivers1 \o Drivers2

seedReservations == <<
    Reservation("RSV-2026-4101", "STAY", "COMPLETED", "labadi-beach-hotel"),
    Reservation("RSV-2026-4102", "STAY", "CONFIRMED", "aqua-safari-ada"),
    Reservation("RSV-2026-4103", "FLIGHT", "COMPLETED", "ACC-LOS"),
    Reservation("RSV-2026-4104", "FLIGHT", "CONFIRMED", "ACC-KMS"),
    Reservation("RSV-2026-4105", "TABLE", "COMPLETED", "republic-bar-accra"),
    Reservation("RSV-2026-4106", "TABLE", "CANCELLED", "azmera-accra")>>

seedItineraries == <<
    "Three Days on the Cape Coast", "A Weekend in Kumasi">>
=============================================================================

CONSTANTS
    l1 = l1
    c1 = c1
    c2 = c2
    i1 = i1
    i2 = i2
    i3 = i3
    k1 = k1
    k2 = k2
    None = None
    Listings = {l1}
    Calls = {c1, c2}
    Reviews = {i1, i2, i3}
    Of <- MCOf
    KeyOf <- MCKeyOf
    Rating <- MCRating
    Versions = {1, 2}
    SeededAverage = 450
    SeededCount = 1
SPECIFICATION Spec
INVARIANTS ListingsTypeOK RatingsMatchReviews
PROPERTIES StatusMovesForward SavesKeepToThemselves
CHECK_DEADLOCK FALSE
SYMMETRY Symmetry

----------------------------- MODULE MCListings -----------------------------
(***************************************************************************)
(* One listing, a tour or a restaurant, imported with one rating of 4.50   *)
(* or not, and three reviews of it of five stars, two of them with one     *)
(* key: 4.50 becomes 4.75, 4.83 and, at a withdrawal, 4.74 or 4.75. And    *)
(* the slots of every day with one window that begins and ends at a third  *)
(* of an hour.                                                             *)
(***************************************************************************)
EXTENDS Listings, OpeningHours, FiniteSetsExt, TLC

CONSTANTS l1, c1, c2, i1, i2, i3, k1, k2

MCOf == [i \in Reviews |-> l1]
MCKeyOf == (i1 :> k1) @@ (i2 :> k1) @@ (i3 :> k2)
MCRating == [i \in Reviews |-> 5]

Symmetry == Permutations(Calls) \cup Permutations({i1, i2})

\* The stars are the sum of the ratings.
ASSUME StarsAreTheSum ==
    \A S \in SUBSET Reviews : Cardinality(Stars(S)) = MapThenSumSet(LAMBDA i : Rating[i], S)

\* A restaurant offers only slots at which it is open and has an hour left, and
\* offers its opening just when its window is an hour long (availableSlots()).
ASSUME SlotsChecked ==
    \A opens, closes \in {20 * k : k \in 0..71} :
        LET hours == <<[day |-> 1, opens |-> opens, closes |-> closes]>>
            slots == availableSlots(hours, 1)
        IN  /\ \A m \in slots : isOpenAt(hours, 1, m) /\ isOpenAt(hours, 1, m + 59)
            /\ opens \in slots <=> closes - opens >= 60
            /\ availableSlots(hours, 2) = {}
=============================================================================

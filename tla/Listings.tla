------------------------------ MODULE Listings ------------------------------
(***************************************************************************)
(* Tours and restaurants: their listing, its edits and moderation, and the *)
(* rating that reviews are folded into. Nothing locks a listing before it  *)
(* is read: every change loads the row, sets some columns of the object    *)
(* and saves it, and save() reads the row again and updates the columns in *)
(* which the object differs from it, those included that another request   *)
(* has changed since.                                                      *)
(*                                                                         *)
(* A review is inserted and folded in one transaction, and a restaurant's  *)
(* review is deleted and withdrawn in one. The inserted or deleted row is  *)
(* seen by others at the commit, which is also when the update of the      *)
(* listing takes effect; whoever touches the same review waits for it. Two *)
(* updates of one listing follow each other; each sets the columns that it *)
(* found to differ before it waited.                                       *)
(*                                                                         *)
(* A rating is averaged in. A tour keeps the quotient; a restaurant rounds *)
(* it to hundredths of a star, and what it has rounded goes into the next  *)
(* average.                                                                *)
(***************************************************************************)
EXTENDS Integers, FiniteSets

CONSTANTS
    Listings,       \* rows of tours and of restaurants
    Calls,          \* requests being served
    Reviews,        \* rows of reviews and of restaurant_reviews
    Of,             \* review -> its listing
    KeyOf,          \* review -> its booking, or its author
    Rating,         \* review -> its stars
    Versions,       \* what title, price, menu ... can be
    SeededAverage,  \* the rating an imported listing comes with, in hundredths of a star,
    SeededCount,    \* and the number of ratings that are in it
    None

ASSUME ListingsAssumption ==
    /\ Of \in [Reviews -> Listings]
    /\ Rating \in [Reviews -> 1..5]
    /\ SeededAverage \in 100..500
    /\ SeededCount \in Nat \ {0}
    /\ Versions # {}
    /\ None \notin Reviews

VARIABLES
    tours,          \* the listings that are tours
    seeded,         \* the listings that come with a rating: of a restaurant, no review
                    \* is behind it, and nobody removes what is behind that of a tour
    listing,        \* listing -> its row, or no row
    reviews,        \* reviews in the database
    ever,           \* reviews that were in the database
    call,           \* call -> its step and what it holds
    disturbed       \* history: listings saved from a stale object, or from which a
                    \* rating was withdrawn that no review was behind

vars == <<tours, seeded, listing, reviews, ever, call, disturbed>>

Statuses == {"DRAFT", "PENDING_REVIEW", "APPROVED", "SUSPENDED"}
Columns == {"status", "details", "menu", "average", "count"}

\* An average is a fraction, in hundredths of a star. That of a tour is exact and
\* over the count; it is off once it was computed from an average and a count that
\* did not belong together. That of a restaurant is a whole number, over one.
Averages == [sum : Int, over : Int]
Rounded(hundredths) == [sum |-> hundredths, over |-> 1]
NoStars == Rounded(0)
Off == [sum |-> 0, over |-> -1]
NewRow(status) ==
    [status |-> status, details |-> CHOOSE v \in Versions : TRUE,
     menu |-> CHOOSE v \in Versions : TRUE, average |-> NoStars, count |-> 0]
SeededRow(l) ==
    [NewRow("APPROVED") EXCEPT
        !.average = IF l \in tours
                    THEN [sum |-> SeededAverage * SeededCount, over |-> SeededCount]
                    ELSE Rounded(SeededAverage),
        !.count = SeededCount]

NoRow == NewRow("NONE")
Exists(l) == listing[l] # NoRow
Idle == [step |-> "idle"]

Init ==
    /\ tours \in SUBSET Listings
    /\ seeded \in SUBSET Listings
    /\ listing = [l \in Listings |-> IF l \in seeded THEN SeededRow(l) ELSE NoRow]
    /\ reviews = {} /\ ever = {}
    /\ call = [c \in Calls |-> Idle]
    /\ disturbed = {}

Become(c, next) == call' = [call EXCEPT ![c] = next]
At(c, step) == call[c].step = step

-----------------------------------------------------------------------------
(* Owners and moderators.                                                  *)

\* A tour starts as a draft, a restaurant is listed at once.
Create(l) ==
    /\ ~Exists(l)
    /\ listing' = [listing EXCEPT ![l] = NewRow(IF l \in tours THEN "DRAFT" ELSE "APPROVED")]
    /\ UNCHANGED <<tours, seeded, reviews, ever, call, disturbed>>

Saving(l, object, i, does) ==
    [step |-> "loaded", of |-> l, object |-> object,
     stale |-> FALSE, review |-> i, does |-> does]

Edit(c, l, object) ==
    /\ At(c, "idle")
    /\ Exists(l)
    /\ Become(c, Saving(l, object, None, "edit"))
    /\ UNCHANGED <<tours, seeded, listing, reviews, ever, disturbed>>

\* fault: an edit takes a tour back to its draft
UpdateDraft(c, l) ==
    \E v \in Versions : Edit(c, l, [listing[l] EXCEPT !.details = v, !.status = "DRAFT"])

\* A tour is edited in every status.
Update(c, l) ==
    \E v \in Versions : Edit(c, l, [listing[l] EXCEPT !.details = v])

ReplaceMenu(c, l) ==
    /\ l \notin tours
    /\ \E v \in Versions : Edit(c, l, [listing[l] EXCEPT !.menu = v])

Move(c, l, from, to) ==
    /\ l \in tours
    /\ Exists(l)
    /\ listing[l].status \in from
    /\ Edit(c, l, [listing[l] EXCEPT !.status = to])

\* fault: a suspended tour can be submitted anew
Resubmit(c, l) == Move(c, l, {"DRAFT", "SUSPENDED"}, "PENDING_REVIEW")

Submit(c, l) == Move(c, l, {"DRAFT"}, "PENDING_REVIEW")
Approve(c, l) == Move(c, l, {"PENDING_REVIEW"}, "APPROVED")
Suspend(c, l) == Move(c, l, Statuses, "SUSPENDED")

-----------------------------------------------------------------------------
(* Reviews.                                                                *)

Taken(i) == \E j \in reviews : Of[j] = Of[i] /\ KeyOf[j] = KeyOf[i]

\* Whether the booking, or the author, has a review is asked before the
\* transaction starts.
CreateReview(c, i) ==
    /\ At(c, "idle")
    /\ i \notin ever
    /\ Exists(Of[i])
    /\ ~Taken(i)
    /\ Become(c, [step |-> "checked", review |-> i])
    /\ UNCHANGED <<tours, seeded, listing, reviews, ever, disturbed>>

RemoveReview(c, i) ==
    /\ At(c, "idle")
    /\ Of[i] \notin tours
    /\ i \in reviews
    /\ Become(c, [step |-> "found", review |-> i])
    /\ UNCHANGED <<tours, seeded, listing, reviews, ever, disturbed>>

\* Another transaction has inserted or deleted a review of the same key and has
\* not committed.
Busy(i) ==
    \E d \in Calls :
        /\ call[d].step \in {"inserted", "deleted", "loaded", "read"}
        /\ call[d].review # None
        /\ Of[call[d].review] = Of[i] /\ KeyOf[call[d].review] = KeyOf[i]

\* fault: no unique index
InsertTwice(c) ==
    LET i == call[c].review IN
    /\ At(c, "checked")
    /\ ~Busy(i)
    /\ Become(c, IF i \in ever THEN Idle ELSE [step |-> "inserted", review |-> i])
    /\ UNCHANGED <<tours, seeded, listing, reviews, ever, disturbed>>

\* The unique index refuses the slower of two.
InsertReview(c) ==
    LET i == call[c].review IN
    /\ At(c, "checked")
    /\ ~Busy(i)
    /\ Become(c, IF Taken(i) \/ i \in ever THEN Idle
                 ELSE [step |-> "inserted", review |-> i])
    /\ UNCHANGED <<tours, seeded, listing, reviews, ever, disturbed>>

\* remove() deletes what is left to delete, and complains of nothing.
DeleteReview(c) ==
    LET i == call[c].review IN
    /\ At(c, "found")
    /\ ~Busy(i)
    /\ Become(c, [step |-> "deleted", review |-> i])
    /\ UNCHANGED <<tours, seeded, listing, reviews, ever, disturbed>>

\* fault: one decimal is kept
Tenths(x, n) == {10 * (x \div (10 * n))}

\* The whole numbers nearest to x / n. At a tie there are two: the double that
\* stands for the quotient may lie on either side of it.
Nearest(x, n) == {q \in {x \div n, x \div n + 1} : 2 * (q * n - x) \in -n..n}

\* The exact average after stars were added to a row that counts n ratings then.
Mean(row, stars, n) ==
    IF row.count = 0 THEN [sum |-> 100 * stars, over |-> n]
    ELSE IF row.average.over # row.count THEN Off
    ELSE [sum |-> row.average.sum + 100 * stars, over |-> n]

\* The averages that may be stored.
Average(l, row, stars, n) ==
    IF n = 0 THEN {NoStars}
    ELSE IF l \in tours THEN {Mean(row, stars, n)}
    ELSE {Rounded(q) : q \in Nearest(row.average.sum * row.count + 100 * stars, n)}

\* The rows that may be saved with a rating, and without it.
Folded(l, row, r) ==
    LET n == row.count + 1
    IN  {[row EXCEPT !.average = a, !.count = n] : a \in Average(l, row, r, n)}

Withdrawn(l, row, r) ==
    LET n == IF row.count = 0 THEN 0 ELSE row.count - 1
    IN  {[row EXCEPT !.average = a, !.count = n] : a \in Average(l, row, -r, n)}

ApplyRating(c) ==
    LET i == call[c].review IN
    /\ At(c, "inserted")
    /\ \E object \in Folded(Of[i], listing[Of[i]], Rating[i]) :
          Become(c, Saving(Of[i], object, i, "fold"))
    /\ UNCHANGED <<tours, seeded, listing, reviews, ever, disturbed>>

WithdrawRating(c) ==
    LET i == call[c].review IN
    /\ At(c, "deleted")
    /\ \E object \in Withdrawn(Of[i], listing[Of[i]], Rating[i]) :
          Become(c, Saving(Of[i], object, i, "withdraw"))
    /\ UNCHANGED <<tours, seeded, listing, reviews, ever, disturbed>>

-----------------------------------------------------------------------------
(* Saving.                                                                 *)

Differing(object, row) == {k \in Columns : object[k] # row[k]}

\* The call goes on with the columns it will set, and their values.
Setting(c, columns) ==
    [step |-> "read", of |-> call[c].of, set |-> [k \in columns |-> call[c].object[k]],
     stale |-> call[c].stale, review |-> call[c].review, does |-> call[c].does]

ReadAgain(c) ==
    /\ At(c, "loaded")
    /\ Become(c, Setting(c, Differing(call[c].object, listing[call[c].of])))
    /\ UNCHANGED <<tours, seeded, listing, reviews, ever, disturbed>>

\* Whose object, or whose comparison, the change of these columns has outdated.
Outdated(l, columns, d) ==
    \/ At(d, "loaded") /\ call[d].of = l /\ columns # {}
    \/ At(d, "read") /\ call[d].of = l /\ columns \cap DOMAIN call[d].set # {}

Commit(c) ==
    LET l == call[c].of
        i == call[c].review
        does == call[c].does
        set == call[c].set
        row == [k \in Columns |-> IF k \in DOMAIN set THEN set[k] ELSE listing[l][k]]
    IN
    /\ At(c, "read")
    /\ listing' = [listing EXCEPT ![l] = row]
    /\ reviews' = CASE does = "fold" -> reviews \cup {i}
                    [] does = "withdraw" -> reviews \ {i}
                    [] does = "edit" -> reviews
    /\ ever' = IF does = "fold" THEN ever \cup {i} ELSE ever
    /\ disturbed' = IF call[c].stale \/ (does = "withdraw" /\ i \notin reviews)
                    THEN disturbed \cup {l} ELSE disturbed
    /\ call' = [d \in Calls |-> IF d = c THEN Idle
                                ELSE IF Outdated(l, DOMAIN set, d)
                                THEN [call[d] EXCEPT !.stale = TRUE] ELSE call[d]]
    /\ UNCHANGED <<tours, seeded>>

\* The call ends, and its transaction with it.
End(c) ==
    /\ ~At(c, "idle")
    /\ Become(c, Idle)
    /\ UNCHANGED <<tours, seeded, listing, reviews, ever, disturbed>>

-----------------------------------------------------------------------------
Serve(c) ==
    \/ \E l \in Listings : \/ Update(c, l) \/ ReplaceMenu(c, l)
                           \/ Submit(c, l) \/ Approve(c, l) \/ Suspend(c, l)
    \/ \E i \in Reviews : CreateReview(c, i) \/ RemoveReview(c, i)
    \/ InsertReview(c) \/ DeleteReview(c) \/ ApplyRating(c) \/ WithdrawRating(c)
    \/ ReadAgain(c) \/ Commit(c) \/ End(c)

Next == (\E l \in Listings : Create(l)) \/ (\E c \in Calls : Serve(c))

Spec == Init /\ [][Next]_vars

-----------------------------------------------------------------------------
(* Type invariant: a review belongs to a listing that exists, and no two   *)
(* of a listing have one key.                                              *)
Rows == [status : Statuses, details : Versions, menu : Versions,
         average : Averages, count : Nat]

Asked == [step : {"checked", "found", "inserted", "deleted"}, review : Reviews]
Loaded == [step : {"loaded"}, of : Listings, object : Rows, stale : BOOLEAN,
           review : Reviews \cup {None}, does : {"edit", "fold", "withdraw"}]

\* A call that is about to set some columns.
Values(k) == CASE k = "status" -> Statuses
               [] k \in {"details", "menu"} -> Versions
               [] k = "average" -> Averages
               [] k = "count" -> Nat

Sets(s) ==
    /\ s.step = "read"
    /\ s \in [step : {"read"}, of : Listings, set : {s.set}, stale : BOOLEAN,
              review : Reviews \cup {None}, does : {"edit", "fold", "withdraw"}]
    /\ \A k \in DOMAIN s.set : k \in Columns /\ s.set[k] \in Values(k)

ListingsTypeOK ==
    /\ tours \subseteq Listings
    /\ seeded \subseteq Listings
    /\ listing \in [Listings -> Rows \cup {NoRow}]
    /\ reviews \subseteq ever /\ ever \subseteq Reviews
    /\ \A i \in ever : Exists(Of[i])
    /\ \A i, j \in reviews : Of[i] = Of[j] /\ KeyOf[i] = KeyOf[j] => i = j
    /\ DOMAIN call = Calls
    /\ \A c \in Calls : call[c] \in {Idle} \cup Asked \cup Loaded \/ Sets(call[c])
    /\ disturbed \subseteq Listings

\* A rating of r is r stars: the sum of the ratings is the number of the stars.
Stars(S) == {star \in S \X (1..5) : star[2] <= Rating[star[1]]}
Mine(l) == {i \in reviews : Of[i] = l}
Imported(l) == IF l \in seeded THEN SeededCount ELSE 0
Total(l) == 100 * Cardinality(Stars(Mine(l))) + SeededAverage * Imported(l)

\* How far rounding takes average times count from the total, in half hundredths:
\* a fold and a withdrawal are each off by at most half a hundredth for each of
\* the ratings counted then.
Folds(l) == {i \in ever : Of[i] = l}
Drift(l) == LET folds == Cardinality(Folds(l))
                withdrawals == Cardinality(Folds(l) \ reviews)
            IN  (folds + withdrawals) * (folds + Imported(l))

\* A restaurant's average times its count stays that close to the total.
RatingMatches(l) ==
    /\ listing[l].count = Cardinality(Mine(l)) + Imported(l)
    /\ listing[l].count = 0 => listing[l].average = NoStars
    /\ IF l \in tours
       THEN listing[l].count # 0 =>
               listing[l].average = [sum |-> Total(l), over |-> listing[l].count]
       ELSE 2 * (listing[l].average.sum * listing[l].count - Total(l)) \in -Drift(l)..Drift(l)

\* The count of a listing is that of the reviews it has and of the ratings it came
\* with, and so is the average of a tour; rounding takes that of a restaurant no
\* further than half a hundredth of a star for each review, as long as none was
\* removed. Unless two changes overlapped or a review was removed a second time
\* (applyRating(), withdrawRating(), round2()).
RatingsMatchReviews == \A l \in Listings \ disturbed : Exists(l) => RatingMatches(l)

Edges == {<<"DRAFT", "PENDING_REVIEW">>, <<"PENDING_REVIEW", "APPROVED">>}
         \cup {<<s, "SUSPENDED">> : s \in Statuses} \cup {<<s, s>> : s \in Statuses}

\* The columns of one purpose.
Purpose(does, columns) ==
    IF does = "edit" THEN \E k \in {"details", "menu", "status"} : columns \subseteq {k}
    ELSE columns \subseteq {"average", "count"}

SameKey(i, j) == Of[i] = Of[j] /\ KeyOf[i] = KeyOf[j]
Holding(s) ==
    \/ s.step \in {"inserted", "deleted"}
    \/ s.step \in {"loaded", "read"} /\ s.review # None
Inserting(s) ==
    s.step = "inserted" \/ (s.step \in {"loaded", "read"} /\ s.does = "fold")

\* What a call is about to change, when nobody has outdated it.
Fitting(s) ==
    /\ s.step \in {"checked", "found", "inserted", "deleted"} => Exists(Of[s.review])
    /\ s.step \in {"loaded", "read"} =>
          /\ Exists(s.of)
          /\ IF s.does = "edit" THEN s.review = None
             ELSE s.review # None /\ Of[s.review] = s.of
    /\ s.step = "loaded" /\ ~s.stale =>
          /\ Purpose(s.does, Differing(s.object, listing[s.of]))
          /\ <<listing[s.of].status, s.object.status>> \in Edges
    /\ s.step = "read" /\ ~s.stale =>
          /\ Purpose(s.does, DOMAIN s.set)
          /\ "status" \in DOMAIN s.set => <<listing[s.of].status, s.set["status"]>> \in Edges
    /\ Inserting(s) => s.review \notin ever /\ \A j \in reviews : ~SameKey(s.review, j)

\* Why: of the reviews with one key, one call at a time inserts or deletes any.
CallsFollow ==
    /\ \A c \in Calls : \A s \in {call[c]} : Fitting(s)
    /\ \A c, d \in Calls :
          /\ Holding(call[c]) /\ Holding(call[d])
          /\ SameKey(call[c].review, call[d].review)
          => c = d

\* Why: a rating that nobody has outdated is about to be folded into, or withdrawn
\* from, the row as it is, in every column that this makes differ.
Rated(s, row) ==
    IF s.does = "fold" THEN Folded(s.of, row, Rating[s.review])
    ELSE Withdrawn(s.of, row, Rating[s.review])

Tallying(s) ==
    /\ s.step \in {"loaded", "read"} /\ ~s.stale
    /\ s.does \in {"fold", "withdraw"} /\ s.of \notin disturbed
    /\ s.does = "withdraw" => s.review \in reviews
    => \E rated \in Rated(s, listing[s.of]) :
          /\ s.step = "loaded" => s.object = rated
          /\ s.step = "read" => /\ DOMAIN s.set = Differing(rated, listing[s.of])
                                /\ \A k \in DOMAIN s.set : s.set[k] = rated[k]

RatingsFollow ==
    /\ IsFiniteSet(ever)
    /\ \A l \in seeded : Exists(l)
    /\ \A c \in Calls : \A s \in {call[c]} : Tallying(s)

\* The step saves the listing, for a purpose, from an object that is or is not
\* up to date.
Saves(l, does, stale) ==
    \E c \in Calls : /\ At(c, "read") /\ At(c, "idle")'
                     /\ call[c].of = l /\ call[c].does \in does /\ call[c].stale = stale

SavedUpToDate(l) == ~Saves(l, {"edit", "fold", "withdraw"}, TRUE)

\* A tour goes from draft to review to approval, and a suspended one stays
\* suspended: no save brings it back but one that loaded it before
\* (submit(), approve(), suspend(), update()).
StatusMovesForward ==
    [][\A l \in Listings : Exists(l) /\ SavedUpToDate(l)
          => <<listing[l].status, listing[l].status'>> \in Edges]_vars

\* A step changes the columns of one purpose, and a rating only with the set of
\* reviews, unless it saves an object that others have outdated: an owner's edit
\* takes no rating back, and a review no edit (save()).
SavesKeepToThemselves ==
    [][\A l \in Listings : Exists(l) /\ SavedUpToDate(l)
          => LET moved == Differing(listing'[l], listing[l])
             IN  \/ moved \subseteq {"details"} \/ moved \subseteq {"menu"}
                 \/ moved \subseteq {"status"}
                 \/ /\ moved \subseteq {"average", "count"}
                    /\ Saves(l, {"fold", "withdraw"}, FALSE)]_vars
=============================================================================

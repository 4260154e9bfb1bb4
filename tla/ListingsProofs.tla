---------------------------- MODULE ListingsProofs ----------------------------
(***************************************************************************)
(* Theorems about Listings, for any listings, calls and reviews, and about *)
(* OpeningHours, for any week of opening hours.                            *)
(***************************************************************************)
EXTENDS Listings, OpeningHours, FiniteSetTheorems, SequenceTheorems, TLAPS

ListingsInv == ListingsTypeOK /\ CallsFollow

Steps(r) == r \in {Idle} \cup Asked \cup Loaded \/ Sets(r)

-----------------------------------------------------------------------------
(* Rows.                                                                   *)

\* A row, column by column.
LEMMA RowColumns ==
    ASSUME NEW row
    PROVE  row \in Rows <=> /\ row = [k \in Columns |-> row[k]]
                            /\ \A k \in Columns : row[k] \in Values(k)
<1>1. ASSUME row \in Rows
      PROVE  row = [k \in Columns |-> row[k]] /\ \A k \in Columns : row[k] \in Values(k)
  BY <1>1 DEF Rows, Columns, Values
<1>2. ASSUME row = [k \in Columns |-> row[k]], \A k \in Columns : row[k] \in Values(k)
      PROVE  row \in Rows
  <2>1. row = [status |-> row["status"], details |-> row["details"], menu |-> row["menu"],
               average |-> row["average"], count |-> row["count"]]
    BY <1>2 DEF Columns
  <2>2. /\ row["status"] \in Statuses /\ row["details"] \in Versions
        /\ row["menu"] \in Versions /\ row["average"] \in Averages /\ row["count"] \in Nat
    BY <1>2 DEF Columns, Values
  <2> QED
    BY <2>1, <2>2 DEF Rows
<1> QED
  BY <1>1, <1>2

\* What is inserted is a row, and no row is not.
LEMMA NewRows ==
    /\ \A s \in Statuses : NewRow(s) \in Rows
    /\ \A l : SeededRow(l) \in Rows
    /\ NoRow \notin Rows
<1>1. (CHOOSE v \in Versions : TRUE) \in Versions
  BY ListingsAssumption
<1>2. NoStars \in Averages
  BY DEF NoStars, Rounded, Averages
<1>3. \A s \in Statuses : NewRow(s) \in Rows
  BY <1>1, <1>2 DEF NewRow, Rows
<1>4. ASSUME NEW l PROVE SeededRow(l) \in Rows
  <2>1. NewRow("APPROVED") \in Rows
    BY <1>3 DEF Statuses
  <2>2. SeededAverage \in Int /\ SeededCount \in Nat
    BY ListingsAssumption
  <2>3. SeededAverage * SeededCount \in Int
    BY <2>2
  <2>4. /\ [sum |-> SeededAverage * SeededCount, over |-> SeededCount] \in Averages
        /\ Rounded(SeededAverage) \in Averages
    BY <2>2, <2>3 DEF Averages, Rounded
  <2> QED
    BY <2>1, <2>2, <2>4 DEF SeededRow, Rows
<1>5. NoRow \notin Rows
  BY DEF NoRow, NewRow, Rows, Statuses
<1> QED
  BY <1>3, <1>4, <1>5

\* The row with another rating.
WithRating(row, a, n) == [row EXCEPT !.average = a, !.count = n]

\* It is a row, with that rating, and different in nothing else.
LEMMA RatingSet ==
    ASSUME NEW row \in Rows, NEW a, NEW n
    PROVE  /\ WithRating(row, a, n).average = a /\ WithRating(row, a, n).count = n
           /\ a \in Averages /\ n \in Nat => WithRating(row, a, n) \in Rows
           /\ \A k \in Columns \ {"average", "count"} : WithRating(row, a, n)[k] = row[k]
           /\ Differing(WithRating(row, a, n), row) \subseteq {"average", "count"}
  BY DEF WithRating, Rows, Differing, Columns

\* A fold sets the rating to an average over the new count.
LEMMA FoldedRow ==
    ASSUME NEW l, NEW row, NEW r, NEW rated \in Folded(l, row, r), NEW n, n = row.count + 1
    PROVE  \E a \in Average(l, row, r, n) : rated = WithRating(row, a, n)
<1>1. PICK a \in Average(l, row, r, row.count + 1) :
         rated = [row EXCEPT !.average = a, !.count = row.count + 1]
  BY Zenon DEF Folded
<1> QED
  BY <1>1, Zenon DEF WithRating

\* So does a withdrawal.
LEMMA WithdrawnRow ==
    ASSUME NEW l, NEW row, NEW r, NEW rated \in Withdrawn(l, row, r),
           NEW n, n = IF row.count = 0 THEN 0 ELSE row.count - 1
    PROVE  \E a \in Average(l, row, -r, n) : rated = WithRating(row, a, n)
<1> DEFINE m == IF row.count = 0 THEN 0 ELSE row.count - 1
<1>1. PICK a \in Average(l, row, -r, m) : rated = [row EXCEPT !.average = a, !.count = m]
  BY Zenon DEF Withdrawn
<1> QED
  BY <1>1, Zenon DEF WithRating

\* What is stored is an average.
LEMMA AverageTyped ==
    ASSUME NEW l, NEW row \in Rows, NEW stars \in Int, NEW n \in Nat,
           NEW a \in Average(l, row, stars, n)
    PROVE  a \in Averages
<1>1. row.average \in Averages /\ row.count \in Nat
  BY DEF Rows
<1>2. row.average.sum + 100 * stars \in Int /\ 100 * stars \in Int
  BY <1>1 DEF Averages
<1>3. CASE n = 0
  BY <1>3 DEF Average, NoStars, Rounded, Averages
<1>4. CASE n # 0 /\ l \in tours
  BY <1>2, <1>4 DEF Average, Mean, Off, Averages
<1>5. CASE n # 0 /\ l \notin tours
  <2> DEFINE x == row.average.sum * row.count + 100 * stars
  <2>1. PICK q \in Nearest(x, n) : a = Rounded(q)
    BY <1>5 DEF Average
  <2>2. x \in Int
    BY <1>1 DEF Averages
  <2> HIDE DEF x
  <2>3. q \in Int
    BY <1>5, <2>1, <2>2 DEF Nearest
  <2> QED
    BY <2>1, <2>3 DEF Rounded, Averages
<1> QED
  BY <1>3, <1>4, <1>5

\* A row with stars that were added or taken away is a row.
LEMMA RatedTyped ==
    ASSUME NEW l, NEW row \in Rows, NEW r \in 1..5, NEW rated,
           rated \in Folded(l, row, r) \/ rated \in Withdrawn(l, row, r)
    PROVE  rated \in Rows /\ Differing(rated, row) \subseteq {"average", "count"}
<1>1. row.count \in Nat
  BY DEF Rows
<1>2. PICK stars \in Int, n \in Nat :
         \E a \in Average(l, row, stars, n) : rated = WithRating(row, a, n)
  <2>1. CASE rated \in Folded(l, row, r)
    <3>1. PICK n \in Nat : n = row.count + 1
      BY <1>1
    <3>2. r \in Int
      OBVIOUS
    <3> QED
      BY <2>1, <3>1, <3>2, FoldedRow
  <2>2. CASE rated \in Withdrawn(l, row, r)
    <3>1. PICK n \in Nat : n = IF row.count = 0 THEN 0 ELSE row.count - 1
      BY <1>1
    <3>2. -r \in Int
      OBVIOUS
    <3> QED
      BY <2>2, <3>1, <3>2, WithdrawnRow
  <2> QED
    BY <2>1, <2>2
<1>3. PICK a \in Average(l, row, stars, n) : rated = WithRating(row, a, n)
  BY <1>2
<1>4. a \in Averages
  BY AverageTyped
<1> QED
  BY <1>3, <1>4, RatingSet

\* What an edit makes differ.
LEMMA Differ ==
    ASSUME NEW row \in Rows
    PROVE  /\ \A v \in Versions : Differing([row EXCEPT !.details = v], row) \subseteq {"details"}
           /\ \A v \in Versions : Differing([row EXCEPT !.menu = v], row) \subseteq {"menu"}
           /\ \A v : Differing([row EXCEPT !.status = v], row) \subseteq {"status"}
<1>1. \A v : Differing([row EXCEPT !.details = v], row) \subseteq {"details"}
  BY DEF Rows, Differing, Columns
<1>2. \A v : Differing([row EXCEPT !.menu = v], row) \subseteq {"menu"}
  BY DEF Rows, Differing, Columns
<1>3. \A v : Differing([row EXCEPT !.status = v], row) \subseteq {"status"}
  BY DEF Rows, Differing, Columns
<1> QED
  BY <1>1, <1>2, <1>3

-----------------------------------------------------------------------------
\* The invariant holds at the start.
LEMMA InitListings == Init => ListingsInv
<1> SUFFICES ASSUME Init PROVE ListingsInv
  OBVIOUS
<1>1. ListingsTypeOK
  BY NewRows DEF Init, ListingsTypeOK, Idle
<1>2. CallsFollow
  BY DEF Init, CallsFollow, Fitting, Holding, Inserting, Idle
<1> QED
  BY <1>1, <1>2 DEF ListingsInv

\* A call goes on with a state that fits; nothing else changes.
LEMMA Goes ==
    ASSUME ListingsInv, NEW c \in Calls, NEW r, Steps(r), Fitting(r),
           call' = [call EXCEPT ![c] = r],
           UNCHANGED <<tours, seeded, listing, reviews, ever, disturbed>>,
           Holding(r) => \A d \in Calls \ {c} :
                Holding(call[d]) => ~SameKey(r.review, call[d].review)
    PROVE  ListingsInv'
<1>1. \A d \in Calls : call'[d] = IF d = c THEN r ELSE call[d]
  BY DEF ListingsInv, ListingsTypeOK
<1>2. ListingsTypeOK'
  <2>1. \A d \in Calls : Steps(call'[d])
    BY <1>1 DEF Steps, ListingsInv, ListingsTypeOK
  <2>2. DOMAIN call' = Calls
    BY DEF ListingsInv, ListingsTypeOK
  <2> QED
    BY <2>1, <2>2 DEF Steps, ListingsInv, ListingsTypeOK, Exists
<1>3. \A s : Fitting(s) => Fitting(s)'
  BY DEF Fitting, Exists
<1>4. \A d \in Calls : \A s \in {call'[d]} : Fitting(s)'
  BY <1>1, <1>3 DEF ListingsInv, CallsFollow
<1>5. \A d, e \in Calls :
         Holding(call'[d]) /\ Holding(call'[e]) /\ SameKey(call'[d].review, call'[e].review)
         => d = e
  BY <1>1 DEF ListingsInv, CallsFollow, SameKey
<1>6. CallsFollow'
  BY <1>4, <1>5 DEF CallsFollow, Holding, SameKey
<1> QED
  BY <1>2, <1>6 DEF ListingsInv

-----------------------------------------------------------------------------
(* Owners and moderators.                                                  *)

\* The facts of a call that a step of it starts from.
LEMMA CallFacts ==
    ASSUME ListingsInv, NEW c \in Calls
    PROVE  Steps(call[c]) /\ Fitting(call[c])
  BY DEF ListingsInv, ListingsTypeOK, CallsFollow, Steps

\* A listing that exists is a row.
LEMMA ListingTyped ==
    ASSUME ListingsInv, NEW l \in Listings, Exists(l)
    PROVE  listing[l] \in Rows
  BY DEF ListingsInv, ListingsTypeOK, Exists

\* The loads of edits and moderation preserve the invariant.
LEMMA EditSteps ==
    ASSUME ListingsInv, NEW c \in Calls, NEW l \in Listings,
           \/ Update(c, l) \/ ReplaceMenu(c, l)
           \/ Submit(c, l) \/ Approve(c, l) \/ Suspend(c, l)
    PROVE  ListingsInv'
<1>1. ASSUME NEW object \in Rows, Edit(c, l, object),
             Purpose("edit", Differing(object, listing[l])),
             <<listing[l].status, object.status>> \in Edges
      PROVE  ListingsInv'
  <2> DEFINE r == Saving(l, object, None, "edit")
  <2>1. /\ r.step = "loaded" /\ r.of = l /\ r.object = object /\ r.review = None
        /\ r.does = "edit" /\ r.stale = FALSE
    BY DEF Saving
  <2>2. Steps(r)
    BY DEF Steps, Saving, Loaded
  <2>3. call' = [call EXCEPT ![c] = r] /\ Exists(l)
        /\ UNCHANGED <<tours, seeded, listing, reviews, ever, disturbed>>
    BY <1>1 DEF Edit, Become
  <2> HIDE DEF r
  <2>4. Fitting(r)
    BY <1>1, <2>1, <2>3 DEF Fitting, Inserting
  <2>5. ~Holding(r)
    BY <2>1 DEF Holding
  <2> QED
    BY <2>2, <2>3, <2>4, <2>5, Goes
<1>2. ASSUME Exists(l)
      PROVE  /\ listing[l] \in Rows /\ listing[l].status \in Statuses
             /\ <<listing[l].status, listing[l].status>> \in Edges
             /\ <<listing[l].status, "SUSPENDED">> \in Edges
  <2>1. listing[l] \in Rows
    BY <1>2, ListingTyped
  <2>2. listing[l].status \in Statuses
    BY <2>1 DEF Rows
  <2> QED
    BY <2>1, <2>2 DEF Edges
<1>3. CASE Update(c, l)
  <2>1. PICK v \in Versions : Edit(c, l, [listing[l] EXCEPT !.details = v])
    BY <1>3 DEF Update
  <2> DEFINE o == [listing[l] EXCEPT !.details = v]
  <2>2. Exists(l)
    BY <2>1 DEF Edit
  <2>3. o \in Rows /\ o.status = listing[l].status
    BY <1>2, <2>2 DEF Rows
  <2>4. Purpose("edit", Differing(o, listing[l]))
    BY <1>2, <2>2, Differ DEF Purpose
  <2> QED
    BY <1>1, <1>2, <2>1, <2>2, <2>3, <2>4
<1>4. CASE ReplaceMenu(c, l)
  <2>1. PICK v \in Versions : Edit(c, l, [listing[l] EXCEPT !.menu = v])
    BY <1>4 DEF ReplaceMenu
  <2> DEFINE o == [listing[l] EXCEPT !.menu = v]
  <2>2. Exists(l)
    BY <2>1 DEF Edit
  <2>3. o \in Rows /\ o.status = listing[l].status
    BY <1>2, <2>2 DEF Rows
  <2>4. Purpose("edit", Differing(o, listing[l]))
    BY <1>2, <2>2, Differ DEF Purpose
  <2> QED
    BY <1>1, <1>2, <2>1, <2>2, <2>3, <2>4
<1>5. ASSUME NEW from, NEW to \in Statuses, Move(c, l, from, to),
             \A s \in from \cap Statuses : <<s, to>> \in Edges
      PROVE  ListingsInv'
  <2> DEFINE o == [listing[l] EXCEPT !.status = to]
  <2>1. Exists(l) /\ listing[l].status \in from /\ Edit(c, l, o)
    BY <1>5 DEF Move
  <2>2. o \in Rows /\ o.status = to
    BY <1>2, <2>1 DEF Rows
  <2>3. Purpose("edit", Differing(o, listing[l]))
    BY <1>2, <2>1, Differ DEF Purpose
  <2>4. <<listing[l].status, o.status>> \in Edges
    BY <1>2, <1>5, <2>1, <2>2
  <2> QED
    BY <1>1, <2>1, <2>2, <2>3, <2>4
<1>6. CASE Submit(c, l)
  BY <1>5, <1>6 DEF Submit, Edges, Statuses
<1>7. CASE Approve(c, l)
  BY <1>5, <1>7 DEF Approve, Edges, Statuses
<1>8. CASE Suspend(c, l)
  BY <1>5, <1>8 DEF Suspend, Edges, Statuses
<1> QED
  BY <1>3, <1>4, <1>6, <1>7, <1>8

-----------------------------------------------------------------------------
(* Reviews.                                                                *)

\* A call that has a review and no listing yet.
LEMMA AskedCall ==
    ASSUME ListingsInv, NEW c \in Calls, NEW i, i = call[c].review,
           call[c].step \in {"checked", "found", "inserted", "deleted"}
    PROVE  i \in Reviews /\ Exists(Of[i])
<1>1. Steps(call[c]) /\ Fitting(call[c])
  BY CallFacts
<1>2. call[c] \in Asked
  BY <1>1 DEF Steps, Idle, Asked, Loaded, Sets
<1>3. Exists(Of[call[c].review])
  BY <1>1 DEF Fitting
<1> QED
  BY <1>2, <1>3 DEF Asked

\* The steps of reviews, up to their fold, preserve it.
LEMMA ReviewSteps ==
    ASSUME ListingsInv, NEW c \in Calls,
           \/ \E i \in Reviews : CreateReview(c, i) \/ RemoveReview(c, i)
           \/ InsertReview(c) \/ DeleteReview(c)
    PROVE  ListingsInv'
<1>0. reviews \subseteq ever /\ \A i \in ever : Exists(Of[i])
  BY DEF ListingsInv, ListingsTypeOK
<1>1. ASSUME NEW i \in Reviews, CreateReview(c, i) \/ RemoveReview(c, i) PROVE ListingsInv'
  <2>1. PICK r : /\ r \in Asked /\ r.step \in {"checked", "found"} /\ r.review = i
                 /\ call' = [call EXCEPT ![c] = r]
    BY <1>1 DEF CreateReview, RemoveReview, Become, Asked
  <2>2. Exists(Of[i]) /\ UNCHANGED <<tours, seeded, listing, reviews, ever, disturbed>>
    BY <1>0, <1>1 DEF CreateReview, RemoveReview
  <2>3. Fitting(r) /\ ~Holding(r) /\ Steps(r)
    BY <2>1, <2>2 DEF Fitting, Holding, Inserting, Steps
  <2> QED
    BY <2>1, <2>2, <2>3, Goes
<1>2. Steps(Idle) /\ Fitting(Idle) /\ ~Holding(Idle)
  BY DEF Steps, Fitting, Holding, Inserting, Idle
<1>3. ASSUME NEW i, i = call[c].review, ~Busy(i), NEW d \in Calls, Holding(call[d])
      PROVE  ~SameKey(i, call[d].review)
  <2>1. call[d].step \in {"inserted", "deleted"} => call[d].review # None
    BY CallFacts, ListingsAssumption DEF Steps, Idle, Asked, Loaded, Sets
  <2> QED
    BY <1>3, <2>1 DEF Busy, Holding, SameKey
<1>4. CASE InsertReview(c) /\ ~(Taken(call[c].review) \/ call[c].review \in ever)
  <2>1. PICK i : i = call[c].review
    OBVIOUS
  <2> DEFINE r == [step |-> "inserted", review |-> i]
  <2>2. /\ call[c].step = "checked" /\ call' = [call EXCEPT ![c] = r] /\ ~Busy(i)
        /\ UNCHANGED <<tours, seeded, listing, reviews, ever, disturbed>>
    BY <1>4, <2>1 DEF InsertReview, Become, At
  <2>3. i \in Reviews /\ Exists(Of[i])
    BY <2>1, <2>2, AskedCall
  <2>4. i \notin ever /\ \A j \in reviews : ~SameKey(i, j)
    BY <1>4, <2>1 DEF Taken, SameKey
  <2>5. r.step = "inserted" /\ r.review = i /\ Steps(r)
    BY <2>3 DEF Steps, Asked
  <2> HIDE DEF r
  <2>6. Fitting(r)
    BY <2>3, <2>4, <2>5 DEF Fitting
  <2> QED
    BY <1>3, <2>1, <2>2, <2>5, <2>6, Goes
<1>5. CASE InsertReview(c) /\ (Taken(call[c].review) \/ call[c].review \in ever)
  BY <1>2, <1>5, Goes DEF InsertReview, Become
<1>6. CASE DeleteReview(c)
  <2>1. PICK i : i = call[c].review
    OBVIOUS
  <2> DEFINE r == [step |-> "deleted", review |-> i]
  <2>2. /\ call[c].step = "found" /\ call' = [call EXCEPT ![c] = r] /\ ~Busy(i)
        /\ UNCHANGED <<tours, seeded, listing, reviews, ever, disturbed>>
    BY <1>6, <2>1 DEF DeleteReview, Become, At
  <2>3. i \in Reviews /\ Exists(Of[i])
    BY <2>1, <2>2, AskedCall
  <2>4. r.step = "deleted" /\ r.review = i /\ Steps(r)
    BY <2>3 DEF Steps, Asked
  <2> HIDE DEF r
  <2>5. Fitting(r)
    BY <2>3, <2>4 DEF Fitting, Inserting
  <2> QED
    BY <1>3, <2>1, <2>2, <2>4, <2>5, Goes
<1> QED
  BY <1>1, <1>4, <1>5, <1>6

\* The loads of a fold and of a withdrawal preserve it.
LEMMA RatingSteps ==
    ASSUME ListingsInv, NEW c \in Calls, ApplyRating(c) \/ WithdrawRating(c)
    PROVE  ListingsInv'
<1>1. PICK i : i = call[c].review
  OBVIOUS
<1>2. call[c].step \in {"inserted", "deleted"}
  BY DEF ApplyRating, WithdrawRating, At
<1>3. i \in Reviews /\ Exists(Of[i]) /\ Of[i] \in Listings /\ Rating[i] \in 1..5
  BY <1>1, <1>2, AskedCall, ListingsAssumption
<1>4. listing[Of[i]] \in Rows
  BY <1>3, ListingTyped
<1>5. PICK object, does :
        /\ object \in Rows /\ Differing(object, listing[Of[i]]) \subseteq {"average", "count"}
        /\ does \in {"fold", "withdraw"} /\ (does = "fold" => call[c].step = "inserted")
        /\ call' = [call EXCEPT ![c] = Saving(Of[i], object, i, does)]
  <2>1. CASE ApplyRating(c)
    <3>1. PICK o \in Folded(Of[i], listing[Of[i]], Rating[i]) :
             call[c].step = "inserted" /\ call' = [call EXCEPT ![c] = Saving(Of[i], o, i, "fold")]
      BY <1>1, <2>1 DEF ApplyRating, Become, At
    <3>2. o \in Rows /\ Differing(o, listing[Of[i]]) \subseteq {"average", "count"}
      BY <1>3, <1>4, <3>1, RatedTyped
    <3> QED
      BY <3>1, <3>2
  <2>2. CASE WithdrawRating(c)
    <3>1. PICK o \in Withdrawn(Of[i], listing[Of[i]], Rating[i]) :
             call' = [call EXCEPT ![c] = Saving(Of[i], o, i, "withdraw")]
      BY <1>1, <2>2 DEF WithdrawRating, Become, At
    <3>2. o \in Rows /\ Differing(o, listing[Of[i]]) \subseteq {"average", "count"}
      BY <1>3, <1>4, <3>1, RatedTyped
    <3> QED
      BY <3>1, <3>2
  <2> QED
    BY <2>1, <2>2
<1> DEFINE r == Saving(Of[i], object, i, does)
<1>6. /\ r.step = "loaded" /\ r.of = Of[i] /\ r.object = object /\ r.review = i
      /\ r.does = does /\ r.stale = FALSE
  BY DEF Saving
<1>7. Steps(r)
  BY <1>3, <1>5 DEF Steps, Saving, Loaded
<1>8. call' = [call EXCEPT ![c] = r]
      /\ UNCHANGED <<tours, seeded, listing, reviews, ever, disturbed>>
  BY <1>5 DEF ApplyRating, WithdrawRating
<1> HIDE DEF r
<1>9. <<listing[Of[i]].status, object.status>> \in Edges
  <2>1. object.status = listing[Of[i]].status
    BY <1>5 DEF Differing, Columns
  <2>2. listing[Of[i]].status \in Statuses
    BY <1>4 DEF Rows
  <2> QED
    BY <2>1, <2>2 DEF Edges
<1>10. Purpose(does, Differing(object, listing[Of[i]])) /\ does # "edit"
  BY <1>5 DEF Purpose
<1>11. i # None
  BY <1>3, ListingsAssumption
<1>12. does = "fold" => i \notin ever /\ \A j \in reviews : ~SameKey(i, j)
  BY <1>1, <1>5, CallFacts DEF Fitting, Inserting, SameKey
<1>13. Fitting(r)
  BY <1>3, <1>6, <1>9, <1>10, <1>11, <1>12 DEF Fitting, Inserting
<1>14. \A d \in Calls \ {c} : Holding(call[d]) => ~SameKey(i, call[d].review)
  BY <1>1, <1>2 DEF ListingsInv, CallsFollow, Holding, SameKey
<1> QED
  BY <1>6, <1>7, <1>8, <1>13, <1>14, Goes

-----------------------------------------------------------------------------
(* Saving.                                                                 *)

\* What a call that saves a listing refers to.
LEMMA SavingCall ==
    ASSUME ListingsInv, NEW c \in Calls, NEW s, s = call[c], s.step \in {"loaded", "read"}
    PROVE  /\ s.of \in Listings /\ Exists(s.of) /\ listing[s.of] \in Rows
           /\ s.does \in {"edit", "fold", "withdraw"} /\ s.stale \in BOOLEAN
           /\ s.review \in Reviews \cup {None}
           /\ s.step = "loaded" => s \in Loaded
           /\ s.step = "read" => Sets(s)
           /\ Fitting(s)
<1>1. Steps(s) /\ Fitting(s)
  BY CallFacts
<1>2. /\ s.step = "loaded" => s \in Loaded
      /\ s.step = "read" => Sets(s)
  BY <1>1 DEF Steps, Idle, Asked, Loaded, Sets
<1>3. /\ s.of \in Listings /\ s.does \in {"edit", "fold", "withdraw"}
      /\ s.stale \in BOOLEAN /\ s.review \in Reviews \cup {None}
  <2>1. CASE s.step = "loaded"
    BY <1>2, <2>1 DEF Loaded
  <2>2. CASE s.step = "read"
    BY <1>2, <2>2 DEF Sets
  <2> QED
    BY <2>1, <2>2
<1>4. Exists(s.of)
  BY <1>1 DEF Fitting
<1>5. listing[s.of] \in Rows
  BY <1>3, <1>4, ListingTyped
<1> QED
  BY <1>1, <1>2, <1>3, <1>4, <1>5

\* The second read of a save preserves it.
LEMMA ReadSteps ==
    ASSUME ListingsInv, NEW c \in Calls, ReadAgain(c)
    PROVE  ListingsInv'
<1>1. PICK s : s = call[c]
  OBVIOUS
<1>2. s.step = "loaded"
  BY <1>1 DEF ReadAgain, At
<1>3. /\ s \in Loaded /\ s.of \in Listings /\ Exists(s.of) /\ listing[s.of] \in Rows
      /\ Fitting(s)
  BY <1>1, <1>2, SavingCall
<1> DEFINE columns == Differing(s.object, listing[s.of])
<1> DEFINE set == [k \in columns |-> s.object[k]]
<1> DEFINE r == [step |-> "read", of |-> s.of, set |-> set, stale |-> s.stale,
                 review |-> s.review, does |-> s.does]
<1>4. call' = [call EXCEPT ![c] = r]
      /\ UNCHANGED <<tours, seeded, listing, reviews, ever, disturbed>>
  BY <1>1 DEF ReadAgain, Become, Setting
<1>5. /\ s.object \in Rows /\ s.stale \in BOOLEAN /\ s.review \in Reviews \cup {None}
      /\ s.does \in {"edit", "fold", "withdraw"}
  BY <1>3 DEF Loaded
<1>6. columns \subseteq Columns
  BY DEF Differing
<1> HIDE DEF columns
<1>7. DOMAIN set = columns /\ \A k \in columns : set[k] = s.object[k]
  OBVIOUS
<1>8. \A k \in DOMAIN set : k \in Columns /\ set[k] \in Values(k)
  BY <1>5, <1>6, <1>7, RowColumns
<1> HIDE DEF set
<1>9. /\ r.step = "read" /\ r.of = s.of /\ r.set = set /\ r.stale = s.stale
      /\ r.review = s.review /\ r.does = s.does
  OBVIOUS
<1>10. Steps(r)
  BY <1>3, <1>5, <1>8, <1>9 DEF Steps, Sets
<1> HIDE DEF r
<1>11. ~s.stale =>
          /\ Purpose(s.does, DOMAIN set)
          /\ "status" \in DOMAIN set => <<listing[s.of].status, set["status"]>> \in Edges
  BY <1>2, <1>3, <1>7 DEF Fitting, columns
<1>12. Fitting(r)
  <2>1. /\ Exists(s.of)
        /\ IF s.does = "edit" THEN s.review = None
           ELSE s.review # None /\ Of[s.review] = s.of
        /\ s.does = "fold" => s.review \notin ever /\ \A j \in reviews : ~SameKey(s.review, j)
    BY <1>2, <1>3 DEF Fitting, Inserting
  <2> QED
    <3>1. Exists(r.of)
      BY <1>9, <2>1
    <3>2. IF r.does = "edit" THEN r.review = None
          ELSE r.review # None /\ Of[r.review] = r.of
      BY <1>9, <2>1
    <3>3. ~r.stale =>
             /\ Purpose(r.does, DOMAIN r.set)
             /\ "status" \in DOMAIN r.set =>
                   <<listing[r.of].status, r.set["status"]>> \in Edges
      BY <1>9, <1>11
    <3>4. r.does = "fold" => r.review \notin ever /\ \A j \in reviews : ~SameKey(r.review, j)
      BY <1>9, <2>1
    <3>5. r.step = "read"
      BY <1>9
    <3>6. Inserting(r) => r.does = "fold"
      BY <3>5 DEF Inserting
    <3>7. /\ r.step \notin {"checked", "found", "inserted", "deleted"} /\ r.step # "loaded"
      BY <3>5
    <3>8. Inserting(r) =>
            r.review \notin ever /\ \A j \in reviews : ~SameKey(r.review, j)
      BY <3>4, <3>6
    <3> QED
      BY <3>1, <3>2, <3>3, <3>7, <3>8 DEF Fitting
<1>13. Holding(r) => \A d \in Calls \ {c} :
          Holding(call[d]) => ~SameKey(r.review, call[d].review)
  BY <1>1, <1>2, <1>9 DEF ListingsInv, CallsFollow, Holding, SameKey
<1> QED
  BY <1>4, <1>10, <1>12, <1>13, Goes

\* What a call that is outdated meanwhile keeps.
LEMMA TurnedStale ==
    ASSUME NEW s, NEW t, Steps(s), t = [s EXCEPT !.stale = TRUE], s.step \in {"loaded", "read"}
    PROVE  /\ Steps(t) /\ t.step = s.step /\ t.of = s.of /\ t.stale = TRUE
           /\ t.review = s.review /\ t.does = s.does
<1>1. CASE s.step = "loaded"
  <2>1. s \in Loaded
    BY <1>1 DEF Steps, Idle, Asked, Loaded, Sets
  <2>2. t \in Loaded /\ t.stale = TRUE
    BY <2>1 DEF Loaded
  <2> QED
    BY <2>1, <2>2 DEF Steps, Loaded
<1>2. CASE s.step = "read"
  <2>1. Sets(s)
    BY <1>2 DEF Steps, Idle, Asked, Loaded, Sets
  <2>2. /\ t \in [step : {"read"}, of : Listings, set : {s.set}, stale : BOOLEAN,
                  review : Reviews \cup {None}, does : {"edit", "fold", "withdraw"}]
        /\ t.stale = TRUE /\ t.set = s.set /\ t.step = s.step /\ t.of = s.of
        /\ t.review = s.review /\ t.does = s.does
    BY <2>1 DEF Sets
  <2>3. Sets(t)
    BY <1>2, <2>1, <2>2 DEF Sets
  <2> QED
    BY <2>2, <2>3 DEF Steps
<1> QED
  BY <1>1, <1>2

\* The commit of a save preserves it.
LEMMA CommitSteps ==
    ASSUME ListingsInv, NEW c \in Calls, Commit(c)
    PROVE  ListingsInv'
<1>0. PICK s : s = call[c]
  OBVIOUS
<1>1. s.step = "read"
  BY <1>0 DEF Commit, At
<1>2. /\ s.of \in Listings /\ Exists(s.of) /\ listing[s.of] \in Rows
      /\ s.does \in {"edit", "fold", "withdraw"} /\ Sets(s) /\ Fitting(s)
      /\ s.review \in Reviews \cup {None}
  BY <1>0, <1>1, SavingCall
<1>3. PICK l, i, set : l = s.of /\ i = s.review /\ set = s.set
  OBVIOUS
<1> DEFINE row == [k \in Columns |-> IF k \in DOMAIN set THEN set[k] ELSE listing[l][k]]
<1>4. /\ listing' = [listing EXCEPT ![l] = row]
      /\ reviews' = CASE s.does = "fold" -> reviews \cup {i}
                      [] s.does = "withdraw" -> reviews \ {i}
                      [] s.does = "edit" -> reviews
      /\ ever' = IF s.does = "fold" THEN ever \cup {i} ELSE ever
      /\ disturbed' = IF s.stale \/ (s.does = "withdraw" /\ i \notin reviews)
                      THEN disturbed \cup {l} ELSE disturbed
      /\ call' = [d \in Calls |-> IF d = c THEN Idle
                                  ELSE IF Outdated(l, DOMAIN set, d)
                                  THEN [call[d] EXCEPT !.stale = TRUE] ELSE call[d]]
      /\ UNCHANGED <<tours, seeded>>
  BY <1>0, <1>3 DEF Commit
<1>5. row \in Rows /\ \A k \in Columns \ DOMAIN set : row[k] = listing[l][k]
  <2>1. \A k \in DOMAIN set : set[k] \in Values(k)
    BY <1>2, <1>3 DEF Sets
  <2>2. \A k \in Columns : listing[l][k] \in Values(k)
    BY <1>2, <1>3, RowColumns
  <2>3. \A k \in Columns : row[k] \in Values(k)
    BY <2>1, <2>2
  <2>4. row = [k \in Columns |-> row[k]]
    OBVIOUS
  <2>5. row \in Rows
    BY <2>3, <2>4, RowColumns
  <2> QED
    BY <2>5
<1>6. DOMAIN set = {} => row = listing[l]
  BY <1>2, <1>3, RowColumns
<1> HIDE DEF row
<1>7. \A x \in Listings : listing'[x] = IF x = l THEN row ELSE listing[x]
  BY <1>4 DEF ListingsInv, ListingsTypeOK
<1>8. listing' \in [Listings -> Rows \cup {NoRow}]
  BY <1>4, <1>5 DEF ListingsInv, ListingsTypeOK
<1>9. Exists(l)' /\ \A x \in Listings : Exists(x) => Exists(x)'
  BY <1>2, <1>3, <1>5, <1>7, NewRows DEF Exists
<1>10. /\ s.does # "edit" => i \in Reviews /\ Of[i] = l
       /\ s.does = "fold" => i \notin ever /\ \A j \in reviews : ~SameKey(i, j)
  BY <1>1, <1>2, <1>3 DEF Fitting, Inserting
<1>11. /\ reviews' \subseteq reviews \cup {i} /\ ever' \subseteq ever \cup {i}
       /\ s.does # "fold" => reviews' \subseteq reviews /\ ever' = ever
       /\ s.does = "fold" => reviews' = reviews \cup {i} /\ ever' = ever \cup {i}
       /\ ever \subseteq ever'
  <2>1. CASE s.does = "fold"
    BY <1>4, <2>1
  <2>2. CASE s.does = "withdraw"
    BY <1>4, <2>2
  <2>3. CASE s.does = "edit"
    BY <1>4, <2>3
  <2> QED
    BY <1>2, <2>1, <2>2, <2>3
<1>12. ASSUME NEW d \in Calls, d # c
       PROVE  /\ Steps(call'[d]) /\ call'[d].step = call[d].step
              /\ call[d].step \in {"loaded", "read"} =>
                    /\ call'[d].of = call[d].of /\ call'[d].review = call[d].review
                    /\ call'[d].does = call[d].does
              /\ \/ call'[d] = call[d]
                 \/ call[d].step \in {"loaded", "read"} /\ call'[d].stale = TRUE
              /\ ~Outdated(l, DOMAIN set, d) \/ call'[d].stale = TRUE
  <2>1. Steps(call[d])
    BY CallFacts
  <2>2. CASE Outdated(l, DOMAIN set, d)
    <3>1. call[d].step \in {"loaded", "read"}
      BY <2>2 DEF Outdated, At
    <3>2. call'[d] = [call[d] EXCEPT !.stale = TRUE]
      BY <1>4, <1>12, <2>2
    <3> QED
      BY <2>1, <3>1, <3>2, TurnedStale
  <2>3. CASE ~Outdated(l, DOMAIN set, d)
    BY <1>4, <1>12, <2>1, <2>3
  <2> QED
    BY <2>2, <2>3
<1>13. call'[c] = Idle /\ DOMAIN call' = Calls
  BY <1>4
<1>14. ListingsTypeOK'
  <2>1. /\ reviews' \subseteq ever' /\ ever' \subseteq Reviews
    BY <1>2, <1>10, <1>11 DEF ListingsInv, ListingsTypeOK
  <2>2. \A j \in ever' : Exists(Of[j])'
    <3>1. \A j \in ever : Exists(Of[j]) /\ Of[j] \in Listings
      BY ListingsAssumption DEF ListingsInv, ListingsTypeOK
    <3>2. \A j \in ever : Exists(Of[j])'
      BY <1>9, <3>1 DEF Exists
    <3> QED
      BY <1>9, <1>10, <1>11, <3>2 DEF Exists
  <2>3. \A j, k \in reviews' : Of[j] = Of[k] /\ KeyOf[j] = KeyOf[k] => j = k
    BY <1>2, <1>10, <1>11 DEF SameKey, ListingsInv, ListingsTypeOK
  <2>4. \A d \in Calls : Steps(call'[d])
    BY <1>12, <1>13 DEF Steps
  <2>5. disturbed' \subseteq Listings /\ tours' \subseteq Listings
        /\ seeded' \subseteq Listings
    BY <1>2, <1>3, <1>4 DEF ListingsInv, ListingsTypeOK
  <2> QED
    BY <1>8, <1>13, <2>1, <2>2, <2>3, <2>4, <2>5 DEF ListingsTypeOK, Steps
<1>15. ASSUME NEW d \in Calls, d # c, Holding(call'[d])
       PROVE  Holding(call[d]) /\ call[d].review = call'[d].review
  BY <1>12, <1>15 DEF Holding
<1>16. ~Holding(Idle)
  BY DEF Holding, Idle
<1>17. \A d, e \in Calls : Holding(call'[d]) /\ Holding(call'[e])
          /\ SameKey(call'[d].review, call'[e].review) => d = e
  BY <1>13, <1>15, <1>16 DEF Holding, SameKey, ListingsInv, CallsFollow
<1>18. ASSUME NEW d \in Calls, d # c, NEW s2, s2 = call'[d] PROVE Fitting(s2)'
  <2>0. PICK s1 : s1 = call[d]
    OBVIOUS
  <2>1. Steps(s1) /\ Fitting(s1)
    BY <2>0, CallFacts
  <2>2. /\ s2.step = s1.step
        /\ s1.step \in {"loaded", "read"} =>
              s2.of = s1.of /\ s2.review = s1.review /\ s2.does = s1.does
        /\ s2 = s1 \/ (s1.step \in {"loaded", "read"} /\ s2.stale = TRUE)
        /\ ~Outdated(l, DOMAIN set, d) \/ s2.stale = TRUE
    BY <1>12, <1>18, <2>0
  <2>3. s2.step \in {"checked", "found", "inserted", "deleted"} => Exists(Of[s2.review])'
    <3> SUFFICES ASSUME s2.step \in {"checked", "found", "inserted", "deleted"}
                 PROVE  Exists(Of[s2.review])'
      OBVIOUS
    <3>1. s2 = s1
      BY <2>2
    <3>2. s2.review \in Reviews /\ Exists(Of[s2.review])
      BY <2>0, <2>2, <3>1, AskedCall
    <3>3. Of[s2.review] \in Listings
      BY <3>2, ListingsAssumption
    <3> QED
      BY <1>9, <3>2, <3>3 DEF Exists
  <2>4. s2.step \in {"loaded", "read"} =>
          /\ s2.of \in Listings /\ Exists(s2.of)'
          /\ IF s2.does = "edit" THEN s2.review = None
             ELSE s2.review # None /\ Of[s2.review] = s2.of
    <3> SUFFICES ASSUME s2.step \in {"loaded", "read"}
                 PROVE  /\ s2.of \in Listings /\ Exists(s2.of)'
                        /\ IF s2.does = "edit" THEN s2.review = None
                           ELSE s2.review # None /\ Of[s2.review] = s2.of
      OBVIOUS
    <3>1. s1.of \in Listings /\ Exists(s1.of)
      BY <2>0, <2>2, SavingCall
    <3>2. IF s1.does = "edit" THEN s1.review = None
          ELSE s1.review # None /\ Of[s1.review] = s1.of
      BY <2>1, <2>2 DEF Fitting
    <3>3. s2.of = s1.of /\ s2.review = s1.review /\ s2.does = s1.does
      BY <2>2
    <3>4. Exists(s2.of)'
      BY <1>9, <3>1, <3>3 DEF Exists
    <3> QED
      BY <3>1, <3>2, <3>3, <3>4
  <2>5. s2.step \in {"loaded", "read"} /\ ~s2.stale =>
           /\ s2 = s1 /\ s2.of \in Listings /\ listing[s2.of] \in Rows
           /\ ~Outdated(l, DOMAIN set, d)
    BY <2>0, <2>2, SavingCall
  <2>6. s2.step = "loaded" /\ ~s2.stale =>
          /\ Purpose(s2.does, Differing(s2.object, listing'[s2.of]))
          /\ <<listing'[s2.of].status, s2.object.status>> \in Edges
    <3> SUFFICES ASSUME s2.step = "loaded", ~s2.stale
                 PROVE  /\ Purpose(s2.does, Differing(s2.object, listing'[s2.of]))
                        /\ <<listing'[s2.of].status, s2.object.status>> \in Edges
      OBVIOUS
    <3>1. s2.of # l \/ DOMAIN set = {}
      BY <2>0, <2>5 DEF Outdated, At
    <3>2. listing'[s2.of] = listing[s2.of]
      BY <1>6, <1>7, <2>5, <3>1
    <3> QED
      BY <2>1, <2>5, <3>2 DEF Fitting
  <2>7. s2.step = "read" /\ ~s2.stale =>
          /\ Purpose(s2.does, DOMAIN s2.set)
          /\ "status" \in DOMAIN s2.set =>
                <<listing'[s2.of].status, s2.set["status"]>> \in Edges
    <3> SUFFICES ASSUME s2.step = "read", ~s2.stale
                 PROVE  /\ Purpose(s2.does, DOMAIN s2.set)
                        /\ "status" \in DOMAIN s2.set =>
                              <<listing'[s2.of].status, s2.set["status"]>> \in Edges
      OBVIOUS
    <3>1. s2.of # l \/ DOMAIN set \cap DOMAIN s2.set = {}
      BY <2>0, <2>5 DEF Outdated, At
    <3>2. "status" \in DOMAIN s2.set => listing'[s2.of].status = listing[s2.of].status
      BY <1>3, <1>5, <1>7, <2>5, <3>1 DEF Columns
    <3> QED
      BY <2>1, <2>5, <3>2 DEF Fitting
  <2>8. Inserting(s2) =>
           s2.review \notin ever' /\ \A j \in reviews' : ~SameKey(s2.review, j)
    <3> SUFFICES ASSUME Inserting(s2)
                 PROVE  s2.review \notin ever' /\ \A j \in reviews' : ~SameKey(s2.review, j)
      OBVIOUS
    <3>1. Inserting(s1) /\ s2.review = s1.review /\ Holding(s1)
      BY <2>1, <2>2 DEF Inserting, Holding, Fitting
    <3>2. s2.review \notin ever /\ \A j \in reviews : ~SameKey(s2.review, j)
      BY <2>1, <3>1 DEF Fitting
    <3>3. CASE s.does = "fold"
      <4>1. Holding(s)
        BY <1>1, <1>2, <3>3 DEF Holding, Fitting
      <4>2. ~SameKey(s2.review, i)
        BY <1>0, <1>3, <1>18, <2>0, <3>1, <4>1 DEF ListingsInv, CallsFollow, Holding, SameKey
      <4> QED
        BY <1>11, <3>2, <3>3, <4>2 DEF SameKey
    <3>4. CASE s.does # "fold"
      BY <1>11, <3>2, <3>4
    <3> QED
      BY <3>3, <3>4
  <2> QED
    BY <2>3, <2>4, <2>6, <2>7, <2>8
       DEF Fitting, Exists, Inserting, SameKey
<1>19. Fitting(Idle)'
  BY DEF Fitting, Inserting, Idle
<1>20. \A d \in Calls : \A s2 \in {call'[d]} : Fitting(s2)'
  <2> TAKE d \in Calls
  <2> TAKE s2 \in {call'[d]}
  <2>1. CASE d = c
    BY <1>13, <1>19, <2>1
  <2>2. CASE d # c
    BY <1>18, <2>2
  <2> QED
    BY <2>1, <2>2
<1>21. CallsFollow'
  BY <1>17, <1>20 DEF CallsFollow, Holding, SameKey
<1> QED
  BY <1>14, <1>21 DEF ListingsInv

\* A listing is created, or a call ends, or nothing happens.
LEMMA OtherSteps ==
    ASSUME ListingsInv,
           \/ \E l \in Listings : Create(l)
           \/ \E c \in Calls : End(c)
           \/ UNCHANGED vars
    PROVE  ListingsInv'
<1>1. ASSUME NEW l \in Listings, Create(l) PROVE ListingsInv'
  <2>1. PICK row \in Rows : listing' = [listing EXCEPT ![l] = row]
    BY <1>1, NewRows DEF Create, Statuses
  <2>2. ~Exists(l) /\ UNCHANGED <<tours, seeded, reviews, ever, call, disturbed>>
    BY <1>1 DEF Create
  <2>3. \A x \in Listings :
           /\ listing'[x] = IF x = l THEN row ELSE listing[x]
           /\ Exists(x) => Exists(x)' /\ x # l
    BY <2>1, <2>2, NewRows DEF ListingsInv, ListingsTypeOK, Exists
  <2>4. \A i \in ever : Exists(Of[i])'
    BY <2>2, <2>3, ListingsAssumption DEF ListingsInv, ListingsTypeOK, Exists
  <2>5. ListingsTypeOK'
    <3>1. listing' \in [Listings -> Rows \cup {NoRow}]
      BY <2>1 DEF ListingsInv, ListingsTypeOK
    <3> QED
      BY <2>2, <2>4, <3>1 DEF ListingsInv, ListingsTypeOK
  <2>6. ASSUME NEW c \in Calls, NEW s, s = call[c] PROVE Fitting(s)'
    <3>1. Fitting(s)
      BY <2>6, CallFacts
    <3>2. s.step \in {"checked", "found", "inserted", "deleted"} => Exists(Of[s.review])'
      <4>1. s.step \in {"checked", "found", "inserted", "deleted"} =>
               Of[s.review] \in Listings /\ Exists(Of[s.review])
        BY <2>6, AskedCall, ListingsAssumption
      <4> QED
        BY <2>3, <4>1 DEF Exists
    <3>3. s.step \in {"loaded", "read"} =>
             s.of \in Listings /\ Exists(s.of)' /\ listing'[s.of] = listing[s.of]
      <4>1. s.step \in {"loaded", "read"} => s.of \in Listings /\ Exists(s.of)
        BY <2>6, SavingCall
      <4> QED
        BY <2>3, <4>1 DEF Exists
    <3> QED
      BY <2>2, <3>1, <3>2, <3>3 DEF Fitting, Inserting, SameKey, Exists
  <2>7. CallsFollow'
    BY <2>2, <2>6 DEF ListingsInv, CallsFollow, Holding, SameKey
  <2> QED
    BY <2>5, <2>7 DEF ListingsInv
<1>2. ASSUME NEW c \in Calls, End(c) PROVE ListingsInv'
  <2>1. Steps(Idle) /\ Fitting(Idle) /\ ~Holding(Idle)
    BY DEF Steps, Fitting, Holding, Inserting, Idle
  <2> QED
    BY <1>2, <2>1, Goes DEF End, Become
<1>3. CASE UNCHANGED vars
  <2>1. \A s : Fitting(s) => Fitting(s)'
    BY <1>3 DEF vars, Fitting, Exists
  <2>2. CallsFollow'
    BY <1>3, <2>1 DEF vars, ListingsInv, CallsFollow, Holding, SameKey
  <2>3. ListingsTypeOK'
    BY <1>3 DEF vars, ListingsInv, ListingsTypeOK, Exists
  <2> QED
    BY <2>2, <2>3 DEF ListingsInv
<1> QED
  BY <1>1, <1>2, <1>3

-----------------------------------------------------------------------------
(* The theorems.                                                           *)

\* The invariant is inductive: of the reviews with one key one call at a time
\* inserts or deletes any, and a call that nobody has outdated is about to change
\* the columns of one purpose.
THEOREM ListingsHold == Spec => []ListingsInv
<1>1. Init => ListingsInv
  BY InitListings
<1>2. ListingsInv /\ [Next]_vars => ListingsInv'
  <2> SUFFICES ASSUME ListingsInv, [Next]_vars PROVE ListingsInv'
    OBVIOUS
  <2>1. ASSUME NEW c \in Calls, Serve(c) PROVE ListingsInv'
    BY <2>1, EditSteps, ReviewSteps, RatingSteps, ReadSteps, CommitSteps, OtherSteps DEF Serve
  <2>2. CASE (\E l \in Listings : Create(l)) \/ UNCHANGED vars
    BY <2>2, OtherSteps
  <2> QED
    BY <2>1, <2>2 DEF Next
<1> QED
  BY <1>1, <1>2, PTL DEF Spec

\* Every reachable state is well typed, a review belongs to a listing that exists,
\* and no two reviews of a listing have one booking or author: the unique index
\* holds what the check before the transaction cannot.
THEOREM ListingsTypeCorrect == Spec => []ListingsTypeOK
<1>1. ListingsInv => ListingsTypeOK
  BY DEF ListingsInv
<1> QED
  BY <1>1, ListingsHold, PTL

\* A step changes a listing only where a call commits, and sets what the call
\* holds.
LEMMA OnlyCommits ==
    ASSUME ListingsInv, [Next]_vars, NEW l \in Listings, Exists(l), SavedUpToDate(l),
           listing'[l] # listing[l]
    PROVE  \E c \in Calls : \E s, row :
              /\ s = call[c] /\ s.of = l /\ s.step = "read" /\ ~s.stale
              /\ At(c, "read") /\ At(c, "idle")' /\ Fitting(s)
              /\ s.stale = FALSE /\ s.does \in {"edit", "fold", "withdraw"}
              /\ row = listing'[l]
              /\ \A k \in Columns :
                    row[k] = IF k \in DOMAIN s.set THEN s.set[k] ELSE listing[l][k]
<1>1. PICK c \in Calls : Commit(c)
  <2>1. CASE \E x \in Listings : Create(x)
    <3>1. PICK x \in Listings : Create(x)
      BY <2>1
    <3>2. x # l
      BY <3>1 DEF Create
    <3>3. listing'[l] = listing[l]
      BY <3>1, <3>2 DEF Create, ListingsInv, ListingsTypeOK
    <3> QED
      BY <3>3
  <2>2. ASSUME NEW c \in Calls, Serve(c) PROVE Commit(c)
    <3>1. listing' # listing
      OBVIOUS
    <3> QED
      BY <2>2, <3>1 DEF Serve, Update, ReplaceMenu, Submit, Approve, Suspend, Move, Edit,
            CreateReview, RemoveReview, InsertReview, DeleteReview, ApplyRating,
            WithdrawRating, ReadAgain, End
  <2> QED
    BY <2>1, <2>2 DEF Next, vars
<1>2. PICK s : s = call[c]
  OBVIOUS
<1>3. s.step = "read" /\ At(c, "read") /\ At(c, "idle")'
  BY <1>1, <1>2 DEF Commit, At, Idle
<1>4. /\ s.of \in Listings /\ Fitting(s) /\ s.stale \in BOOLEAN
      /\ s.does \in {"edit", "fold", "withdraw"}
  BY <1>2, <1>3, SavingCall
<1> DEFINE row == [k \in Columns |-> IF k \in DOMAIN s.set THEN s.set[k] ELSE listing[s.of][k]]
<1>5. listing' = [listing EXCEPT ![s.of] = row]
  BY <1>1, <1>2 DEF Commit
<1>6. s.of = l /\ listing'[l] = row
  BY <1>4, <1>5 DEF ListingsInv, ListingsTypeOK
<1>7. s.stale = FALSE
  BY <1>2, <1>3, <1>4, <1>6 DEF SavedUpToDate, Saves
<1>8. \A k \in Columns :
         row[k] = IF k \in DOMAIN s.set THEN s.set[k] ELSE listing[l][k]
  BY <1>6
<1> HIDE DEF row
<1> QED
  BY <1>2, <1>3, <1>4, <1>6, <1>7, <1>8

\* However many moderators and owners overlap: a tour goes from draft to review to
\* approval and a suspended one stays suspended, but for saves of an object that
\* others have outdated (submit(), approve(), suspend(), update()).
THEOREM StatusForward == Spec => StatusMovesForward
<1>1. ASSUME ListingsInv, [Next]_vars, NEW l \in Listings, Exists(l), SavedUpToDate(l)
      PROVE  <<listing[l].status, listing[l].status'>> \in Edges
  <2>1. listing[l].status \in Statuses
    BY <1>1, ListingTyped DEF Rows
  <2>2. CASE listing'[l] = listing[l]
    BY <2>1, <2>2 DEF Edges
  <2>3. CASE listing'[l] # listing[l]
    <3>0. PICK c \in Calls : \E s, row :
              /\ s = call[c] /\ s.of = l /\ s.step = "read" /\ ~s.stale
              /\ At(c, "read") /\ At(c, "idle")' /\ Fitting(s)
              /\ s.stale = FALSE /\ s.does \in {"edit", "fold", "withdraw"}
              /\ row = listing'[l]
              /\ \A k \in Columns :
                    row[k] = IF k \in DOMAIN s.set THEN s.set[k] ELSE listing[l][k]
      BY <1>1, <2>3, OnlyCommits
    <3>1. PICK s, row :
              /\ s = call[c] /\ s.of = l /\ s.step = "read" /\ ~s.stale
              /\ At(c, "read") /\ At(c, "idle")' /\ Fitting(s)
              /\ s.stale = FALSE /\ s.does \in {"edit", "fold", "withdraw"}
              /\ row = listing'[l]
              /\ \A k \in Columns :
                    row[k] = IF k \in DOMAIN s.set THEN s.set[k] ELSE listing[l][k]
      BY <3>0
    <3>2. "status" \in DOMAIN s.set => <<listing[l].status, s.set["status"]>> \in Edges
      BY <3>1 DEF Fitting
    <3>3. row.status = IF "status" \in DOMAIN s.set THEN s.set["status"] ELSE listing[l].status
      BY <3>1 DEF Columns
    <3>4. <<listing[l].status, row.status>> \in Edges
      BY <2>1, <3>2, <3>3 DEF Edges
    <3> QED
      BY <3>1, <3>4
  <2> QED
    BY <2>2, <2>3
<1>2. ListingsInv /\ [Next]_vars =>
         [\A l \in Listings : Exists(l) /\ SavedUpToDate(l)
             => <<listing[l].status, listing[l].status'>> \in Edges]_vars
  BY <1>1
<1> QED
  BY <1>2, ListingsHold, PTL DEF Spec, StatusMovesForward

\* However many requests overlap: a save from an up-to-date object changes what it
\* is for and nothing else, so an edit takes no rating back and no review an edit
\* (save()).
THEOREM SavesKeep == Spec => SavesKeepToThemselves
<1>1. ASSUME ListingsInv, [Next]_vars, NEW l \in Listings, Exists(l), SavedUpToDate(l)
      PROVE  LET moved == Differing(listing'[l], listing[l])
             IN  \/ moved \subseteq {"details"} \/ moved \subseteq {"menu"}
                 \/ moved \subseteq {"status"}
                 \/ /\ moved \subseteq {"average", "count"}
                    /\ Saves(l, {"fold", "withdraw"}, FALSE)
  <2>1. CASE listing'[l] = listing[l]
    <3>1. Differing(listing'[l], listing[l]) = {}
      BY <2>1 DEF Differing
    <3> QED
      BY <3>1
  <2>2. CASE listing'[l] # listing[l]
    <3>0. PICK c \in Calls : \E s, row :
              /\ s = call[c] /\ s.of = l /\ s.step = "read" /\ ~s.stale
              /\ At(c, "read") /\ At(c, "idle")' /\ Fitting(s)
              /\ s.stale = FALSE /\ s.does \in {"edit", "fold", "withdraw"}
              /\ row = listing'[l]
              /\ \A k \in Columns :
                    row[k] = IF k \in DOMAIN s.set THEN s.set[k] ELSE listing[l][k]
      BY <1>1, <2>2, OnlyCommits
    <3>1. PICK s, row :
              /\ s = call[c] /\ s.of = l /\ s.step = "read" /\ ~s.stale
              /\ At(c, "read") /\ At(c, "idle")' /\ Fitting(s)
              /\ s.stale = FALSE /\ s.does \in {"edit", "fold", "withdraw"}
              /\ row = listing'[l]
              /\ \A k \in Columns :
                    row[k] = IF k \in DOMAIN s.set THEN s.set[k] ELSE listing[l][k]
      BY <3>0
    <3>2. Purpose(s.does, DOMAIN s.set)
      BY <3>1 DEF Fitting
    <3>3. Differing(row, listing[l]) \subseteq DOMAIN s.set
      BY <3>1 DEF Differing
    <3>4. CASE s.does = "edit"
      BY <3>1, <3>2, <3>3, <3>4 DEF Purpose
    <3>5. CASE s.does # "edit"
      <4>1. Saves(l, {"fold", "withdraw"}, FALSE)
        BY <3>1, <3>5 DEF Saves
      <4>2. Differing(row, listing[l]) \subseteq {"average", "count"}
        BY <3>2, <3>3, <3>5 DEF Purpose
      <4> QED
        BY <3>1, <4>1, <4>2
    <3> QED
      BY <3>4, <3>5
  <2> QED
    BY <2>1, <2>2
<1>2. ListingsInv /\ [Next]_vars =>
        [\A l \in Listings : Exists(l) /\ SavedUpToDate(l)
          => LET moved == Differing(listing'[l], listing[l])
             IN  \/ moved \subseteq {"details"} \/ moved \subseteq {"menu"}
                 \/ moved \subseteq {"status"}
                 \/ /\ moved \subseteq {"average", "count"}
                    /\ Saves(l, {"fold", "withdraw"}, FALSE)]_vars
  BY <1>1
<1> QED
  BY <1>2, ListingsHold, PTL DEF Spec, SavesKeepToThemselves

-----------------------------------------------------------------------------
(* Ratings.                                                                *)

\* Finitely many reviews have finitely many stars.
LEMMA StarsFinite ==
    ASSUME NEW S \in SUBSET Reviews, IsFiniteSet(S)
    PROVE  IsFiniteSet(Stars(S)) /\ Cardinality(Stars(S)) \in Nat
<1>1. IsFiniteSet(1..5)
  <2>1. \A a, b \in Int : IsFiniteSet(a..b)
    BY FS_Interval
  <2>2. 1 \in Int /\ 5 \in Int
    OBVIOUS
  <2> QED
    BY <2>1, <2>2, Zenon
<1>2. IsFiniteSet(S \X (1..5))
  BY <1>1, FS_Product
<1>3. Stars(S) \in SUBSET (S \X (1..5))
  BY DEF Stars
<1> QED
  BY <1>2, <1>3, FS_Subset, FS_CardinalityType

\* The stars of one review, numbered.
LEMMA StarsOfOne ==
    ASSUME NEW i \in Reviews
    PROVE  Cardinality(Stars({i})) = Rating[i] /\ Rating[i] \in 1..5
<1>1. PICK r \in 1..5 : r = Rating[i]
  BY ListingsAssumption
<1> DEFINE f == [k \in 1..r |-> <<i, k>>]
<1>2. f \in Bijection(1..r, Stars({i}))
  <2>1. \A k \in 1..r : <<i, k>> \in Stars({i})
    BY <1>1 DEF Stars
  <2>2. \A star \in Stars({i}) : \E k \in 1..r : star = <<i, k>>
    BY <1>1 DEF Stars
  <2> QED
    BY <2>1, <2>2 DEF Bijection, Injection, Surjection, IsInjective
<1>3. ExistsBijection(1..r, Stars({i}))
  BY <1>2 DEF ExistsBijection
<1>4. r \in Nat
  BY <1>1
<1>5. Cardinality(Stars({i})) = r
  BY <1>3, <1>4, FS_CountingElements
<1> QED
  BY <1>1, <1>5

\* Sets without a common element have the elements of both.
LEMMA Disjoint ==
    ASSUME NEW S, IsFiniteSet(S), NEW T, IsFiniteSet(T), S \cap T = {}
    PROVE  Cardinality(S \cup T) = Cardinality(S) + Cardinality(T)
<1>1. Cardinality(S \cup T) = Cardinality(S) + Cardinality(T) - Cardinality(S \cap T)
  BY FS_Union, Zenon
<1>2. Cardinality(S \cap T) = 0
  BY FS_EmptySet, Zenon
<1>3. Cardinality(S) \in Nat /\ Cardinality(T) \in Nat
  BY FS_CardinalityType, Zenon
<1> QED
  BY <1>1, <1>2, <1>3

\* The sum of the ratings, when a review is added and when one is removed.
LEMMA StarsAdded ==
    ASSUME NEW S \in SUBSET Reviews, IsFiniteSet(S), NEW i \in Reviews \ S
    PROVE  Cardinality(Stars(S \cup {i})) = Cardinality(Stars(S)) + Rating[i]
<1>1. /\ IsFiniteSet(Stars(S)) /\ Cardinality(Stars(S)) \in Nat
      /\ IsFiniteSet(Stars({i}))
  BY StarsFinite, FS_Singleton
<1>2. Stars(S \cup {i}) = Stars(S) \cup Stars({i}) /\ Stars(S) \cap Stars({i}) = {}
  BY DEF Stars
<1>3. Cardinality(Stars(S) \cup Stars({i})) = Cardinality(Stars(S)) + Cardinality(Stars({i}))
  BY <1>1, <1>2, Disjoint, Zenon
<1>4. Cardinality(Stars({i})) = Rating[i]
  BY StarsOfOne, Zenon
<1> QED
  BY <1>2, <1>3, <1>4, Zenon

\* How far rounding can have gone, in half hundredths, after so many changes.
DriftOf(folds, withdrawals, imported) == (folds + withdrawals) * (folds + imported)

\* A row with the rating of n reviews that have so many stars.
Matching(l, row, n, stars, imported, drift) ==
    /\ row.count = n + imported
    /\ row.count = 0 => row.average = NoStars
    /\ IF l \in tours
       THEN row.count # 0 =>
               row.average = [sum |-> 100 * stars + SeededAverage * imported, over |-> row.count]
       ELSE 2 * (row.average.sum * row.count - (100 * stars + SeededAverage * imported))
               \in -drift..drift

\* What is stored is off by what the row was off, and half a hundredth for each rating
\* that it counts (round2()).
LEMMA RoundedOnce ==
    ASSUME NEW before \in Int, NEW total \in Int, NEW drift \in Nat, NEW more \in Nat,
           2 * (before - total) \in -drift..drift,
           NEW added \in Int, NEW n \in Nat \ {0}, n <= more, NEW q \in Nearest(before + added, n)
    PROVE  /\ q \in Int
           /\ 2 * (q * n - (total + added)) \in -(drift + more)..(drift + more)
<1>1. before + added \in Int
  OBVIOUS
<1>2. q \in Int /\ 2 * (q * n - (before + added)) \in -n..n
  BY <1>1 DEF Nearest
<1>3. PICK qn \in Int : qn = q * n
  BY <1>2
<1>4. 2 * (qn - (before + added)) \in -n..n
  BY <1>2, <1>3
<1>5. 2 * (qn - (total + added)) \in -(drift + more)..(drift + more)
  BY <1>4
<1> QED
  BY <1>2, <1>3, <1>5

\* Each change leaves room for the rounding of the next.
LEMMA DriftGrows ==
    ASSUME NEW f \in Nat, NEW w \in Nat, NEW imported \in Nat
    PROVE  /\ DriftOf(f, w, imported) \in Nat
           /\ DriftOf(f + 1, w, imported) = DriftOf(f, w, imported) + (2 * f + w + imported + 1)
           /\ DriftOf(f, w + 1, imported) = DriftOf(f, w, imported) + (f + imported)
<1>1. (f + w) * (f + imported) \in Nat
  <2>1. \A a, b \in Nat : a * b \in Nat
    OBVIOUS
  <2> QED
    BY <2>1
<1>2. \A a, b \in Int : (a + 1) * (b + 1) = a * b + a + b + 1
  OBVIOUS
<1>3. \A a, b \in Int : (a + 1) * b = a * b + b
  OBVIOUS
<1>4. (f + w + 1) * (f + imported + 1) =
         (f + w) * (f + imported) + (f + w) + (f + imported) + 1
  BY <1>2
<1>5. (f + w + 1) * (f + imported) = (f + w) * (f + imported) + (f + imported)
  BY <1>3
<1>6. (f + 1) + w = f + w + 1 /\ (f + 1) + imported = f + imported + 1 /\ f + (w + 1) = f + w + 1
  OBVIOUS
<1> QED
  BY <1>1, <1>4, <1>5, <1>6 DEF DriftOf

\* Folding a review into a row that matches n reviews matches n + 1 (applyRating()).
LEMMA FoldMatches ==
    ASSUME NEW l, NEW row \in Rows, NEW n \in Nat, NEW stars \in Nat, NEW imported \in Nat,
           NEW f \in Nat, NEW w \in Nat, n <= f, NEW r \in 1..5, n = 0 => stars = 0,
           Matching(l, row, n, stars, imported, DriftOf(f, w, imported)),
           NEW rated \in Folded(l, row, r)
    PROVE  /\ Matching(l, rated, n + 1, stars + r, imported, DriftOf(f + 1, w, imported))
           /\ rated.count # row.count
<1> DEFINE m == row.count + 1
           total == 100 * stars + SeededAverage * imported
           drift == DriftOf(f, w, imported)
<1>1. /\ row.count = n + imported /\ m = n + 1 + imported /\ m \in Nat /\ m # 0
      /\ m # row.count /\ row.count \in Nat
  BY DEF Matching
<1>2. PICK a \in Average(l, row, r, m) : rated = WithRating(row, a, m)
  BY FoldedRow
<1>3. rated.count = m /\ rated.average = a
  BY <1>2, RatingSet
<1>4. SeededAverage * imported \in Int /\ SeededAverage \in Int /\ total \in Int
  <2>1. SeededAverage \in Int
    BY ListingsAssumption
  <2>2. SeededAverage * imported \in Int
    BY <2>1
  <2> QED
    BY <2>1, <2>2
<1>5. 100 * (stars + r) + SeededAverage * imported = total + 100 * r
  BY <1>4
<1>6. CASE l \in tours
  <2>1. a = Mean(row, r, m)
    BY <1>1, <1>2, <1>6 DEF Average
  <2>2. CASE row.count = 0
    <3>1. n = 0 /\ imported = 0 /\ stars = 0
      BY <1>1, <2>2
    <3>2. SeededAverage * imported = 0
      BY <1>4, <3>1
    <3>3. total + 100 * r = 100 * r
      BY <3>1, <3>2
    <3>4. a = [sum |-> 100 * r, over |-> m]
      BY <2>1, <2>2 DEF Mean
    <3> QED
      BY <1>1, <1>3, <1>5, <1>6, <3>3, <3>4 DEF Matching
  <2>3. CASE row.count # 0
    <3>1. row.average = [sum |-> total, over |-> row.count]
      BY <1>6, <2>3 DEF Matching
    <3>2. row.average.over = row.count /\ row.average.sum = total
      BY <3>1
    <3>3. a = [sum |-> total + 100 * r, over |-> m]
      BY <2>1, <2>3, <3>2 DEF Mean
    <3> QED
      BY <1>1, <1>3, <1>5, <1>6, <3>3 DEF Matching
  <2> QED
    BY <2>2, <2>3
<1>7. CASE l \notin tours
  <2> DEFINE before == row.average.sum * row.count
  <2>1. before \in Int
    BY <1>1 DEF Rows, Averages
  <2>2. 2 * (before - total) \in -drift..drift
    BY <1>7 DEF Matching
  <2>3. PICK q \in Nearest(before + 100 * r, m) : a = Rounded(q)
    BY <1>1, <1>2, <1>7 DEF Average
  <2>4. drift \in Nat /\ DriftOf(f + 1, w, imported) = drift + (2 * f + w + imported + 1)
    BY DriftGrows
  <2>5. m <= 2 * f + w + imported + 1 /\ 2 * f + w + imported + 1 \in Nat
    BY <1>1
  <2>6. PICK added \in Int, more \in Nat : added = 100 * r /\ more = 2 * f + w + imported + 1
    BY <2>5
  <2> HIDE DEF before, total, drift, m
  <2>7. 2 * (q * m - (total + 100 * r)) \in -DriftOf(f + 1, w, imported)..DriftOf(f + 1, w, imported)
    <3>1. m \in Nat \ {0} /\ m <= more /\ q \in Nearest(before + added, m) /\ drift \in Nat
      BY <1>1, <2>3, <2>4, <2>5, <2>6
    <3>2. 2 * (q * m - (total + added)) \in -(drift + more)..(drift + more)
      BY <1>4, <2>1, <2>2, <2>6, <3>1, RoundedOnce
    <3> QED
      BY <2>4, <2>6, <3>2
  <2>8. rated.average.sum = q /\ rated.count = m
    BY <1>3, <2>3 DEF Rounded
  <2> QED
    BY <1>1, <1>5, <1>7, <2>7, <2>8 DEF Matching
<1> QED
  BY <1>1, <1>3, <1>6, <1>7

\* Withdrawing one leaves a row that matches those that are left (withdrawRating()).
LEMMA WithdrawMatches ==
    ASSUME NEW l, NEW row \in Rows, NEW n \in Nat, NEW stars \in Nat,
           NEW left \in Nat, NEW leftStars \in Nat, n = left + 1,
           NEW imported \in Nat, NEW f \in Nat, NEW w \in Nat, n <= f, NEW r \in 1..5,
           stars = leftStars + r, left = 0 => leftStars = 0,
           Matching(l, row, n, stars, imported, DriftOf(f, w, imported)),
           NEW rated \in Withdrawn(l, row, r)
    PROVE  /\ Matching(l, rated, left, leftStars, imported, DriftOf(f, w + 1, imported))
           /\ rated.count # row.count
<1> DEFINE m == row.count - 1
           total == 100 * stars + SeededAverage * imported
           drift == DriftOf(f, w, imported)
<1>1. /\ row.count = n + imported /\ m = left + imported /\ m \in Nat
      /\ row.count # 0 /\ m # row.count /\ row.count \in Nat
  BY DEF Matching
<1>2. PICK a \in Average(l, row, -r, m) : rated = WithRating(row, a, m)
  BY <1>1, WithdrawnRow
<1>3. rated.count = m /\ rated.average = a
  BY <1>2, RatingSet
<1>4. SeededAverage * imported \in Int /\ SeededAverage \in Int /\ total \in Int
  <2>1. SeededAverage \in Int
    BY ListingsAssumption
  <2>2. SeededAverage * imported \in Int
    BY <2>1
  <2> QED
    BY <2>1, <2>2
<1>5. 100 * leftStars + SeededAverage * imported = total + 100 * (-r)
  BY <1>4
<1>9. drift \in Nat /\ DriftOf(f, w + 1, imported) = drift + (f + imported)
  BY DriftGrows
<1>6. CASE m = 0
  <2>1. stars = r /\ leftStars = 0 /\ imported = 0
    BY <1>1, <1>6
  <2>2. SeededAverage * imported = 0
    BY <1>4, <2>1
  <2>3. total + 100 * (-r) = 0
    BY <2>1, <2>2
  <2>4. a = NoStars
    BY <1>2, <1>6 DEF Average
  <2>5. rated.average.sum = 0 /\ rated.count = 0 /\ rated.average = NoStars
    BY <1>3, <1>6, <2>4 DEF NoStars, Rounded
  <2>6. 2 * (0 * 0 - 0) \in -DriftOf(f, w + 1, imported)..DriftOf(f, w + 1, imported)
    BY <1>9
  <2>7. rated.count = left + imported
    BY <1>1, <1>3
  <2> HIDE DEF m, total, drift
  <2> QED
    BY <1>5, <2>3, <2>5, <2>6, <2>7 DEF Matching
<1>7. CASE m # 0 /\ l \in tours
  <2>1. a = Mean(row, -r, m)
    BY <1>1, <1>2, <1>7 DEF Average
  <2>2. row.average = [sum |-> total, over |-> row.count]
    BY <1>1, <1>7 DEF Matching
  <2>3. row.average.over = row.count /\ row.average.sum = total
    BY <2>2
  <2>4. a = [sum |-> total + 100 * (-r), over |-> m]
    BY <1>1, <2>1, <2>3 DEF Mean
  <2> QED
    BY <1>1, <1>3, <1>5, <1>7, <2>4 DEF Matching
<1>8. CASE m # 0 /\ l \notin tours
  <2> DEFINE before == row.average.sum * row.count
  <2>1. before \in Int
    BY <1>1 DEF Rows, Averages
  <2>2. 2 * (before - total) \in -drift..drift
    BY <1>8 DEF Matching
  <2>3. PICK q \in Nearest(before + 100 * (-r), m) : a = Rounded(q)
    BY <1>1, <1>2, <1>8 DEF Average
  <2>4. m <= f + imported /\ f + imported \in Nat
    BY <1>1
  <2>5. PICK added \in Int, more \in Nat : added = 100 * (-r) /\ more = f + imported
    BY <2>4
  <2> HIDE DEF before, total, drift, m
  <2>6. 2 * (q * m - (total + 100 * (-r)))
           \in -DriftOf(f, w + 1, imported)..DriftOf(f, w + 1, imported)
    <3>1. m \in Nat \ {0} /\ m <= more /\ q \in Nearest(before + added, m) /\ drift \in Nat
      BY <1>1, <1>8, <1>9, <2>3, <2>4, <2>5
    <3>2. 2 * (q * m - (total + added)) \in -(drift + more)..(drift + more)
      BY <1>4, <2>1, <2>2, <2>5, <3>1, RoundedOnce
    <3> QED
      BY <1>9, <2>5, <3>2
  <2>7. rated.average.sum = q /\ rated.count = m
    BY <1>3, <2>3 DEF Rounded
  <2> QED
    BY <1>1, <1>5, <1>8, <2>6, <2>7 DEF Matching
<1> QED
  BY <1>1, <1>3, <1>6, <1>7, <1>8

RatingsInv == ListingsInv /\ RatingsFollow /\ RatingsMatchReviews

\* A listing has finitely many reviews, and no stars without one.
LEMMA MineFinite ==
    ASSUME ListingsInv, RatingsFollow, NEW l \in Listings
    PROVE  /\ Mine(l) \in SUBSET Reviews /\ IsFiniteSet(Mine(l))
           /\ Cardinality(Mine(l)) \in Nat /\ Cardinality(Stars(Mine(l))) \in Nat
           /\ Cardinality(Mine(l)) = 0 <=> Mine(l) = {}
           /\ Cardinality(Mine(l)) = 0 => Cardinality(Stars(Mine(l))) = 0
<1>0. IsFiniteSet(ever) /\ reviews \subseteq ever
  BY DEF ListingsInv, ListingsTypeOK, RatingsFollow
<1>1. Mine(l) \in SUBSET reviews /\ Mine(l) \in SUBSET Reviews /\ IsFiniteSet(reviews)
  BY <1>0, FS_Subset DEF Mine, ListingsInv, ListingsTypeOK
<1>2. IsFiniteSet(Mine(l))
  BY <1>1, FS_Subset
<1>3. /\ Cardinality(Mine(l)) \in Nat /\ Cardinality(Stars(Mine(l))) \in Nat
      /\ Cardinality(Mine(l)) = 0 <=> Mine(l) = {}
  BY <1>1, <1>2, FS_CardinalityType, FS_EmptySet, StarsFinite
<1>4. Mine(l) = {} => Stars(Mine(l)) = {}
  BY DEF Stars
<1> QED
  BY <1>1, <1>2, <1>3, <1>4, FS_EmptySet

\* So many of its reviews were folded, and so many withdrawn; those that it has are
\* among the former.
LEMMA FoldsFinite ==
    ASSUME ListingsInv, RatingsFollow, NEW l \in Listings
    PROVE  /\ IsFiniteSet(Folds(l)) /\ IsFiniteSet(Folds(l) \ reviews)
           /\ Cardinality(Folds(l)) \in Nat /\ Cardinality(Folds(l) \ reviews) \in Nat
           /\ Cardinality(Mine(l)) <= Cardinality(Folds(l))
<1>1. Folds(l) \subseteq ever /\ Mine(l) \subseteq Folds(l) /\ IsFiniteSet(ever)
  BY DEF Folds, Mine, ListingsInv, ListingsTypeOK, RatingsFollow
<1>2. IsFiniteSet(Folds(l))
  BY <1>1, FS_Subset
<1>3. IsFiniteSet(Folds(l) \ reviews) /\ Cardinality(Mine(l)) <= Cardinality(Folds(l))
  BY <1>1, <1>2, FS_Subset
<1> QED
  BY <1>2, <1>3, FS_CardinalityType

\* The rating of a listing, by its reviews and by those that were folded and withdrawn.
Tells(l, row, mine, folded, withdrawn) ==
    Matching(l, row, Cardinality(mine), Cardinality(Stars(mine)), Imported(l),
             DriftOf(Cardinality(folded), Cardinality(withdrawn), Imported(l)))

\* The property says that of every listing that nothing has disturbed.
LEMMA MatchIsTelling ==
    ASSUME NEW l
    PROVE  RatingMatches(l) <=> Tells(l, listing[l], Mine(l), Folds(l), Folds(l) \ reviews)
  BY Zenon DEF RatingMatches, Tells, Matching, DriftOf, Drift, Total

LEMMA MatchStaysTelling ==
    ASSUME tours' = tours, seeded' = seeded, NEW l
    PROVE  RatingMatches(l)'
              <=> Tells(l, listing'[l], Mine(l)', Folds(l)', (Folds(l) \ reviews)')
<1>1. Imported(l)' = Imported(l)
  BY DEF Imported
<1>2. Total(l)' = 100 * Cardinality(Stars(Mine(l)')) + SeededAverage * Imported(l)
  BY <1>1, Zenon DEF Total
<1>3. Drift(l)' = DriftOf(Cardinality(Folds(l)'), Cardinality((Folds(l) \ reviews)'), Imported(l))
  BY <1>1, Zenon DEF Drift, DriftOf
<1> QED
  BY <1>1, <1>2, <1>3, Zenon DEF RatingMatches, Tells, Matching

\* The rating of a listing that nothing has disturbed.
LEMMA RowMatches ==
    ASSUME RatingsInv, NEW l \in Listings \ disturbed, Exists(l)
    PROVE  /\ Tells(l, listing[l], Mine(l), Folds(l), Folds(l) \ reviews)
           /\ listing[l] \in Rows /\ Imported(l) \in Nat
<1>1. listing[l] \in Rows
  BY ListingTyped DEF RatingsInv
<1>2. Imported(l) \in Nat
  BY ListingsAssumption DEF Imported
<1> QED
  BY <1>1, <1>2, MatchIsTelling DEF RatingsInv, RatingsMatchReviews

\* What a call that tallies is about to leave in the row.
LEMMA RatedMatches ==
    ASSUME RatingsInv, NEW l \in Listings \ disturbed, Exists(l), NEW i \in Reviews,
           NEW s, s.review = i, s.of = l, Of[i] = l,
           \/ s.does = "fold" /\ i \notin ever
           \/ s.does = "withdraw" /\ i \in reviews,
           NEW mine, mine = IF s.does = "fold" THEN Mine(l) \cup {i} ELSE Mine(l) \ {i},
           NEW folds, folds = IF s.does = "fold" THEN Folds(l) \cup {i} ELSE Folds(l),
           NEW gone, gone = IF s.does = "fold" THEN Folds(l) \ reviews
                            ELSE (Folds(l) \ reviews) \cup {i},
           NEW rated \in Rated(s, listing[l])
    PROVE  Tells(l, rated, mine, folds, gone) /\ rated.count # listing[l].count
<1> DEFINE row == listing[l]
           n == Cardinality(Mine(l))
           stars == Cardinality(Stars(Mine(l)))
           f == Cardinality(Folds(l))
           w == Cardinality(Folds(l) \ reviews)
<1>1. /\ Mine(l) \in SUBSET Reviews /\ IsFiniteSet(Mine(l)) /\ n \in Nat /\ stars \in Nat
      /\ n = 0 <=> Mine(l) = {}
      /\ n = 0 => stars = 0
  BY MineFinite DEF RatingsInv
<1>2. row \in Rows /\ Imported(l) \in Nat
      /\ Matching(l, row, n, stars, Imported(l), DriftOf(f, w, Imported(l)))
  BY RowMatches DEF Tells
<1>3. Rating[i] \in 1..5 /\ (i \in Mine(l) <=> i \in reviews) /\ reviews \subseteq ever
  BY ListingsAssumption DEF Mine, RatingsInv, ListingsInv, ListingsTypeOK
<1>4. /\ IsFiniteSet(Folds(l)) /\ IsFiniteSet(Folds(l) \ reviews)
      /\ f \in Nat /\ w \in Nat /\ n <= f
  BY FoldsFinite DEF RatingsInv
<1>5. CASE s.does = "fold"
  <2>1. Cardinality(mine) = n + 1 /\ Cardinality(Stars(mine)) = stars + Rating[i]
    BY <1>1, <1>3, <1>5, FS_AddElement, StarsAdded
  <2>2. Cardinality(folds) = f + 1 /\ Cardinality(gone) = w
    <3>1. i \notin Folds(l)
      BY <1>5 DEF Folds
    <3> QED
      BY <1>4, <1>5, <3>1, FS_AddElement
  <2>3. rated \in Folded(l, row, Rating[i])
    BY <1>5 DEF Rated
  <2> HIDE DEF row, n, stars, f, w
  <2>4. /\ Matching(l, rated, n + 1, stars + Rating[i], Imported(l), DriftOf(f + 1, w, Imported(l)))
        /\ rated.count # row.count
    BY <1>1, <1>2, <1>3, <1>4, <2>3, FoldMatches, ZenonT(30)
  <2> QED
    BY <2>1, <2>2, <2>4 DEF Tells, row
<1>6. CASE s.does = "withdraw"
  <2> DEFINE left == Cardinality(mine)
             leftStars == Cardinality(Stars(mine))
  <2>1. mine = Mine(l) \ {i} /\ i \in Mine(l)
    BY <1>3, <1>6
  <2>2. /\ IsFiniteSet(mine) /\ mine \in SUBSET Reviews /\ i \notin mine
        /\ Mine(l) = mine \cup {i}
    BY <1>1, <2>1, FS_RemoveElement
  <2>3. /\ left \in Nat /\ n = left + 1 /\ leftStars \in Nat
        /\ stars = leftStars + Rating[i]
    <3>1. Cardinality(mine \cup {i}) = left + 1 /\ left \in Nat
      BY <2>2, FS_AddElement, FS_CardinalityType
    <3>2. leftStars \in Nat
      BY <2>2, StarsFinite
    <3>3. Cardinality(Stars(mine \cup {i})) = leftStars + Rating[i]
      BY <2>2, StarsAdded
    <3> QED
      BY <2>2, <3>1, <3>2, <3>3
  <2>4. left = 0 => leftStars = 0
    <3>1. left = 0 => mine = {}
      BY <2>2, FS_EmptySet
    <3>2. mine = {} => Stars(mine) = {}
      BY DEF Stars
    <3> QED
      BY <3>1, <3>2, FS_EmptySet
  <2>5. Cardinality(folds) = f /\ Cardinality(gone) = w + 1
    <3>1. i \notin Folds(l) \ reviews
      BY <1>6
    <3> QED
      BY <1>4, <1>6, <3>1, FS_AddElement
  <2>6. rated \in Withdrawn(l, row, Rating[i])
    BY <1>6 DEF Rated
  <2> HIDE DEF row, n, stars, f, w, left, leftStars
  <2>7. /\ Matching(l, rated, left, leftStars, Imported(l), DriftOf(f, w + 1, Imported(l)))
        /\ rated.count # row.count
    BY <1>1, <1>2, <1>3, <1>4, <2>3, <2>4, <2>6, WithdrawMatches, ZenonT(30)
  <2> QED
    BY <2>5, <2>7 DEF Tells, row, left, leftStars
<1> QED
  BY <1>5, <1>6

\* Ratings are those of the reviews at the start.
LEMMA InitRatings == Init => RatingsInv
<1> SUFFICES ASSUME Init PROVE RatingsInv
  OBVIOUS
<1>1. ListingsInv
  BY InitListings
<1>2. reviews = {} /\ ever = {} /\ IsFiniteSet(ever)
  BY FS_EmptySet DEF Init
<1>3. \A l \in seeded : l \in Listings /\ listing[l] = SeededRow(l) /\ Exists(l)
  BY NewRows DEF Init, Exists
<1>4. RatingsFollow
  BY <1>2, <1>3 DEF Init, RatingsFollow, Tallying, Idle
<1>5. ASSUME NEW l \in Listings, Exists(l)
      PROVE  Tells(l, listing[l], Mine(l), Folds(l), Folds(l) \ reviews)
  <2>1. l \in seeded
    BY <1>5 DEF Init, Exists
  <2>2. Mine(l) = {} /\ Stars(Mine(l)) = {} /\ Folds(l) = {} /\ Folds(l) \ reviews = {}
    BY <1>2 DEF Mine, Stars, Folds
  <2>3. /\ Cardinality(Mine(l)) = 0 /\ Cardinality(Stars(Mine(l))) = 0
        /\ Cardinality(Folds(l)) = 0 /\ Cardinality(Folds(l) \ reviews) = 0
    BY <2>2, FS_EmptySet
  <2>4. Imported(l) = SeededCount /\ listing[l] = SeededRow(l)
    BY <1>3, <2>1 DEF Imported
  <2>5. /\ SeededRow(l).count = SeededCount
        /\ l \in tours => SeededRow(l).average =
                             [sum |-> SeededAverage * SeededCount, over |-> SeededCount]
        /\ l \notin tours => SeededRow(l).average.sum = SeededAverage
    BY DEF SeededRow, NewRow, Rounded
  <2>6. SeededCount \in Nat /\ SeededCount # 0 /\ SeededAverage \in Int
    BY ListingsAssumption
  <2>7. PICK total \in Int : total = SeededAverage * SeededCount
    BY <2>6
  <2>8. 100 * 0 + total = total /\ 2 * (total - total) = 0
    OBVIOUS
  <2>9. DriftOf(0, 0, SeededCount) = 0
    BY <2>6 DEF DriftOf
  <2>10. Matching(l, listing[l], 0, 0, SeededCount, 0)
    BY <2>4, <2>5, <2>6, <2>7, <2>8 DEF Matching
  <2> QED
    BY <2>3, <2>4, <2>9, <2>10 DEF Tells
<1> QED
  BY <1>1, <1>4, <1>5, MatchIsTelling DEF RatingsInv, RatingsMatchReviews, Init

\* When a call tallies, and what it has found.
Fits(s, row) ==
    \E rated \in Rated(s, row) :
        /\ s.step = "loaded" => s.object = rated
        /\ s.step = "read" => /\ DOMAIN s.set = Differing(rated, row)
                              /\ \A k \in DOMAIN s.set : s.set[k] = rated[k]

Tallies(s) ==
    /\ s.step \in {"loaded", "read"} /\ ~s.stale
    /\ s.does \in {"fold", "withdraw"} /\ s.of \notin disturbed
    /\ s.does = "withdraw" => s.review \in reviews

LEMMA TallyingFits ==
    ASSUME NEW s
    PROVE  Tallying(s) <=> (Tallies(s) => Fits(s, listing[s.of]))
  BY Zenon DEF Tallying, Tallies, Fits

\* What may be saved with a rating is the same as long as tours are the same.
LEMMA RatedSteady ==
    ASSUME tours' = tours, NEW s
    PROVE  Rated(s, listing[s.of])' = Rated(s, listing'[s.of])
<1>1. Rated(s, listing[s.of])' =
         IF s.does = "fold" THEN Folded(s.of, listing[s.of], Rating[s.review])'
         ELSE Withdrawn(s.of, listing[s.of], Rating[s.review])'
  BY Zenon DEF Rated
<1>2. Folded(s.of, listing[s.of], Rating[s.review])' = Folded(s.of, listing'[s.of], Rating[s.review])
  BY Zenon DEF Folded, Average
<1>3. Withdrawn(s.of, listing[s.of], Rating[s.review])'
         = Withdrawn(s.of, listing'[s.of], Rating[s.review])
  BY Zenon DEF Withdrawn, Average
<1> QED
  BY <1>1, <1>2, <1>3, Zenon DEF Rated

LEMMA FitsSteady ==
    ASSUME tours' = tours, NEW s
    PROVE  Tallying(s)' <=> (Tallies(s)' => Fits(s, listing'[s.of]))
<1>1. Tallying(s)' <=> (Tallies(s)' => Fits(s, listing[s.of])')
  BY Zenon DEF Tallying, Tallies, Fits
<1>2. Fits(s, listing[s.of])' <=> Fits(s, listing'[s.of])
  BY RatedSteady, Zenon DEF Fits
<1> QED
  BY <1>1, <1>2, Zenon

\* A call goes on with a state that tallies; nothing else changes.
LEMMA RatingsGo ==
    ASSUME RatingsInv, ListingsInv', NEW c \in Calls, NEW r, Tallying(r),
           call' = [call EXCEPT ![c] = r],
           UNCHANGED <<tours, seeded, listing, reviews, ever, disturbed>>
    PROVE  RatingsInv'
<1>1. \A d \in Calls : call'[d] = IF d = c THEN r ELSE call[d]
  BY DEF RatingsInv, ListingsInv, ListingsTypeOK
<1>2. ASSUME NEW s, Tallying(s) PROVE Tallying(s)'
  <2>1. tours' = tours /\ listing'[s.of] = listing[s.of] /\ (Tallies(s)' => Tallies(s))
    BY DEF Tallies
  <2> QED
    BY <1>2, <2>1, TallyingFits, FitsSteady, Zenon
<1>3. \A d \in Calls : \A s \in {call'[d]} : Tallying(s)'
  BY <1>1, <1>2 DEF RatingsInv, RatingsFollow
<1>4. RatingsFollow'
  BY <1>3 DEF RatingsInv, RatingsFollow, Exists
<1>5. RatingsMatchReviews'
  BY DEF RatingsInv, RatingsMatchReviews, RatingMatches, Mine, Imported, Exists, Total, Drift, Folds
<1> QED
  BY <1>4, <1>5 DEF RatingsInv

\* The loads of edits and moderation leave ratings as they are.
LEMMA RatingsEdit ==
    ASSUME RatingsInv, ListingsInv', NEW c \in Calls, NEW l \in Listings,
           \/ Update(c, l) \/ ReplaceMenu(c, l)
           \/ Submit(c, l) \/ Approve(c, l) \/ Suspend(c, l)
    PROVE  RatingsInv'
<1>1. PICK object : Edit(c, l, object)
  BY DEF Update, ReplaceMenu, Submit, Approve, Suspend, Move
<1> DEFINE r == Saving(l, object, None, "edit")
<1>2. /\ call' = [call EXCEPT ![c] = r]
      /\ UNCHANGED <<tours, seeded, listing, reviews, ever, disturbed>>
  BY <1>1 DEF Edit, Become
<1>3. r.does = "edit"
  BY DEF Saving
<1>4. Tallying(r)
  BY <1>3 DEF Tallying
<1> QED
  BY <1>2, <1>4, RatingsGo

\* So do the steps of reviews up to their fold.
LEMMA RatingsReview ==
    ASSUME RatingsInv, ListingsInv', NEW c \in Calls,
           \/ \E i \in Reviews : CreateReview(c, i) \/ RemoveReview(c, i)
           \/ InsertReview(c) \/ DeleteReview(c) \/ End(c)
    PROVE  RatingsInv'
<1>1. PICK r : /\ r.step \notin {"loaded", "read"} /\ call' = [call EXCEPT ![c] = r]
               /\ UNCHANGED <<tours, seeded, listing, reviews, ever, disturbed>>
  BY DEF CreateReview, RemoveReview, InsertReview, DeleteReview, End, Become, Idle
<1>2. Tallying(r)
  BY <1>1 DEF Tallying
<1> QED
  BY <1>1, <1>2, RatingsGo

\* The load of a fold or a withdrawal computes what the reviews say.
LEMMA RatingsLoad ==
    ASSUME RatingsInv, ListingsInv', NEW c \in Calls, ApplyRating(c) \/ WithdrawRating(c)
    PROVE  RatingsInv'
<1>1. PICK i : i = call[c].review
  OBVIOUS
<1>2. UNCHANGED <<tours, seeded, listing, reviews, ever, disturbed>>
  BY DEF ApplyRating, WithdrawRating
<1>3. ASSUME NEW does \in {"fold", "withdraw"}, NEW object,
             does = "fold" => object \in Folded(Of[i], listing[Of[i]], Rating[i]),
             does = "withdraw" => object \in Withdrawn(Of[i], listing[Of[i]], Rating[i]),
             call' = [call EXCEPT ![c] = Saving(Of[i], object, i, does)]
      PROVE  RatingsInv'
  <2> DEFINE r == Saving(Of[i], object, i, does)
  <2>1. /\ r.step = "loaded" /\ r.of = Of[i] /\ r.object = object /\ r.review = i
        /\ r.does = does
    BY DEF Saving
  <2>2. call' = [call EXCEPT ![c] = r]
    BY <1>3
  <2> HIDE DEF r
  <2>3. object \in Rated(r, listing[r.of])
    BY <1>3, <2>1 DEF Rated
  <2>4. Tallying(r)
    BY <2>1, <2>3 DEF Tallying
  <2> QED
    BY <1>2, <2>2, <2>4, RatingsGo
<1>4. CASE ApplyRating(c)
  <2>1. PICK object \in Folded(Of[i], listing[Of[i]], Rating[i]) :
           call' = [call EXCEPT ![c] = Saving(Of[i], object, i, "fold")]
    BY <1>1, <1>4 DEF ApplyRating, Become
  <2> QED
    BY <1>3, <2>1
<1>5. CASE WithdrawRating(c)
  <2>1. PICK object \in Withdrawn(Of[i], listing[Of[i]], Rating[i]) :
           call' = [call EXCEPT ![c] = Saving(Of[i], object, i, "withdraw")]
    BY <1>1, <1>5 DEF WithdrawRating, Become
  <2> QED
    BY <1>3, <2>1
<1> QED
  BY <1>4, <1>5

\* The second read sets it if nobody came between.
LEMMA RatingsRead ==
    ASSUME RatingsInv, ListingsInv', NEW c \in Calls, ReadAgain(c)
    PROVE  RatingsInv'
<1>1. PICK s : s = call[c]
  OBVIOUS
<1>2. s.step = "loaded"
  BY <1>1 DEF ReadAgain, At
<1>3. /\ s.of \in Listings /\ Exists(s.of) /\ s.review \in Reviews \cup {None} /\ Fitting(s)
  BY <1>1, <1>2, SavingCall DEF RatingsInv
<1> DEFINE columns == Differing(s.object, listing[s.of])
<1> DEFINE r == [step |-> "read", of |-> s.of, set |-> [k \in columns |-> s.object[k]],
                 stale |-> s.stale, review |-> s.review, does |-> s.does]
<1>4. call' = [call EXCEPT ![c] = r]
      /\ UNCHANGED <<tours, seeded, listing, reviews, ever, disturbed>>
  BY <1>1 DEF ReadAgain, Become, Setting
<1>5. /\ r.step = "read" /\ r.of = s.of /\ r.stale = s.stale /\ r.review = s.review
      /\ r.does = s.does /\ DOMAIN r.set = columns
      /\ \A k \in columns : r.set[k] = s.object[k]
  OBVIOUS
<1> HIDE DEF r
<1>6. Tallying(r)
  <2> SUFFICES ASSUME Tallies(s) PROVE Fits(r, listing[s.of])
    BY <1>2, <1>5, TallyingFits DEF Tallies
  <2>1. PICK rated \in Rated(s, listing[s.of]) : s.object = rated
    BY <1>1, <1>2, TallyingFits DEF RatingsInv, RatingsFollow, Fits
  <2>2. rated \in Rated(r, listing[s.of])
    BY <1>5, <2>1 DEF Rated
  <2> QED
    BY <1>5, <2>1, <2>2 DEF Fits
<1> QED
  BY <1>4, <1>6, RatingsGo

\* What a rating sets depends on the rating of the row alone.
LEMMA FitsDepends ==
    ASSUME NEW row \in Rows, NEW other \in Rows,
           row.average = other.average, row.count = other.count,
           NEW s, s.step = "read", Fits(s, row)
    PROVE  Fits(s, other)
<1>1. PICK rated \in Rated(s, row) :
        DOMAIN s.set = Differing(rated, row) /\ \A k \in DOMAIN s.set : s.set[k] = rated[k]
  BY DEF Fits
<1>2. \A l, stars, n : Average(l, row, stars, n) = Average(l, other, stars, n)
  BY DEF Average, Mean
<1>3. PICK a, n : /\ rated = WithRating(row, a, n)
                  /\ WithRating(other, a, n) \in Rated(s, other)
  <2>1. CASE s.does = "fold"
    <3>1. rated \in Folded(s.of, row, Rating[s.review])
      BY <1>1, <2>1 DEF Rated
    <3>2. PICK a \in Average(s.of, row, Rating[s.review], row.count + 1) :
             rated = WithRating(row, a, row.count + 1)
      BY <3>1, FoldedRow
    <3>3. WithRating(other, a, row.count + 1) \in Folded(s.of, other, Rating[s.review])
      <4>1. a \in Average(s.of, other, Rating[s.review], other.count + 1)
        BY <1>2, <3>2
      <4>2. WithRating(other, a, other.count + 1) \in Folded(s.of, other, Rating[s.review])
        BY <4>1, Zenon DEF Folded, WithRating
      <4> QED
        BY <4>2
    <3> QED
      BY <2>1, <3>2, <3>3 DEF Rated
  <2>2. CASE s.does # "fold"
    <3>1. rated \in Withdrawn(s.of, row, Rating[s.review])
      BY <1>1, <2>2 DEF Rated
    <3>2. PICK n : n = IF row.count = 0 THEN 0 ELSE row.count - 1
      OBVIOUS
    <3>3. PICK a \in Average(s.of, row, -Rating[s.review], n) : rated = WithRating(row, a, n)
      BY <3>1, <3>2, WithdrawnRow
    <3>4. WithRating(other, a, n) \in Withdrawn(s.of, other, Rating[s.review])
      <4>1. a \in Average(s.of, other, -Rating[s.review], n)
            /\ n = IF other.count = 0 THEN 0 ELSE other.count - 1
        BY <1>2, <3>2, <3>3
      <4> QED
        BY <4>1, Zenon DEF Withdrawn, WithRating
    <3> QED
      BY <2>2, <3>3, <3>4 DEF Rated
  <2> QED
    BY <2>1, <2>2
<1> DEFINE o == WithRating(other, a, n)
<1>4. \A any \in Rows : /\ WithRating(any, a, n)["average"] = a
                         /\ WithRating(any, a, n)["count"] = n
                         /\ Differing(WithRating(any, a, n), any) =
                               {k \in {"average", "count"} :
                                   IF k = "average" THEN a # any.average ELSE n # any.count}
  BY DEF WithRating, Rows, Differing, Columns
<1>5. Differing(o, other) = Differing(rated, row)
  BY <1>3, <1>4, ZenonT(30)
<1>6. \A k \in Differing(rated, row) : o[k] = rated[k]
  BY <1>3, <1>4
<1> QED
  BY <1>1, <1>3, <1>5, <1>6 DEF Fits

\* A call that tallies sets the count.
LEMMA CountSet ==
    ASSUME RatingsInv, NEW c \in Calls, NEW s, s = call[c], s.step = "read", Tallies(s)
    PROVE  "count" \in DOMAIN s.set
<1>1. /\ s.of \in Listings /\ Exists(s.of) /\ listing[s.of] \in Rows
      /\ s.review \in Reviews \cup {None} /\ Fitting(s)
  BY SavingCall DEF RatingsInv
<1>2. Fits(s, listing[s.of])
  BY TallyingFits DEF RatingsInv, RatingsFollow
<1>3. PICK rated \in Rated(s, listing[s.of]) : DOMAIN s.set = Differing(rated, listing[s.of])
  BY <1>2 DEF Fits
<1>4. /\ s.of \notin disturbed /\ s.review \in Reviews /\ Of[s.review] = s.of
      /\ \/ s.does = "fold" /\ s.review \notin ever
         \/ s.does = "withdraw" /\ s.review \in reviews
  BY <1>1 DEF Tallies, Fitting, Inserting
<1>5. PICK l, i : l = s.of /\ i = s.review
  OBVIOUS
<1>6. PICK mine, folds, gone :
        /\ mine = IF s.does = "fold" THEN Mine(l) \cup {i} ELSE Mine(l) \ {i}
        /\ folds = IF s.does = "fold" THEN Folds(l) \cup {i} ELSE Folds(l)
        /\ gone = IF s.does = "fold" THEN Folds(l) \ reviews
                  ELSE (Folds(l) \ reviews) \cup {i}
  OBVIOUS
<1>7. /\ l \in Listings \ disturbed /\ Exists(l) /\ i \in Reviews /\ Of[i] = l
      /\ s.review = i /\ s.of = l /\ rated \in Rated(s, listing[l])
      /\ (s.does = "fold" /\ i \notin ever) \/ (s.does = "withdraw" /\ i \in reviews)
  BY <1>1, <1>3, <1>4, <1>5
<1>8. Tells(l, rated, mine, folds, gone) /\ rated.count # listing[l].count
  BY <1>6, <1>7, RatedMatches
<1> QED
  BY <1>3, <1>5, <1>8 DEF Differing, Columns

\* The commit makes the row match the reviews again.
LEMMA RatingsCommit ==
    ASSUME RatingsInv, ListingsInv', NEW c \in Calls, Commit(c)
    PROVE  RatingsInv'
<1> USE DEF RatingsInv
<1>0. PICK s : s = call[c]
  OBVIOUS
<1>1. s.step = "read"
  BY <1>0 DEF Commit, At
<1>2. /\ s.of \in Listings /\ Exists(s.of) /\ listing[s.of] \in Rows
      /\ s.does \in {"edit", "fold", "withdraw"} /\ Sets(s) /\ Fitting(s)
      /\ s.review \in Reviews \cup {None}
  BY <1>0, <1>1, SavingCall
<1>3. PICK l, i, set : l = s.of /\ i = s.review /\ set = s.set
  OBVIOUS
<1> DEFINE row == [k \in Columns |-> IF k \in DOMAIN set THEN set[k] ELSE listing[l][k]]
<1>4. /\ listing' = [listing EXCEPT ![l] = row]
      /\ reviews' = CASE s.does = "fold" -> reviews \cup {i}
                      [] s.does = "withdraw" -> reviews \ {i}
                      [] s.does = "edit" -> reviews
      /\ ever' = IF s.does = "fold" THEN ever \cup {i} ELSE ever
      /\ disturbed' = IF s.stale \/ (s.does = "withdraw" /\ i \notin reviews)
                      THEN disturbed \cup {l} ELSE disturbed
      /\ call' = [d \in Calls |-> IF d = c THEN Idle
                                  ELSE IF Outdated(l, DOMAIN set, d)
                                  THEN [call[d] EXCEPT !.stale = TRUE] ELSE call[d]]
      /\ UNCHANGED <<tours, seeded>>
  BY <1>0, <1>3 DEF Commit
<1>5. \A k \in Columns : row[k] = IF k \in DOMAIN set THEN set[k] ELSE listing[l][k]
  OBVIOUS
<1>6. DOMAIN set = {} => row = listing[l]
  BY <1>2, <1>3, RowColumns
<1>9. row \in Rows
  <2>1. \A k \in Columns : row[k] \in Values(k)
    BY <1>2, <1>3, RowColumns DEF Sets
  <2>2. row = [k \in Columns |-> row[k]]
    OBVIOUS
  <2> HIDE DEF row
  <2> QED
    BY <2>1, <2>2, RowColumns
<1> HIDE DEF row
<1>7. \A x \in Listings : listing'[x] = IF x = l THEN row ELSE listing[x]
  BY <1>4 DEF ListingsInv, ListingsTypeOK
<1>8. /\ s.does = "fold" => reviews' = reviews \cup {i}
      /\ s.does = "withdraw" => reviews' = reviews \ {i}
      /\ s.does = "edit" => reviews' = reviews
      /\ s.does # "edit" => i \in Reviews /\ Of[i] = l
      /\ s.does = "fold" => i \notin ever
      /\ s.does = "fold" => ever' = ever \cup {i}
      /\ s.does # "fold" => ever' = ever
      /\ reviews \subseteq ever
  BY <1>1, <1>2, <1>3, <1>4 DEF Fitting, Inserting, SameKey, ListingsInv, ListingsTypeOK
<1>10. disturbed \subseteq disturbed' /\ IsFiniteSet(ever)
       /\ (l \notin disturbed' => ~s.stale /\ (s.does = "withdraw" => i \in reviews))
  BY <1>4 DEF RatingsFollow
<1>11. IsFiniteSet(ever')
  <2>1. IsFiniteSet(ever \cup {i})
    BY <1>10, FS_AddElement
  <2> QED
    BY <1>8, <1>10, <2>1
<1>12. \A x \in seeded' : Exists(x)'
  <2>1. \A x \in seeded : x \in Listings /\ Exists(x)
    BY DEF RatingsFollow, ListingsInv, ListingsTypeOK
  <2> QED
    BY <1>4, <1>7, <1>9, <2>1, NewRows DEF Exists
<1>13. ASSUME NEW x \in Listings, x \notin disturbed', Exists(x)'
       PROVE  Tells(x, listing'[x], Mine(x)', Folds(x)', (Folds(x) \ reviews)')
  <2>1. CASE x # l
    <3>1. listing'[x] = listing[x] /\ Exists(x)
      BY <1>7, <1>13, <2>1 DEF Exists
    <3>2. Mine(x)' = Mine(x) /\ Folds(x)' = Folds(x) /\ (Folds(x) \ reviews)' = Folds(x) \ reviews
      BY <1>2, <1>8, <2>1 DEF Mine, Folds
    <3> QED
      BY <1>10, <1>13, <3>1, <3>2, RowMatches
  <2>2. CASE x = l /\ s.does = "edit"
    <3>1. ~s.stale
      BY <1>10, <1>13, <2>2
    <3>2. "average" \notin DOMAIN set /\ "count" \notin DOMAIN set
      BY <1>1, <1>2, <1>3, <2>2, <3>1 DEF Fitting, Purpose
    <3>3. row.average = listing[l].average /\ row.count = listing[l].count
      BY <1>5, <3>2 DEF Columns
    <3>4. Mine(x)' = Mine(x) /\ Folds(x)' = Folds(x) /\ (Folds(x) \ reviews)' = Folds(x) \ reviews
      BY <1>8, <2>2 DEF Mine, Folds
    <3>5. Tells(l, listing[l], Mine(l), Folds(l), Folds(l) \ reviews)
      BY <1>2, <1>3, <1>10, <1>13, <2>2, RowMatches
    <3> QED
      BY <1>7, <1>13, <2>2, <3>3, <3>4, <3>5, ZenonT(30) DEF Tells, Matching
  <2>3. CASE x = l /\ s.does # "edit"
    <3> DEFINE mine == IF s.does = "fold" THEN Mine(l) \cup {i} ELSE Mine(l) \ {i}
               folds == IF s.does = "fold" THEN Folds(l) \cup {i} ELSE Folds(l)
               gone == IF s.does = "fold" THEN Folds(l) \ reviews
                       ELSE (Folds(l) \ reviews) \cup {i}
    <3>1. Mine(x)' = mine
      BY <1>2, <1>8, <2>3 DEF Mine
    <3>2. Folds(x)' = folds /\ (Folds(x) \ reviews)' = gone
      <4>1. CASE s.does = "fold"
        BY <1>2, <1>8, <2>3, <4>1 DEF Folds
      <4>2. CASE s.does = "withdraw"
        <5>1. i \in reviews /\ ever' = ever /\ reviews' = reviews \ {i} /\ Of[i] = l
          BY <1>8, <1>10, <1>13, <2>3, <4>2
        <5> QED
          BY <1>8, <2>3, <4>2, <5>1 DEF Folds
      <4> QED
        BY <1>2, <2>3, <4>1, <4>2
    <3>3. PICK rated \in Rated(s, listing[l]) :
            /\ DOMAIN set = Differing(rated, listing[l])
            /\ \A k \in DOMAIN set : set[k] = rated[k]
      <4>1. Tallies(s)
        BY <1>1, <1>2, <1>3, <1>10, <1>13, <2>3 DEF Tallies
      <4>2. Fits(s, listing[s.of])
        BY <1>0, <4>1, TallyingFits DEF RatingsFollow
      <4> QED
        BY <1>1, <1>3, <4>2 DEF Fits
    <3>4. row.average = rated.average /\ row.count = rated.count
      BY <1>5, <3>3 DEF Columns, Differing
    <3>5. Tells(l, rated, mine, folds, gone)
      <4>1. PICK m, fs, gs : m = mine /\ fs = folds /\ gs = gone
        OBVIOUS
      <4>2. l \in Listings \ disturbed /\ Exists(l) /\ i \in Reviews /\ Of[i] = l
        BY <1>2, <1>3, <1>8, <1>10, <1>13, <2>3
      <4>3. \/ s.does = "fold" /\ i \notin ever
            \/ s.does = "withdraw" /\ i \in reviews
        BY <1>2, <1>8, <1>10, <1>13, <2>3
      <4>4. /\ m = IF s.does = "fold" THEN Mine(l) \cup {i} ELSE Mine(l) \ {i}
            /\ fs = IF s.does = "fold" THEN Folds(l) \cup {i} ELSE Folds(l)
            /\ gs = IF s.does = "fold" THEN Folds(l) \ reviews
                    ELSE (Folds(l) \ reviews) \cup {i}
        BY <4>1
      <4> HIDE DEF mine, folds, gone
      <4>5. Tells(l, rated, m, fs, gs)
        BY <1>3, <3>3, <4>2, <4>3, <4>4, RatedMatches
      <4> QED
        BY <4>1, <4>5
    <3> HIDE DEF mine, folds, gone
    <3> QED
      BY <1>7, <1>13, <2>3, <3>1, <3>2, <3>4, <3>5, ZenonT(30) DEF Tells, Matching
  <2> QED
    BY <1>2, <2>1, <2>2, <2>3
<1>14. RatingsMatchReviews'
  BY <1>4, <1>13, MatchStaysTelling DEF RatingsMatchReviews
<1>15. ASSUME NEW d \in Calls, d # c PROVE \A s2 \in {call'[d]} : Tallying(s2)'
  <2> TAKE s2 \in {call'[d]}
  <2>1. s2 = IF Outdated(l, DOMAIN set, d) THEN [call[d] EXCEPT !.stale = TRUE] ELSE call[d]
    BY <1>4, <1>15
  <2> SUFFICES ASSUME Tallies(s2)' PROVE Fits(s2, listing'[s2.of])
    BY <1>4, FitsSteady
  <2>10. /\ s2.step \in {"loaded", "read"} /\ ~s2.stale
         /\ s2.does \in {"fold", "withdraw"} /\ s2.of \notin disturbed'
         /\ s2.does = "withdraw" => s2.review \in reviews'
    BY DEF Tallies
  <2>2. ~Outdated(l, DOMAIN set, d)
    <3>1. SUFFICES ASSUME Outdated(l, DOMAIN set, d) PROVE FALSE
      OBVIOUS
    <3>2. Steps(call[d]) /\ call[d].step \in {"loaded", "read"}
      BY <3>1, CallFacts DEF Outdated, At
    <3> QED
      BY <2>1, <2>10, <3>1, <3>2, TurnedStale
  <2>3. s2 = call[d]
    BY <2>1, <2>2
  <2>4. /\ s2.of \in Listings /\ Exists(s2.of) /\ listing[s2.of] \in Rows /\ s2.review # None
    BY <2>3, <2>10, SavingCall DEF Fitting
  <2>5. s2.does = "withdraw" => s2.review \in reviews
    <3>1. SUFFICES ASSUME s2.does = "withdraw", s2.review \notin reviews PROVE FALSE
      OBVIOUS
    <3>2. s.does = "fold" /\ s2.review = i
      BY <1>2, <1>8, <2>10, <3>1
    <3>3. Holding(s) /\ Holding(s2) /\ SameKey(s.review, s2.review)
      BY <1>1, <1>2, <1>3, <2>4, <2>10, <3>2 DEF Holding, Fitting, SameKey
    <3> QED
      BY <1>0, <1>15, <2>3, <3>3 DEF ListingsInv, CallsFollow
  <2>6. Fits(s2, listing[s2.of])
    <3>1. Tallies(s2)
      BY <1>10, <2>5, <2>10 DEF Tallies
    <3> QED
      BY <2>3, <3>1, TallyingFits DEF RatingsFollow
  <2>7. CASE s2.of # l
    BY <1>7, <2>4, <2>6, <2>7
  <2>8. CASE s2.of = l /\ s2.step = "loaded"
    <3>1. DOMAIN set = {}
      BY <2>2, <2>3, <2>8 DEF Outdated, At
    <3> QED
      BY <1>6, <1>7, <2>4, <2>6, <2>8, <3>1
  <2>9. CASE s2.of = l /\ s2.step = "read"
    <3>1. "count" \in DOMAIN s2.set
      BY <1>10, <2>3, <2>5, <2>9, <2>10, CountSet DEF Tallies
    <3>2. "count" \notin DOMAIN set
      BY <2>2, <2>3, <2>9, <3>1 DEF Outdated, At
    <3>3. s.does = "edit" /\ ~s.stale
      <4>1. l \notin disturbed' /\ l \notin disturbed
        BY <1>10, <2>9, <2>10
      <4>2. s.does # "edit" => Tallies(s)
        BY <1>1, <1>2, <1>3, <1>10, <4>1 DEF Tallies
      <4>3. s.does # "edit" => "count" \in DOMAIN set
        BY <1>0, <1>1, <1>3, <4>2, CountSet
      <4> QED
        BY <1>10, <3>2, <4>1, <4>3
    <3>4. "average" \notin DOMAIN set
      BY <1>1, <1>2, <1>3, <3>3 DEF Fitting, Purpose
    <3>6. row.count = listing[l].count /\ row.average = listing[l].average
      BY <1>5, <3>2, <3>4 DEF Columns
    <3>5. listing'[s2.of] = row
      BY <1>7, <2>4, <2>9
    <3> QED
      BY <1>2, <1>3, <1>9, <2>6, <2>9, <3>5, <3>6, FitsDepends
  <2> QED
    BY <2>7, <2>8, <2>9, <2>10
<1>16. \A d \in Calls : \A s2 \in {call'[d]} : Tallying(s2)'
  <2>1. Tallying(Idle)'
    BY DEF Tallying, Idle
  <2>2. call'[c] = Idle
    BY <1>4
  <2> QED
    BY <1>15, <2>1, <2>2
<1> QED
  BY <1>11, <1>12, <1>14, <1>16 DEF RatingsFollow

\* A new listing has neither reviews nor a rating, unless it was imported with one.
LEMMA RatingsOther ==
    ASSUME RatingsInv, ListingsInv', (\E l \in Listings : Create(l)) \/ UNCHANGED vars
    PROVE  RatingsInv'
<1> USE DEF RatingsInv
<1>1. ASSUME NEW l \in Listings, Create(l) PROVE RatingsInv'
  <2>1. PICK status : status \in Statuses /\ listing' = [listing EXCEPT ![l] = NewRow(status)]
    BY <1>1 DEF Create, Statuses
  <2>2. ~Exists(l) /\ UNCHANGED <<tours, seeded, reviews, ever, call, disturbed>>
    BY <1>1 DEF Create
  <2>3. /\ \A x \in Listings : listing'[x] = IF x = l THEN NewRow(status) ELSE listing[x]
        /\ \A x \in Listings : Exists(x) => Exists(x)' /\ x # l
    BY <2>1, <2>2 DEF ListingsInv, ListingsTypeOK, Exists
  <2>4. l \notin seeded /\ Mine(l) = {} /\ Folds(l) = {}
    BY <2>2 DEF RatingsFollow, Mine, Folds, ListingsInv, ListingsTypeOK
  <2>5. RatingsFollow'
    <3>1. ASSUME NEW c \in Calls, NEW s, s = call[c] PROVE Tallying(s)'
      <4>1. SUFFICES ASSUME Tallies(s)' PROVE Fits(s, listing'[s.of])
        BY <2>2, FitsSteady
      <4>2. Tallies(s) /\ s.step \in {"loaded", "read"}
        BY <2>2, <4>1 DEF Tallies
      <4>3. listing'[s.of] = listing[s.of]
        BY <2>3, <3>1, <4>2, SavingCall
      <4>4. Fits(s, listing[s.of])
        BY <3>1, <4>2, TallyingFits DEF RatingsFollow
      <4> QED
        BY <4>3, <4>4
    <3>2. \A x \in seeded : Exists(x)'
      BY <2>3 DEF RatingsFollow, ListingsInv, ListingsTypeOK
    <3> QED
      BY <2>2, <3>1, <3>2 DEF RatingsFollow
  <2>6. ASSUME NEW x \in Listings, x \notin disturbed, Exists(x)'
        PROVE  Tells(x, listing'[x], Mine(x), Folds(x), Folds(x) \ reviews)
    <3>1. CASE x = l
      <4>1. listing'[x].count = 0 /\ listing'[x].average = NoStars
        <5>1. NewRow(status).count = 0 /\ NewRow(status).average = NoStars
          BY DEF NewRow
        <5> QED
          BY <2>3, <3>1, <5>1
      <4>2. Mine(x) = {} /\ Stars(Mine(x)) = {} /\ Folds(x) = {} /\ Folds(x) \ reviews = {}
        BY <2>4, <3>1 DEF Stars
      <4>3. /\ Cardinality(Mine(x)) = 0 /\ Cardinality(Stars(Mine(x))) = 0 /\ Imported(x) = 0
            /\ Cardinality(Folds(x)) = 0 /\ Cardinality(Folds(x) \ reviews) = 0
        BY <2>4, <3>1, <4>2, FS_EmptySet DEF Imported
      <4>4. SeededAverage * 0 = 0 /\ DriftOf(0, 0, 0) = 0 /\ NoStars.sum = 0
        BY ListingsAssumption DEF DriftOf, NoStars, Rounded
      <4>5. Matching(x, listing'[x], 0, 0, 0, 0)
        BY <4>1, <4>4 DEF Matching
      <4> QED
        BY <4>3, <4>4, <4>5 DEF Tells
    <3>2. CASE x # l
      <4>1. Exists(x) /\ listing'[x] = listing[x]
        BY <2>3, <2>6, <3>2 DEF Exists
      <4> QED
        BY <2>6, <4>1, RowMatches
    <3> QED
      BY <3>1, <3>2
  <2>7. RatingsMatchReviews'
    <3>1. \A x : Mine(x)' = Mine(x) /\ Folds(x)' = Folds(x)
                 /\ (Folds(x) \ reviews)' = Folds(x) \ reviews
      BY <2>2 DEF Mine, Folds
    <3> QED
      BY <2>2, <2>6, <3>1, MatchStaysTelling DEF RatingsMatchReviews
  <2> QED
    BY <2>5, <2>7
<1>2. CASE UNCHANGED vars
  <2>1. ASSUME NEW s, Tallying(s) PROVE Tallying(s)'
    <3>1. tours' = tours /\ listing'[s.of] = listing[s.of] /\ (Tallies(s)' => Tallies(s))
      BY <1>2 DEF Tallies, vars
    <3> QED
      BY <2>1, <3>1, TallyingFits, FitsSteady, Zenon
  <2>2. RatingsFollow'
    BY <1>2, <2>1 DEF RatingsFollow, vars, Exists
  <2>3. RatingsMatchReviews'
    BY <1>2, ZenonT(30) DEF RatingsMatchReviews, RatingMatches, Mine, Imported, Exists, Total, Drift, Folds, vars
  <2> QED
    BY <2>2, <2>3
<1> QED
  BY <1>1, <1>2

\* However many requests overlap: the count of a listing is that of the reviews it has,
\* the average of a tour is theirs, and that of a restaurant is no further from it than
\* the rounding of each change can take it, until two changes overlap or a review is
\* removed a second time (applyRating(), withdrawRating(), round2()).
THEOREM RatingsMatch == Spec => []RatingsMatchReviews
<1>1. Init => RatingsInv
  BY InitRatings
<1>2. RatingsInv /\ ListingsInv' /\ [Next]_vars => RatingsInv'
  <2> SUFFICES ASSUME RatingsInv, ListingsInv', [Next]_vars PROVE RatingsInv'
    OBVIOUS
  <2>1. ASSUME NEW c \in Calls, Serve(c) PROVE RatingsInv'
    BY <2>1, RatingsEdit, RatingsReview, RatingsLoad, RatingsRead, RatingsCommit DEF Serve
  <2>2. CASE (\E l \in Listings : Create(l)) \/ UNCHANGED vars
    BY <2>2, RatingsOther
  <2> QED
    BY <2>1, <2>2 DEF Next
<1>3. RatingsInv => RatingsMatchReviews
  BY DEF RatingsInv
<1> QED
  BY <1>1, <1>2, <1>3, ListingsHold, PTL DEF Spec

-----------------------------------------------------------------------------
\* A restaurant offers only slots at which it is open, and stays open for an hour
\* (availableSlots(), isOpenAt()).
THEOREM SlotsAreOpen ==
    ASSUME NEW hours \in Seq(Windows), NEW day \in Days,
           NEW m \in availableSlots(hours, day)
    PROVE  isOpenAt(hours, day, m) /\ isOpenAt(hours, day, m + 59)
<1>1. PICK k \in DOMAIN hours : First(hours, day, k) /\ m \in SlotsOf(hours[k])
  BY DEF availableSlots
<1>2. hours[k] \in Windows /\ hours[k].day = day
  BY <1>1 DEF First
<1>3. hours[k].opens \in Minutes /\ hours[k].closes \in Minutes
  BY <1>2 DEF Windows
<1>4. PICK n \in 0..23 : m = hours[k].opens + 60 * n /\ m <= hours[k].closes - 60
  BY <1>1 DEF SlotsOf
<1>5. \A o, c \in Int : m = o + 60 * n /\ m <= c - 60 =>
         m >= o /\ m + 59 >= o /\ m < c /\ m + 59 < c
  OBVIOUS
<1>6. hours[k].opens \in Int /\ hours[k].closes \in Int
  <2>1. \A x \in Minutes : x \in Int
    BY DEF Minutes
  <2> QED
    BY <1>3, <2>1
<1>7. /\ m >= hours[k].opens /\ m + 59 >= hours[k].opens
      /\ m < hours[k].closes /\ m + 59 < hours[k].closes
  BY <1>4, <1>5, <1>6
<1> QED
  BY <1>1, <1>2, <1>7 DEF isOpenAt

\* The first window of the day offers its every hour, from its opening on, after which
\* it is open for an hour yet, and nothing else is offered: no slot is lost to the
\* windows of other days, nor to a later one of the day, which offers none
\* (availableSlots(): find() and the loop over the window).
THEOREM SlotsAreAll ==
    ASSUME NEW hours \in Seq(Windows), NEW day \in Days,
           NEW k \in DOMAIN hours, First(hours, day, k)
    PROVE  availableSlots(hours, day) =
              {m \in Minutes : /\ \E n \in Nat : m = hours[k].opens + 60 * n
                               /\ m + 60 <= hours[k].closes}
<1>1. DOMAIN hours = 1..Len(hours) /\ Len(hours) \in Nat
  BY LenProperties
<1>2. \A j \in DOMAIN hours : First(hours, day, j) => j = k
  <2> SUFFICES ASSUME NEW j \in DOMAIN hours, First(hours, day, j), j # k PROVE FALSE
    OBVIOUS
  <2>1. /\ hours[j].day = day /\ \A i \in 1..(j - 1) : hours[i].day # day
        /\ hours[k].day = day /\ \A i \in 1..(k - 1) : hours[i].day # day
    BY DEF First
  <2>2. j \in 1..(k - 1) \/ k \in 1..(j - 1)
    BY <1>1
  <2> QED
    BY <2>1, <2>2
<1>3. availableSlots(hours, day) = SlotsOf(hours[k])
  <2>1. {j \in DOMAIN hours : First(hours, day, j)} = {k}
    BY <1>2
  <2> QED
    BY <2>1 DEF availableSlots
<1> DEFINE o == hours[k].opens
           c == hours[k].closes
<1>4. o \in Minutes /\ c \in Minutes
  <2>1. hours[k] \in Windows
    BY <1>1, ElementOfSeq
  <2> QED
    BY <2>1 DEF Windows
<1>5. SlotsOf(hours[k]) = {m \in {o + 60 * n : n \in 0..23} : m <= c - 60}
  BY DEF SlotsOf
<1> HIDE DEF o, c
<1>6. ASSUME NEW n \in 0..23, o + 60 * n <= c - 60
      PROVE  o + 60 * n \in Minutes /\ (o + 60 * n) + 60 <= c /\ n \in Nat
  BY <1>4, <1>6 DEF Minutes
<1>7. ASSUME NEW m \in Minutes, NEW n \in Nat, m = o + 60 * n, m + 60 <= c
      PROVE  n \in 0..23 /\ m <= c - 60
  <2>1. o \in 0..1439 /\ c \in 0..1439 /\ m \in 0..1439
    BY <1>4 DEF Minutes
  <2>2. m = o + 60 * n /\ m + 60 <= c
    BY <1>7
  <2>3. n <= 23
    BY <2>1, <2>2
  <2> QED
    BY <1>7, <2>1, <2>3
<1>8. {m \in {o + 60 * n : n \in 0..23} : m <= c - 60} =
         {m \in Minutes : (\E n \in Nat : m = o + 60 * n) /\ m + 60 <= c}
  BY <1>6, <1>7
<1> QED
  BY <1>3, <1>5, <1>8 DEF o, c
=============================================================================

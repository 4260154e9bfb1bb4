---------------------------- MODULE DatabaseProofs ----------------------------
(***************************************************************************)
(* Theorems about Database. Of the seed script: any days, any number of    *)
(* runs and crashes, and any deeds of the service; what the script comes   *)
(* to on a day is ScriptAssumption. Of the migrations: any number of them  *)
(* up and down, lost connections, and any values stored in between; what   *)
(* each of them comes to alone is MigrationsLead.                          *)
(***************************************************************************)
EXTENDS Database, SequenceTheorems, FiniteSetTheorems, WellFoundedInduction, TLAPS

-----------------------------------------------------------------------------
(* The script as a sequence.                                               *)

\* A set of numbers that is not empty has a least one.
LEMMA Least ==
    ASSUME NEW T, T \subseteq Nat, T # {}
    PROVE  \E x \in T : \A y \in T : x <= y
<1> DEFINE R == OpToRel(<, Nat)
<1>1. IsWellFoundedOn(R, Nat)
  BY NatLessThanWellFounded
<1>2. \A x, y \in Nat : y < x => <<y, x>> \in R
  BY DEF OpToRel
<1> HIDE DEF R
<1>3. PICK x \in T : \A y \in T : <<y, x>> \notin R
  BY <1>1, WFMin
<1>4. \A y \in T : ~(y < x)
  BY <1>2, <1>3
<1> QED
  BY <1>4

\* A sequence written out element by element is the sequence.
LEMMA ExplicitIsSame ==
    ASSUME NEW S, NEW s \in Seq(S)
    PROVE  Explicit(s) = s
  BY ConcatEmptySeq DEF Explicit

\* What comes after the first k elements is in the rest that SubSeq returns.
LEMMA RestHolds ==
    ASSUME NEW S, NEW s \in Seq(S), NEW k \in 0..Len(s), NEW i \in (k + 1)..Len(s)
    PROVE  s[i] \in ToSet(SubSeq(s, k + 1, Len(s)))
<1> DEFINE n == Len(s)
           m == k + 1
           rest == SubSeq(s, m, n)
<1>1. n \in Nat /\ m \in Int /\ \A j \in m..n : s[j] \in S
  BY LenProperties, ElementOfSeq
<1>2. m <= n /\ i - k \in 1..(n - m + 1) /\ m + (i - k) - 1 = i
  BY <1>1
<1> HIDE DEF m, n
<1>3. /\ rest \in Seq(S) /\ Len(rest) = n - m + 1
      /\ \A j \in 1..(n - m + 1) : rest[j] = s[m + j - 1]
  BY <1>1, <1>2, SubSeqProperties
<1> HIDE DEF rest
<1>4. i - k \in DOMAIN rest /\ rest[i - k] = s[i]
  BY <1>2, <1>3, LenProperties
<1> QED
  BY <1>4 DEF ToSet, rest, m, n

\* A function over 1..n is a sequence.
LEMMA ListIsSeq ==
    ASSUME NEW n \in Nat, NEW S, NEW f \in [1..n -> S]
    PROVE  f \in Seq(S)
  BY SeqDef

\* Which run it is makes no difference.
LEMMA SeedIsScript ==
    ASSUME NEW n, NEW day
    PROVE  seed(day, n) = Script(day)
  BY DEF seed, Script, TourSteps, DemoBookingSteps, ReviewSteps, Departure, atMorning

\* ScriptAssumption, for one day: the script is a sequence of steps (seed()).
LEMMA ScriptIsSeq ==
    ASSUME NEW day \in Days
    PROVE  /\ Script(day) \in Seq(ScriptSteps)
           /\ Len(Script(day)) \in Nat
           /\ DOMAIN Script(day) = 1..Len(Script(day))
           /\ \A k \in 1..Len(Script(day)) : Script(day)[k] \in ScriptSteps
  BY ScriptAssumption, LenProperties, ElementOfSeq

\* RatingsComeLast, for one day (the ratings of seed()).
LEMMA ComeLast ==
    ASSUME NEW day \in Days
    PROVE  /\ \A k \in DOMAIN Script(day) : Script(day)[k].does = "read" =>
                 /\ k + 1 \in DOMAIN Script(day) /\ Script(day)[k + 1].does = "save"
                 /\ Script(day)[k + 1].saves = Script(day)[k].saves
           /\ \A k \in DOMAIN Script(day) : Script(day)[k].does = "save" =>
                 /\ k - 1 \in DOMAIN Script(day) /\ Script(day)[k - 1].does = "read"
                 /\ \E t \in Slugs : /\ Script(day)[k].saves = <<TourRow(t)>>
                                     /\ Script(day)[k - 1].saves = <<TourRow(t)>>
           /\ \A t \in Slugs : \E k \in DOMAIN Script(day) :
                 /\ Saves(Script(day)[k], t)
                 /\ \A j \in DOMAIN Script(day) : Saves(Script(day)[j], t) => j = k
                 /\ \E j \in 1..(k - 1) : LooksFor(Script(day)[j], TourRow(t))
                 /\ \A n \in SeededReviews(t) :
                       \E j \in 1..(k - 1) : LooksFor(Script(day)[j], Review(n))
<1>1. RatingsComeLast
  BY ScriptAssumption, Zenon
<1> QED
  BY <1>1, Zenon DEF RatingsComeLast

\* A step that reads reviews or saves a rating is about one tour.
LEMMA OneTour ==
    ASSUME NEW day \in Days, NEW k \in DOMAIN Script(day),
           Script(day)[k].does \in {"read", "save"}
    PROVE  \E t \in Slugs : Script(day)[k].saves = <<TourRow(t)>>
<1> DEFINE s == Script(day)
<1>1. /\ \A i \in DOMAIN s : s[i].does = "read" =>
            /\ i + 1 \in DOMAIN s /\ s[i + 1].does = "save"
            /\ s[i + 1].saves = s[i].saves
      /\ \A i \in DOMAIN s : s[i].does = "save" => \E t \in Slugs : s[i].saves = <<TourRow(t)>>
  BY ComeLast
<1>2. k \in DOMAIN s /\ s[k].does \in {"read", "save"}
  OBVIOUS
<1> HIDE DEF s
<1>3. \E t \in Slugs : s[k].saves = <<TourRow(t)>>
  BY <1>1, <1>2
<1> QED
  BY <1>3 DEF s

\* FirstRowsTell, for two steps: a row that is looked for stands for what goes with it.
LEMMA FirstTells ==
    ASSUME NEW day \in Days, NEW other \in Days,
           NEW s \in ToSet(Script(day)), NEW r \in ToSet(Script(other)),
           s.does = "ensure", r.does = "ensure"
    PROVE  /\ s.saves[1] = r.saves[1] => s.saves = r.saves
           /\ \A i \in DOMAIN s.saves : i > 1 => s.saves[i] # r.saves[1]
           /\ \A i \in DOMAIN s.saves, t \in Slugs : s.saves[i] # LiveReview(t)
<1>1. FirstRowsTell
  BY ScriptAssumption, Zenon
<1> QED
  BY <1>1, Zenon DEF FirstRowsTell

\* The plans that are computed once are the scripts of their days.
LEMMA PlanIsScript ==
    ASSUME NEW n \in 1..MaxRuns, NEW day \in Days
    PROVE  Plan[n][day] = Script(day)
<1>1. MaxRuns \in Nat /\ LastDay \in Nat
  BY DatabaseAssumption
<1> DEFINE ofRun(i) == [d \in 1..LastDay |-> seed(d, i)]
           all == [i \in 1..MaxRuns |-> Explicit(ofRun(i))]
<1>2. ASSUME NEW i
      PROVE  /\ Explicit(ofRun(i)) = ofRun(i)
             /\ ofRun(i) \in [1..LastDay -> Seq(ScriptSteps)]
  <2>1. \A d \in 1..LastDay : seed(d, i) \in Seq(ScriptSteps)
    BY SeedIsScript, ScriptIsSeq DEF Days
  <2>2. ofRun(i) \in [1..LastDay -> Seq(ScriptSteps)]
    BY <2>1
  <2> HIDE DEF ofRun
  <2>3. ofRun(i) \in Seq(Seq(ScriptSteps))
    BY <1>1, <2>2, ListIsSeq
  <2> QED
    BY <2>2, <2>3, ExplicitIsSame
<1>3. Plan = Explicit(all)
  BY Zenon DEF Plan
<1>4. all \in [1..MaxRuns -> [1..LastDay -> Seq(ScriptSteps)]] /\ all[n] = ofRun(n)
  <2> HIDE DEF ofRun
  <2> QED
    BY <1>2
<1>5. ofRun(n)[day] = Script(day)
  BY SeedIsScript DEF Days
<1> HIDE DEF all, ofRun
<1>6. all \in Seq([1..LastDay -> Seq(ScriptSteps)])
  BY <1>1, <1>4, ListIsSeq
<1>7. Explicit(all) = all
  BY <1>6, ExplicitIsSame
<1> QED
  BY <1>3, <1>4, <1>5, <1>7

-----------------------------------------------------------------------------
(* How a run goes on.                                                      *)

TourColumns == [status : SeenStatus, count : Nat, sum : Nat]

\* A run goes on to the next step that has something to do, or to its end; the
\* rows of the steps in between are all there.
GoesTo(q, steps, r, from, rows, now, to) ==
    /\ q \in Runs
    /\ q.day = r.day /\ q.at = to /\ q.saved = 0 /\ q.read = r.read
    /\ to \in DOMAIN steps => Due(steps[to], rows)
    /\ \A j \in from..(to - 1) : steps[j].does = "ensure" /\ steps[j].saves[1] \in rows
    /\ \A t \in Slugs :
          q.held[t] = IF \E k \in r.at..(to - 1) : LooksFor(steps[k], TourRow(t))
                        THEN now[t].status ELSE r.held[t]

\* GoOn stops at a step of the script or behind the last, having passed those it may.
LEMMA GoesOn ==
    ASSUME NEW day \in Days, NEW r \in Runs, NEW from \in 1..(Len(Script(day)) + 1),
           NEW rows, NEW now \in [Slugs -> TourColumns],
           NEW g, g = GoOn(Script(day), r, from, rows, now)
    PROVE  \E to \in from..(Len(Script(day)) + 1) :
              GoesTo(g, Script(day), r, from, rows, now, to)
<1> DEFINE s == Script(day)
           Stops(k) == /\ k \in DOMAIN s => Due(s[k], rows)
                       /\ \A j \in from..(k - 1) : ~Due(s[j], rows)
           to == CHOOSE k \in from..(Len(s) + 1) : Stops(k)
           passed == {s[k].saves[1] : k \in {k \in r.at..(to - 1) : s[k].does = "ensure"}}
           held == [t \in Slugs |-> IF TourRow(t) \in passed THEN now[t].status ELSE r.held[t]]
           q == [r EXCEPT !.at = to, !.saved = 0, !.held = held]
<1>1. Len(s) \in Nat /\ DOMAIN s = 1..Len(s) /\ \A k \in 1..Len(s) : s[k] \in ScriptSteps
  BY ScriptIsSeq
<1>2. to \in from..(Len(s) + 1) /\ Stops(to)
  <2> DEFINE T == {k \in from..(Len(s) + 1) : k \in DOMAIN s => Due(s[k], rows)}
  <2>1. T \subseteq Nat /\ Len(s) + 1 \in T
    BY <1>1
  <2>2. PICK k \in T : \A j \in T : k <= j
    BY <2>1, Least
  <2>3. \A j \in from..(k - 1) : j \notin T /\ j \in from..(Len(s) + 1)
    BY <1>1, <2>2
  <2>4. Stops(k)
    BY <2>2, <2>3
  <2> HIDE DEF Stops
  <2> QED
    BY <2>2, <2>4
<1>3. GoOn(s, r, from, rows, now) = q
  BY DEF GoOn
<1> HIDE DEF to
<1>4. \A t \in Slugs :
         TourRow(t) \in passed <=> \E k \in r.at..(to - 1) : LooksFor(s[k], TourRow(t))
  BY DEF LooksFor
<1> HIDE DEF passed, s
<1>5. held \in [Slugs -> SeenStatus]
  BY DEF Runs, TourColumns
<1>6. to \in Nat \ {0}
  BY <1>1, <1>2
<1> HIDE DEF held
<1>7. /\ q \in Runs /\ q.day = r.day /\ q.at = to /\ q.saved = 0 /\ q.read = r.read
      /\ q.held = held
  BY <1>5, <1>6 DEF Runs
<1>8. \A j \in from..(to - 1) : s[j].does = "ensure" /\ s[j].saves[1] \in rows
  BY <1>2 DEF Due
<1>9. \A t \in Slugs : held[t] = IF \E k \in r.at..(to - 1) : LooksFor(s[k], TourRow(t))
                                   THEN now[t].status ELSE r.held[t]
  BY <1>4 DEF held
<1>10. g = q
  BY <1>3 DEF s
<1> HIDE DEF q
<1>11. GoesTo(q, s, r, from, rows, now, to)
  BY <1>2, <1>7, <1>8, <1>9 DEF GoesTo
<1> QED
  BY <1>2, <1>10, <1>11 DEF s

-----------------------------------------------------------------------------
(* Type correctness.                                                       *)

\* A run is at a step of its day, and what it has saved of the step is there.
RunFits(q, rows) ==
    LET steps == Script(q.day) IN
    /\ q \in Runs
    /\ q.at \in 1..(Len(steps) + 1)
    /\ q.at \in DOMAIN steps /\ q.saved > 0 =>
          /\ steps[q.at].does = "ensure"
          /\ q.saved < Len(steps[q.at].saves)
          /\ \A i \in 1..q.saved : steps[q.at].saves[i] \in rows

\* No run looks like the absence of one.
LEMMA NoRunIsNone == NoRun \notin Runs
  BY DEF NoRun, FreshRun, Runs

\* Where a run under way stands, by the type invariant.
LEMMA CurrentStep ==
    ASSUME SeedTypeOK, run # NoRun
    PROVE  /\ RunFits(run, db) /\ run \in Runs /\ run.day \in Days
           /\ Steps = Script(run.day)
           /\ Running <=> run.at \in DOMAIN Script(run.day)
           /\ Current = Script(run.day)[run.at]
           /\ Running => Current \in ScriptSteps
           /\ run.at \in Nat \ {0} /\ runs \in 1..MaxRuns
<1>1. run \in Runs /\ run.day \in Days /\ run.at \in 1..(Len(Script(run.day)) + 1)
  BY DEF SeedTypeOK, Runs
<1>2. runs \in 1..MaxRuns
  BY DatabaseAssumption DEF SeedTypeOK
<1>3. Steps = Script(run.day)
  BY <1>1, <1>2, PlanIsScript DEF Steps
<1>4. /\ Len(Steps) \in Nat /\ DOMAIN Steps = 1..Len(Steps)
      /\ \A k \in 1..Len(Steps) : Steps[k] \in ScriptSteps
  BY <1>1, <1>3, ScriptIsSeq
<1>5. Running <=> run.at \in DOMAIN Steps
  BY <1>1, <1>3, <1>4 DEF Running
<1>6. RunFits(run, db)
  BY <1>1, <1>3, <1>5 DEF RunFits, SeedTypeOK, Current
<1> QED
  BY <1>1, <1>2, <1>3, <1>4, <1>5, <1>6 DEF Current

\* What to show of a step for the type invariant.
LEMMA FittingRun ==
    ASSUME tours' \in [Slugs -> TourColumns], runs' \in 0..MaxRuns,
           run' = NoRun \/ (RunFits(run', db') /\ runs' > 0),
           completed' \subseteq Days, completed' # {} => runs' > 0,
           suspended' \subseteq Slugs, crossed' \subseteq Slugs
    PROVE  SeedTypeOK'
<1>1. CASE run' = NoRun
  BY <1>1 DEF SeedTypeOK, Running, TourColumns
<1>2. CASE RunFits(run', db') /\ runs' > 0
  <2>1. run' \in Runs /\ run'.day \in Days /\ runs' \in 1..MaxRuns
    BY <1>2, DatabaseAssumption DEF RunFits, Runs
  <2>2. Plan[runs'][run'.day] = Script(run'.day)
    BY <2>1, PlanIsScript
  <2>3. Len(Script(run'.day)) \in Nat /\ DOMAIN Script(run'.day) = 1..Len(Script(run'.day))
    BY <2>1, ScriptIsSeq
  <2> QED
    BY <1>2, <2>1, <2>2, <2>3 DEF SeedTypeOK, RunFits, Running, Current, Steps, TourColumns
<1> QED
  BY <1>1, <1>2

\* Two tours have two rows.
LEMMA TourRowTells == \A t, u : TourRow(t) = TourRow(u) => t = u
  BY DEF TourRow, Row

\* The tour that is recomputed is the one of the step.
LEMMA RecomputedTour ==
    ASSUME SeedTypeOK, Running, Current.does \in {"read", "save"}
    PROVE  /\ Recomputed \in Slugs
           /\ Current.saves = <<TourRow(Recomputed)>>
           /\ \A t \in Slugs : Current.saves[1] = TourRow(t) <=> t = Recomputed
<1>1. /\ run.day \in Days /\ run.at \in DOMAIN Script(run.day)
      /\ Current = Script(run.day)[run.at]
  BY CurrentStep DEF Running
<1>2. PICK t \in Slugs : Current.saves = <<TourRow(t)>>
  BY <1>1, OneTour
<1>3. Recomputed = t
  BY <1>2, TourRowTells DEF Recomputed
<1> QED
  BY <1>2, <1>3, TourRowTells

\* Count and sum of a tour's reviews are numbers.
LEMMA RatingTyped ==
    ASSUME NEW t \in Slugs
    PROVE  Rating(t) \in Ratings
<1> DEFINE mine == {k \in SeededReviews(t) : Review(k) \in db}
           live == IF LiveReview(t) \in db THEN 1 ELSE 0
           stars == SumFunction([k \in mine |-> seedReviews[k].rating])
<1>1. mine \in SUBSET SeededReviews(t) /\ IsFiniteSet(SeededReviews(t))
  BY ScriptAssumption
<1>2. Cardinality(mine) \in Nat
  BY <1>1, FS_Subset, FS_CardinalityType
<1>3. stars \in Nat
  BY <1>1, ScriptAssumption
<1>4. live \in Nat /\ Stars \in Nat /\ live * Stars \in Nat
  BY DatabaseAssumption
<1>5. Rating(t) = [count |-> Cardinality(mine) + live, sum |-> stars + live * Stars]
  BY DEF Rating
<1> HIDE DEF mine, live, stars
<1> QED
  BY <1>2, <1>3, <1>4, <1>5 DEF Ratings

\* A run that goes on fits the script.
LEMMA GoneOnFits ==
    ASSUME NEW r \in Runs, NEW from \in 1..(Len(Script(r.day)) + 1),
           NEW rows, NEW now \in [Slugs -> TourColumns],
           NEW q, q = GoOn(Script(r.day), r, from, rows, now)
    PROVE  RunFits(q, rows)
<1>1. r.day \in Days
  BY DEF Runs
<1>2. Len(Script(r.day)) \in Nat
  BY <1>1, ScriptIsSeq
<1>3. PICK to \in from..(Len(Script(r.day)) + 1) :
         GoesTo(q, Script(r.day), r, from, rows, now, to)
  BY <1>1, GoesOn
<1>4. to \in 1..(Len(Script(r.day)) + 1)
  BY <1>2
<1>5. q \in Runs /\ q.day = r.day /\ q.at = to /\ q.saved = 0
  BY <1>3 DEF GoesTo
<1> QED
  BY <1>4, <1>5 DEF RunFits

\* A run that has just been started has saved nothing and holds nothing.
LEMMA FirstRun ==
    ASSUME NEW day \in Days
    PROVE  LET r == FreshRun("seed", day, 1) IN
           /\ r \in Runs /\ r.day = day /\ r.at = 1 /\ r.saved = 0
           /\ \A t \in Slugs : r.held[t] = ""
<1> DEFINE none == [t \in Slugs |-> ""]
           zero == [count |-> 0, sum |-> 0]
           r == FreshRun("seed", day, 1)
<1>1. none \in [Slugs -> SeenStatus] /\ zero \in Ratings /\ \A t \in Slugs : none[t] = ""
  BY DEF SeenStatus, Ratings
<1>2. r = [does |-> "seed", day |-> day, at |-> 1, saved |-> 0, held |-> none, read |-> zero]
  BY DEF FreshRun
<1>3. 1 \in Nat \ {0} /\ 0 \in Nat
  OBVIOUS
<1> HIDE DEF none, zero, r
<1>4. r \in Runs
  BY <1>1, <1>2, <1>3, Zenon DEF Runs
<1>5. r.day = day /\ r.at = 1 /\ r.saved = 0 /\ r.held = none
  BY <1>2, Zenon
<1>6. r \in Runs /\ r.day = day /\ r.at = 1 /\ r.saved = 0 /\ \A t \in Slugs : r.held[t] = ""
  BY <1>1, <1>4, <1>5
<1> QED
  BY <1>6 DEF r

\* The row that a run saves, and the tours after it.
SavedRow == Current.saves[run.saved + 1]
ToursAfterRow ==
    [t \in Slugs |-> IF SavedRow = TourRow(t) THEN [tours[t] EXCEPT !.status = "APPROVED"]
                                              ELSE tours[t]]

\* What saving one row leaves: the row, and the run there or at its next step.
LEMMA RowSaved ==
    ASSUME SeedTypeOK, SaveRow
    PROVE  /\ run # NoRun /\ run.at \in DOMAIN Script(run.day)
           /\ Current.does = "ensure" /\ run.saved + 1 \in DOMAIN Current.saves
           /\ db' = db \cup {SavedRow} /\ tours' = ToursAfterRow
           /\ ToursAfterRow \in [Slugs -> TourColumns]
           /\ run' = IF run.saved + 1 < Len(Current.saves) THEN [run EXCEPT !.saved = @ + 1]
                     ELSE GoOn(Script(run.day), run, run.at + 1, db', tours')
           /\ UNCHANGED <<runs, completed, cut, suspended, crossed>>
<1>1. run # NoRun /\ Running
  BY DEF SaveRow, Running
<1>2. /\ Steps = Script(run.day) /\ run.at \in DOMAIN Script(run.day)
      /\ Current \in ScriptSteps /\ run \in Runs
  BY <1>1, CurrentStep
<1>3. Current.saves \in Seq(RowKeys) /\ Current.saves # <<>>
  BY <1>2 DEF ScriptSteps
<1>4. Len(Current.saves) \in Nat \ {0} /\ DOMAIN Current.saves = 1..Len(Current.saves)
  BY <1>3, LenProperties, EmptySeq
<1>5. run.saved \in Nat /\ (run.saved > 0 => run.saved < Len(Current.saves))
  BY <1>1, <1>2 DEF SeedTypeOK, Runs
<1>6. tours \in [Slugs -> TourColumns]
  BY DEF SeedTypeOK, TourColumns
<1>7. ToursAfterRow \in [Slugs -> TourColumns]
  BY <1>6 DEF ToursAfterRow, TourColumns, SeenStatus
<1> QED
  BY <1>1, <1>2, <1>4, <1>5, <1>7 DEF SaveRow, SavedRow, ToursAfterRow

\* What it has saved of the step, the row that was looked for is there.
LEMMA SavesItsFirst ==
    ASSUME SeedTypeOK, SaveRow
    PROVE  Current.saves[1] \in db'
<1>1. /\ run # NoRun /\ run \in Runs /\ run.saved \in Nat /\ db' = db \cup {SavedRow}
      /\ run.at \in DOMAIN Script(run.day) /\ Current = Script(run.day)[run.at]
      /\ RunFits(run, db)
  BY RowSaved, CurrentStep DEF Runs
<1>2. CASE run.saved = 0
  BY <1>1, <1>2 DEF SavedRow
<1>3. CASE run.saved > 0
  BY <1>1, <1>3 DEF RunFits
<1> QED
  BY <1>1, <1>2, <1>3

\* Every step preserves the type invariant.
LEMMA SeedStepTyped ==
    ASSUME SeedTypeOK, [Next]_vars
    PROVE  SeedTypeOK'
<1>1. /\ tours \in [Slugs -> TourColumns] /\ runs \in 0..MaxRuns /\ MaxRuns \in Nat
      /\ completed \subseteq Days /\ (completed # {} => runs > 0)
      /\ suspended \subseteq Slugs /\ crossed \subseteq Slugs
  BY DatabaseAssumption DEF SeedTypeOK, TourColumns
<1>2. ASSUME NEW day \in Days, StartSeed(day)
      PROVE  SeedTypeOK'
  <2> DEFINE r == FreshRun("seed", day, 1)
  <2>1. runs + 1 \in 1..MaxRuns
    BY <1>1, <1>2 DEF StartSeed
  <2>2. Plan[runs + 1][day] = Script(day)
    BY <2>1, PlanIsScript
  <2>3. r \in Runs /\ r.day = day
    BY FirstRun
  <2>4. run' = GoOn(Script(r.day), r, 1, db, tours)
    BY <1>2, <2>2, <2>3 DEF StartSeed
  <2>5. 1 \in 1..(Len(Script(r.day)) + 1)
    BY <2>3, ScriptIsSeq
  <2> HIDE DEF r
  <2>6. RunFits(run', db)
    BY <1>1, <2>3, <2>4, <2>5, GoneOnFits
  <2> QED
    BY <1>1, <1>2, <2>1, <2>6, FittingRun DEF StartSeed
<1>3. CASE SaveRow
  <2>1. CASE run.saved + 1 < Len(Current.saves)
    <3>1. run' = [run EXCEPT !.saved = @ + 1] /\ run \in Runs /\ RunFits(run, db)
      BY <1>3, <2>1, RowSaved, CurrentStep
    <3>2. /\ run' \in Runs /\ run'.day = run.day /\ run'.at = run.at
          /\ run'.saved = run.saved + 1 /\ run.saved \in Nat
      BY <3>1 DEF Runs
    <3>3. db' = db \cup {SavedRow} /\ Current = Script(run.day)[run.at]
      BY <1>3, RowSaved, CurrentStep
    <3>4. \A i \in 1..(run.saved + 1) : Script(run.day)[run.at].saves[i] \in db'
      BY <3>1, <3>2, <3>3, <1>3, RowSaved DEF RunFits, SavedRow
    <3>5. RunFits(run', db')
      BY <3>1, <3>2, <3>3, <3>4, <2>1, <1>3, RowSaved DEF RunFits
    <3> QED
      BY <1>1, <1>3, <3>5, RowSaved, FittingRun DEF SeedTypeOK
  <2>2. CASE ~(run.saved + 1 < Len(Current.saves))
    <3>1. run \in Runs /\ run.at + 1 \in 1..(Len(Script(run.day)) + 1)
      BY <1>3, RowSaved, CurrentStep, ScriptIsSeq
    <3>2. RunFits(run', db')
      BY <3>1, <2>2, <1>3, RowSaved, GoneOnFits
    <3> QED
      BY <1>1, <1>3, <3>2, RowSaved, FittingRun DEF SeedTypeOK
  <2> QED
    BY <2>1, <2>2
<1>4. CASE ReadReviews
  <2>1. /\ run # NoRun /\ run \in Runs /\ run.at \in DOMAIN Script(run.day)
        /\ Current = Script(run.day)[run.at] /\ run.day \in Days
    BY <1>4, CurrentStep DEF ReadReviews, Running
  <2>2. Rating(Recomputed) \in Ratings
    BY <1>4, RecomputedTour, RatingTyped DEF ReadReviews
  <2>3. /\ run' \in Runs /\ run'.day = run.day /\ run'.at = run.at + 1
        /\ run'.saved = run.saved
    <3> DEFINE x == Rating(Recomputed)
    <3>1. run' = [run EXCEPT !.at = run.at + 1, !.read = x] /\ run.at + 1 \in Nat \ {0}
      BY <1>4, <2>1, CurrentStep DEF ReadReviews
    <3> HIDE DEF x
    <3> QED
      BY <2>1, <2>2, <3>1 DEF Runs, x
  <2>4. run.saved = 0
    BY <1>4, <2>1 DEF SeedTypeOK, ReadReviews, Runs
  <2>5. run.at + 1 \in 1..(Len(Script(run.day)) + 1)
    BY <2>1, ScriptIsSeq
  <2>6. RunFits(run', db)
    BY <2>3, <2>4, <2>5 DEF RunFits
  <2> QED
    BY <1>1, <1>4, <2>1, <2>6, FittingRun DEF ReadReviews, SeedTypeOK
<1>5. CASE SaveTour
  <2>1. /\ run # NoRun /\ run \in Runs /\ run.at \in DOMAIN Script(run.day)
        /\ Steps = Script(run.day) /\ run.day \in Days
    BY <1>5, CurrentStep DEF SaveTour, Running
  <2>2. Recomputed \in Slugs
    BY <1>5, RecomputedTour DEF SaveTour
  <2>3. tours' \in [Slugs -> TourColumns]
    BY <1>1, <1>5, <2>1, <2>2 DEF SaveTour, TourColumns, Runs, Ratings
  <2>4. run.at + 1 \in 1..(Len(Script(run.day)) + 1)
    BY <2>1, ScriptIsSeq
  <2>5. run' = GoOn(Script(run.day), run, run.at + 1, db, tours')
    BY <1>5, <2>1 DEF SaveTour
  <2>6. RunFits(run', db)
    BY <2>1, <2>3, <2>4, <2>5, GoneOnFits
  <2> QED
    BY <1>1, <1>5, <2>1, <2>3, <2>6, FittingRun DEF SaveTour, SeedTypeOK
<1>6. CASE EndSeed
  <2>1. run.day \in Days /\ runs > 0
    BY <1>6, CurrentStep DEF EndSeed, SeedTypeOK
  <2> QED
    BY <1>1, <1>6, <2>1, FittingRun DEF EndSeed
<1>7. CASE CrashSeed
  BY <1>1, <1>7, FittingRun DEF CrashSeed
<1>8. ASSUME run' = run, db \subseteq db', runs' = runs, completed' = completed,
             tours' \in [Slugs -> TourColumns],
             suspended' \subseteq Slugs, crossed' \subseteq Slugs
      PROVE  SeedTypeOK'
  <2>1. CASE run = NoRun
    BY <1>1, <1>8, <2>1, FittingRun
  <2>2. CASE run # NoRun
    <3>1. RunFits(run, db)
      BY <2>2, CurrentStep
    <3>2. RunFits(run', db')
      BY <1>8, <3>1 DEF RunFits
    <3> QED
      BY <1>1, <1>8, <2>2, <3>2, FittingRun DEF SeedTypeOK
  <2> QED
    BY <2>1, <2>2
<1>9. ASSUME NEW t \in Watched, PostReview(t)
      PROVE  SeedTypeOK'
  <2>1. t \in Slugs /\ Stars \in Nat
    BY DatabaseAssumption DEF Slugs
  <2>2. tours' \in [Slugs -> TourColumns]
    <3> DEFINE now == [status |-> tours[t].status, count |-> tours[t].count + 1,
                       sum |-> tours[t].sum + Stars]
    <3>1. tours' = [tours EXCEPT ![t] = now]
      BY <1>9 DEF PostReview
    <3>2. tours[t].status \in SeenStatus /\ tours[t].count \in Nat /\ tours[t].sum \in Nat
      BY <1>1, <2>1 DEF TourColumns
    <3>3. now \in TourColumns
      BY <2>1, <3>2 DEF TourColumns
    <3> HIDE DEF now
    <3> QED
      BY <1>1, <2>1, <3>1, <3>3
  <2>3. crossed' \subseteq Slugs /\ suspended' \subseteq Slugs
    BY <1>1, <1>9, <2>1 DEF PostReview, Deed
  <2> QED
    BY <1>8, <1>9, <2>2, <2>3 DEF PostReview, Deed
<1>10. ASSUME NEW t \in Watched, SuspendTour(t)
      PROVE  SeedTypeOK'
  <2>1. t \in Slugs
    BY DatabaseAssumption DEF Slugs
  <2>2. tours' \in [Slugs -> TourColumns]
    BY <1>1, <1>10, <2>1 DEF SuspendTour, TourColumns, SeenStatus
  <2>3. crossed' \subseteq Slugs /\ suspended' \subseteq Slugs
    BY <1>1, <1>10, <2>1 DEF SuspendTour, Deed
  <2> QED
    BY <1>8, <1>10, <2>2, <2>3 DEF SuspendTour, Deed
<1>11. ASSUME UNCHANGED seedVars
       PROVE  SeedTypeOK'
  BY <1>1, <1>8, <1>11 DEF seedVars
<1>12. CASE MigrationRun \/ MigrationRevert \/ Execute \/ RollBack \/ StoreValue \/ UNCHANGED vars
  BY <1>11, <1>12 DEF MigrationRun, MigrationRevert, Begin, Execute, RollBack, StoreValue, vars
<1> QED
  BY <1>2, <1>3, <1>4, <1>5, <1>6, <1>7, <1>9, <1>10, <1>12 DEF Next, Days

\* Whatever the service and crashes do, a run is at a step of its day's script, its
\* half-saved rows are there, and the tours have the columns of their entity
\* (seed(), Tour).
THEOREM SeedTypeCorrect == Spec => []SeedTypeOK
<1>1. Init => SeedTypeOK
  <2> SUFFICES ASSUME Init PROVE SeedTypeOK
    OBVIOUS
  <2> DEFINE blank == [status |-> "", count |-> 0, sum |-> 0]
             columns == [status : SeenStatus, count : Nat, sum : Nat]
  <2>1. 0 \in Nat /\ "" \in SeenStatus
    BY DEF SeenStatus
  <2>2. blank \in columns
    BY <2>1, Zenon
  <2>3. tours = [t \in Slugs |-> blank]
    BY DEF Init
  <2> HIDE DEF blank, columns
  <2>4. tours \in [Slugs -> columns]
    BY <2>2, <2>3
  <2>5. run = NoRun /\ runs = 0 /\ completed = {} /\ suspended = {} /\ crossed = {}
    BY DEF Init
  <2>6. 0 \in 0..MaxRuns
    BY DatabaseAssumption
  <2> QED
    BY <2>4, <2>5, <2>6 DEF SeedTypeOK, Running, columns
<1>2. SeedTypeOK /\ [Next]_vars => SeedTypeOK'
  BY SeedStepTyped
<1> QED
  BY <1>1, <1>2, PTL DEF Spec

-----------------------------------------------------------------------------
(* A run leaves all of its rows, and a second one adds none.               *)

\* The parts of RunsFindRows, of a run q on a database with these rows.
FoundBefore(steps, from, rows) ==
    \A k \in 1..(from - 1) : steps[k].does = "ensure" => steps[k].saves[1] \in rows
RunFound(q, rows, ended) ==
    LET steps == Script(q.day) IN
    /\ FoundBefore(steps, q.at, rows)
    /\ q.saved = 0 /\ q.at \in DOMAIN steps => Due(steps[q.at], rows)
    /\ q.day \in ended => q.saved = 0
Saving(q, s) ==
    q # NoRun /\ q.saved > 0 /\ q.at \in DOMAIN Script(q.day) /\ Script(q.day)[q.at].saves = s.saves
FirstAreWhole(q, rows, gone) ==
    \A day \in Days : \A s \in ToSet(Script(day)) :
        s.does = "ensure" /\ s.saves[1] \in rows =>
            ToSet(s.saves) \subseteq rows \cup gone \/ Saving(q, s)

\* Where the run stands after a step, by the type invariant.
LEMMA CurrentStepNext ==
    ASSUME SeedTypeOK', run' # NoRun
    PROVE  /\ run' \in Runs /\ run'.day \in Days
           /\ Steps' = Script(run'.day)
           /\ Running' <=> run'.at \in DOMAIN Script(run'.day)
           /\ Current' = Script(run'.day)[run'.at]
           /\ runs' \in 1..MaxRuns
<1>1. run' \in Runs /\ run'.day \in Days /\ run'.at \in 1..(Len(Script(run'.day)) + 1)
  BY DEF SeedTypeOK, Runs
<1>2. runs' \in 1..MaxRuns
  BY DatabaseAssumption DEF SeedTypeOK
<1>3. Steps' = Script(run'.day)
  BY <1>1, <1>2, PlanIsScript DEF Steps
<1>4. Len(Steps') \in Nat /\ DOMAIN Steps' = 1..Len(Steps')
  BY <1>1, <1>3, ScriptIsSeq
<1>5. Running' <=> run'.at \in DOMAIN Steps'
  BY <1>1, <1>3, <1>4 DEF Running
<1> QED
  BY <1>1, <1>2, <1>3, <1>5 DEF Current

\* RunsFindRows, with the run and the rows as parameters.
LEMMA RowsFound ==
    ASSUME SeedTypeOK, RunsFindRows
    PROVE  /\ \A day \in completed : Found(ToSet(Script(day)), db)
           /\ run # NoRun => RunFound(run, db, completed)
           /\ FirstAreWhole(run, db, cut)
<1>1. ASSUME run # NoRun PROVE RunFound(run, db, completed)
  BY <1>1, CurrentStep DEF RunsFindRows, RunFound, FoundBefore, Found
<1>2. ASSUME NEW s, InTheMiddle(s) PROVE Saving(run, s)
  BY <1>2, CurrentStep DEF InTheMiddle, Saving, Running
<1> QED
  BY <1>1, <1>2 DEF RunsFindRows, FirstAreWhole

\* What to show of a step for RunsFindRows.
LEMMA FoundRows ==
    ASSUME SeedTypeOK',
           \A day \in completed' : Found(ToSet(Script(day)), db'),
           run' # NoRun => RunFound(run', db', completed'),
           FirstAreWhole(run', db', cut')
    PROVE  RunsFindRows'
<1>1. ASSUME run' # NoRun
      PROVE  /\ Found({Script(run'.day)[k] : k \in 1..(run'.at - 1)}, db')
             /\ run'.saved = 0 /\ Running' => Due(Current', db')
             /\ run'.day \in completed' => run'.saved = 0
  BY <1>1, CurrentStepNext DEF RunFound, FoundBefore, Found
<1>2. ASSUME NEW s, Saving(run', s) PROVE InTheMiddle(s)'
  BY <1>2, CurrentStepNext DEF InTheMiddle, Saving, Running
<1> QED
  BY <1>1, <1>2 DEF RunsFindRows, FirstAreWhole

\* A run that goes on has found what it passes, and stands at a step that is due.
LEMMA GoneOnFinds ==
    ASSUME NEW r \in Runs, NEW from \in 1..(Len(Script(r.day)) + 1),
           NEW rows, NEW now \in [Slugs -> TourColumns], NEW ended,
           FoundBefore(Script(r.day), from, rows),
           NEW q, q = GoOn(Script(r.day), r, from, rows, now)
    PROVE  RunFound(q, rows, ended)
<1> DEFINE s == Script(r.day)
<1>1. r.day \in Days
  BY DEF Runs
<1>2. Len(s) \in Nat
  BY <1>1, ScriptIsSeq
<1>3. PICK to \in from..(Len(s) + 1) : GoesTo(q, s, r, from, rows, now, to)
  BY <1>1, GoesOn
<1>4. \A k \in 1..(to - 1) : s[k].does = "ensure" => s[k].saves[1] \in rows
  BY <1>2, <1>3 DEF FoundBefore, GoesTo
<1> HIDE DEF s
<1> QED
  BY <1>3, <1>4 DEF RunFound, FoundBefore, GoesTo, s

\* A step at a position of the script is one of its steps.
LEMMA StepIsElement ==
    ASSUME NEW day \in Days, NEW k \in DOMAIN Script(day)
    PROVE  Script(day)[k] \in ToSet(Script(day))
  BY DEF ToSet


\* A saved row makes no row whole or broken but those of the step that saves it.
LEMMA RowsAfterSave ==
    ASSUME SeedTypeOK, FirstAreWhole(run, db, cut), SaveRow,
           NEW day \in Days, NEW s \in ToSet(Script(day)), s.does = "ensure", s.saves[1] \in db'
    PROVE  ToSet(s.saves) \subseteq db' \cup cut' \/ s.saves = Current.saves
<1>1. /\ db' = db \cup {SavedRow} /\ run # NoRun /\ run.at \in DOMAIN Script(run.day)
      /\ Current.does = "ensure" /\ run.saved + 1 \in DOMAIN Current.saves /\ cut' = cut
  BY RowSaved
<1>2. /\ run.day \in Days /\ Current = Script(run.day)[run.at] /\ run.saved \in Nat
      /\ Current \in ToSet(Script(run.day))
  BY <1>1, CurrentStep, StepIsElement DEF Runs
<1>3. CASE s.saves[1] \in db
  <2>1. ToSet(s.saves) \subseteq db \cup cut \/ Saving(run, s)
    BY <1>3 DEF FirstAreWhole
  <2> QED
    BY <1>1, <1>2, <2>1 DEF Saving
<1>4. CASE s.saves[1] = SavedRow
  <2>1. run.saved + 1 > 1 => SavedRow # s.saves[1]
    BY <1>1, <1>2, FirstTells DEF SavedRow
  <2>2. run.saved + 1 = 1
    BY <1>2, <1>4, <2>1
  <2>3. Current.saves[1] = s.saves[1]
    BY <1>4, <2>2 DEF SavedRow
  <2> QED
    BY <1>1, <1>2, <2>3, FirstTells
<1> QED
  BY <1>1, <1>3, <1>4

\* Nothing is saved on a day of which a run has ended.
LEMMA SaveIsFirst ==
    ASSUME SeedTypeOK, RunsFindRows, SaveRow
    PROVE  run.day \notin completed
<1> SUFFICES ASSUME run.day \in completed PROVE FALSE
  OBVIOUS
<1>1. /\ run # NoRun /\ run.at \in DOMAIN Script(run.day) /\ run.day \in Days
      /\ Current.does = "ensure" /\ Current = Script(run.day)[run.at]
  BY RowSaved, CurrentStep
<1>2. Current.saves[1] \in db
  BY <1>1, StepIsElement, RowsFound DEF Found
<1>3. Due(Current, db)
  BY <1>1, RowsFound DEF RunFound
<1> QED
  BY <1>1, <1>2, <1>3 DEF Due

\* Every step preserves RunsFindRows.
LEMMA StepFindsRows ==
    ASSUME SeedTypeOK, RunsFindRows, [Next]_vars
    PROVE  RunsFindRows'
<1>1. /\ SeedTypeOK'
      /\ \A day \in completed : Found(ToSet(Script(day)), db)
      /\ run # NoRun => RunFound(run, db, completed)
      /\ FirstAreWhole(run, db, cut)
      /\ tours \in [Slugs -> TourColumns]
  BY SeedStepTyped, RowsFound DEF SeedTypeOK, TourColumns
<1>2. ASSUME run.saved = 0 \/ run = NoRun, db' = db, cut' = cut
      PROVE  FirstAreWhole(run', db', cut')
  BY <1>1, <1>2 DEF FirstAreWhole, Saving
<1>3. ASSUME NEW day \in Days, StartSeed(day)
      PROVE  RunsFindRows'
  <2> DEFINE r == FreshRun("seed", day, 1)
  <2>1. runs + 1 \in 1..MaxRuns
    BY <1>3, DatabaseAssumption DEF StartSeed, SeedTypeOK
  <2>2. Plan[runs + 1][day] = Script(day)
    BY <2>1, PlanIsScript
  <2>3. r \in Runs /\ r.day = day
    BY FirstRun
  <2>4. run' = GoOn(Script(r.day), r, 1, db', tours) /\ run = NoRun
        /\ db' = db /\ cut' = cut /\ completed' = completed
    BY <1>3, <2>2, <2>3 DEF StartSeed
  <2>5. 1 \in 1..(Len(Script(r.day)) + 1) /\ FoundBefore(Script(r.day), 1, db')
    BY <2>3, ScriptIsSeq DEF FoundBefore
  <2> HIDE DEF r
  <2>6. RunFound(run', db', completed')
    BY <1>1, <2>3, <2>4, <2>5, GoneOnFinds
  <2> QED
    BY <1>1, <1>2, <2>4, <2>6, FoundRows
<1>4. CASE SaveRow
  <2>1. /\ db' = db \cup {SavedRow} /\ run # NoRun /\ run.at \in DOMAIN Script(run.day)
        /\ Current.does = "ensure" /\ completed' = completed /\ cut' = cut
        /\ run \in Runs /\ run.day \in Days /\ Current = Script(run.day)[run.at]
        /\ run.saved \in Nat /\ run.at \in Nat \ {0}
    BY <1>4, RowSaved, CurrentStep DEF Runs
  <2>2. \A d \in completed' : Found(ToSet(Script(d)), db')
    BY <1>1, <2>1 DEF Found
  <2>3. run.day \notin completed
    BY <1>4, SaveIsFirst
  <2>4. CASE run.saved + 1 < Len(Current.saves)
    <3>1. run' = [run EXCEPT !.saved = @ + 1]
      BY <1>4, <2>4, RowSaved
    <3>2. run'.day = run.day /\ run'.at = run.at /\ run'.saved = run.saved + 1
      BY <2>1, <3>1 DEF Runs
    <3>3. RunFound(run', db', completed')
      BY <1>1, <2>1, <2>3, <3>2 DEF RunFound, FoundBefore
    <3>4. run' # NoRun
      BY <2>1, <3>1, NoRunIsNone DEF Runs
    <3>5. ASSUME NEW s, s.saves = Current.saves PROVE Saving(run', s)
      BY <2>1, <3>2, <3>4, <3>5 DEF Saving
    <3>6. FirstAreWhole(run', db', cut')
      BY <1>1, <1>4, <3>5, RowsAfterSave DEF FirstAreWhole
    <3> QED
      BY <1>1, <2>2, <3>3, <3>6, FoundRows
  <2>5. CASE ~(run.saved + 1 < Len(Current.saves))
    <3>1. run' = GoOn(Script(run.day), run, run.at + 1, db', tours')
      BY <1>4, <2>5, RowSaved
    <3>2. \A i \in DOMAIN Current.saves : Current.saves[i] \in db'
      <4>1. Current.saves \in Seq(RowKeys)
        BY <2>1, CurrentStep DEF ScriptSteps
      <4>2. Len(Current.saves) \in Nat /\ DOMAIN Current.saves = 1..Len(Current.saves)
        BY <4>1, LenProperties
      <4>3. \A i \in 1..run.saved : Current.saves[i] \in db
        BY <2>1, CurrentStep DEF RunFits
      <4>4. \A i \in 1..(run.saved + 1) : Current.saves[i] \in db'
        BY <2>1, <4>3 DEF SavedRow
      <4> QED
        BY <2>1, <2>5, <4>2, <4>4
    <3>3. Current.saves[1] \in db'
      BY <1>4, <2>1, <3>2, RowSaved DEF Running
    <3>4. FoundBefore(Script(run.day), run.at + 1, db')
      BY <1>1, <2>1, <3>3 DEF RunFound, FoundBefore
    <3>5. run.at + 1 \in 1..(Len(Script(run.day)) + 1) /\ tours' \in [Slugs -> TourColumns]
      BY <1>4, <2>1, ScriptIsSeq, RowSaved
    <3>6. RunFound(run', db', completed')
      BY <2>1, <3>1, <3>4, <3>5, GoneOnFinds
    <3>7. ASSUME NEW s, s.saves = Current.saves PROVE ToSet(s.saves) \subseteq db'
      BY <3>2, <3>7 DEF ToSet
    <3>8. FirstAreWhole(run', db', cut')
      BY <1>1, <1>4, <3>7, RowsAfterSave DEF FirstAreWhole
    <3> QED
      BY <1>1, <2>2, <3>6, <3>8, FoundRows
  <2> QED
    BY <2>4, <2>5
<1>5. ASSUME ReadReviews \/ SaveTour
      PROVE  RunsFindRows'
  <2>1. /\ run # NoRun /\ run \in Runs /\ run.day \in Days /\ run.at \in DOMAIN Script(run.day)
        /\ Current = Script(run.day)[run.at] /\ Current.does # "ensure"
        /\ Steps = Script(run.day) /\ run.at \in Nat \ {0}
    BY <1>5, CurrentStep DEF ReadReviews, SaveTour, Running
  <2>2. run.saved = 0
    BY <1>5, <2>1 DEF SeedTypeOK, ReadReviews, SaveTour, Runs
  <2>3. db' = db /\ cut' = cut /\ completed' = completed
    BY <1>5 DEF ReadReviews, SaveTour
  <2>4. FirstAreWhole(run', db', cut')
    BY <1>2, <2>2, <2>3
  <2>5. FoundBefore(Script(run.day), run.at + 1, db')
    BY <1>1, <2>1, <2>3 DEF RunFound, FoundBefore
  <2>6. CASE ReadReviews
    <3>1. run'.day = run.day /\ run'.at = run.at + 1 /\ run'.saved = 0
      BY <2>1, <2>2, <2>6 DEF ReadReviews, Runs
    <3>2. Script(run.day)[run.at + 1].does = "save"
      BY <2>1, <2>6, ComeLast DEF ReadReviews
    <3>3. Due(Script(run'.day)[run'.at], db')
      BY <3>1, <3>2 DEF Due
    <3>4. RunFound(run', db', completed')
      BY <2>5, <3>1, <3>3 DEF RunFound
    <3> QED
      BY <1>1, <2>3, <2>4, <3>4, FoundRows
  <2>7. CASE SaveTour
    <3>1. run' = GoOn(Script(run.day), run, run.at + 1, db', tours')
      BY <2>1, <2>7 DEF SaveTour
    <3>2. run.at + 1 \in 1..(Len(Script(run.day)) + 1) /\ tours' \in [Slugs -> TourColumns]
      BY <1>1, <2>1, ScriptIsSeq DEF SeedTypeOK, TourColumns
    <3>3. RunFound(run', db', completed')
      BY <2>1, <2>5, <3>1, <3>2, GoneOnFinds
    <3> QED
      BY <1>1, <2>3, <2>4, <3>3, FoundRows
  <2> QED
    BY <1>5, <2>6, <2>7
<1>6. CASE EndSeed
  <2>1. /\ run # NoRun /\ run.day \in Days /\ run.at > Len(Script(run.day))
        /\ run.at \in Nat \ {0} /\ run' = NoRun /\ db' = db /\ cut' = cut
        /\ completed' = completed \cup {run.day}
    BY <1>6, CurrentStep DEF EndSeed
  <2>2. run.at \notin DOMAIN Script(run.day)
    BY <2>1, ScriptIsSeq
  <2>3. FirstAreWhole(run', db', cut')
    BY <1>1, <2>1, <2>2 DEF FirstAreWhole, Saving
  <2>4. ASSUME NEW s \in ToSet(Script(run.day)), s.does = "ensure"
        PROVE  s.saves[1] \in db
    <3>1. PICK k \in DOMAIN Script(run.day) : s = Script(run.day)[k]
      BY DEF ToSet
    <3>2. k \in 1..(run.at - 1)
      BY <2>1, ScriptIsSeq
    <3> QED
      BY <1>1, <2>1, <2>4, <3>1, <3>2 DEF RunFound, FoundBefore
  <2>5. \A d \in completed' : Found(ToSet(Script(d)), db')
    BY <1>1, <2>1, <2>4 DEF Found
  <2> QED
    BY <1>1, <2>1, <2>3, <2>5, FoundRows
<1>7. CASE CrashSeed
  <2>1. run # NoRun /\ run' = NoRun /\ db' = db /\ completed' = completed
    BY <1>7 DEF CrashSeed, Running
  <2>2. CASE run.saved = 0
    BY <1>1, <1>2, <1>7, <2>1, <2>2, FoundRows DEF CrashSeed
  <2>3. CASE run.saved # 0
    <3>1. cut' = cut \cup ToSet(SubSeq(Current.saves, run.saved + 1, Len(Current.saves)))
      BY <1>7, <2>3 DEF CrashSeed
    <3>2. /\ run.saved \in Nat /\ Current.saves \in Seq(RowKeys)
          /\ Current = Script(run.day)[run.at] /\ run.at \in DOMAIN Script(run.day)
          /\ \A i \in 1..run.saved : Current.saves[i] \in db
          /\ run.saved < Len(Current.saves)
      BY <1>7, <2>1, <2>3, CurrentStep DEF CrashSeed, RunFits, ScriptSteps, Runs
    <3>3. ASSUME NEW row \in ToSet(Current.saves) PROVE row \in db' \cup cut'
      <4> DEFINE n == Len(Current.saves)
      <4>1. n \in Nat /\ DOMAIN Current.saves = 1..n
        BY <3>2, LenProperties
      <4>2. PICK i \in 1..n : row = Current.saves[i]
        BY <4>1 DEF ToSet
      <4>3. CASE i \in 1..run.saved
        BY <2>1, <3>2, <4>2, <4>3
      <4>4. CASE i > run.saved
        <5>1. run.saved \in 0..n /\ i \in (run.saved + 1)..n
          BY <3>2, <4>1, <4>2, <4>4
        <5> QED
          BY <3>1, <3>2, <4>2, <5>1, RestHolds
      <4> QED
        BY <3>2, <4>1, <4>2, <4>3, <4>4
    <3>4. FirstAreWhole(run', db', cut')
      <4> SUFFICES ASSUME NEW d \in Days, NEW s \in ToSet(Script(d)),
                          s.does = "ensure", s.saves[1] \in db
                   PROVE  ToSet(s.saves) \subseteq db' \cup cut'
        BY <2>1 DEF FirstAreWhole
      <4>1. ToSet(s.saves) \subseteq db \cup cut \/ s.saves = Current.saves
        BY <1>1, <3>2 DEF FirstAreWhole, Saving
      <4> QED
        BY <2>1, <3>1, <3>3, <4>1
    <3> QED
      BY <1>1, <2>1, <3>4, FoundRows
  <2> QED
    BY <2>2, <2>3
<1>8. ASSUME UNCHANGED <<run, runs, completed, cut>>, db' = db
      PROVE  RunsFindRows'
  BY <1>1, <1>8, FoundRows
<1>9. ASSUME NEW t \in Watched, PostReview(t)
      PROVE  RunsFindRows'
  <2>1. t \in Slugs /\ db' = db \cup {LiveReview(t)}
        /\ UNCHANGED <<run, runs, completed, cut>>
    BY <1>9, DatabaseAssumption DEF Slugs, PostReview, Deed
  <2>2. ASSUME NEW d \in Days, NEW s \in ToSet(Script(d)), s.does = "ensure"
        PROVE  s.saves[1] # LiveReview(t)
    <3>1. s.saves \in Seq(RowKeys) /\ s.saves # <<>>
      BY ScriptIsSeq DEF ToSet, ScriptSteps
    <3>2. 1 \in DOMAIN s.saves
      BY <3>1, LenProperties, EmptySeq
    <3> QED
      BY <2>1, <2>2, <3>2, FirstTells
  <2>3. \A d \in completed' : Found(ToSet(Script(d)), db')
    BY <1>1, <2>1 DEF Found
  <2>4. FirstAreWhole(run', db', cut')
    BY <1>1, <2>1, <2>2 DEF FirstAreWhole
  <2>5. ASSUME run' # NoRun PROVE RunFound(run', db', completed')
    <3>1. RunFound(run, db, completed) /\ run' = run /\ run.day \in Days
      BY <1>1, <2>1, <2>5, CurrentStep
    <3>2. ASSUME run.at \in DOMAIN Script(run.day), Due(Script(run.day)[run.at], db)
          PROVE  Due(Script(run.day)[run.at], db')
      BY <2>1, <2>2, <3>1, <3>2, StepIsElement DEF Due
    <3> QED
      BY <2>1, <3>1, <3>2 DEF RunFound, FoundBefore
  <2> QED
    BY <1>1, <2>3, <2>4, <2>5, FoundRows
<1>10. ASSUME NEW t \in Watched, SuspendTour(t)
      PROVE  RunsFindRows'
  BY <1>8, <1>10 DEF SuspendTour, Deed
<1>11. CASE MigrationRun \/ MigrationRevert \/ Execute \/ RollBack \/ StoreValue \/ UNCHANGED vars
  BY <1>8, <1>11 DEF MigrationRun, MigrationRevert, Begin, Execute, RollBack, StoreValue, vars,
                     seedVars
<1> QED
  BY <1>3, <1>4, <1>5, <1>6, <1>7, <1>9, <1>10, <1>11 DEF Next, Days

\* Of the rows that a run looks for, those that it has passed are there, and a row
\* that is there has those that go with it, but for what is being saved and for what
\* a crash cut off (seed(), which looks for the first row only).
THEOREM RowsStayFound == Spec => []RunsFindRows
<1>1. Init => RunsFindRows
  BY DEF Init, RunsFindRows
<1>2. SeedTypeOK /\ RunsFindRows /\ [Next]_vars => RunsFindRows'
  BY StepFindsRows
<1> QED
  BY <1>1, <1>2, SeedTypeCorrect, PTL DEF Spec

\* A run of the seed script that ends has left every row of its day, for any
\* number of runs, crashes and deeds of the service before it, but for what a crash
\* cut off from the row that it goes with (seed(), ensure by its key).
THEOREM RunsLeaveAll == Spec => []CompletedRunsLeaveAll
<1>1. SeedTypeOK /\ RunsFindRows => CompletedRunsLeaveAll
  <2> SUFFICES ASSUME SeedTypeOK, RunsFindRows, run = NoRun, NEW day \in completed
               PROVE  \A k \in DOMAIN Plan[1][day] :
                          ToSet(Plan[1][day][k].saves) \subseteq db \cup cut
    BY DEF CompletedRunsLeaveAll
  <2>1. day \in Days /\ 1 \in 1..MaxRuns
    BY DatabaseAssumption DEF SeedTypeOK
  <2>2. Plan[1][day] = Script(day)
    BY <2>1, PlanIsScript
  <2> SUFFICES ASSUME NEW k \in DOMAIN Script(day)
               PROVE  ToSet(Script(day)[k].saves) \subseteq db \cup cut
    BY <2>2
  <2> DEFINE s == Script(day)[k]
  <2>3. s \in ToSet(Script(day)) /\ s \in ScriptSteps
    BY <2>1, StepIsElement, ScriptIsSeq
  <2>4. /\ \A r \in ToSet(Script(day)) : r.does = "ensure" => r.saves[1] \in db
        /\ FirstAreWhole(run, db, cut)
    BY RowsFound DEF Found
  <2>5. CASE s.does = "ensure"
    BY <2>1, <2>3, <2>4, <2>5 DEF FirstAreWhole, Saving
  <2>6. CASE s.does # "ensure"
    <3>1. s.does \in {"read", "save"}
      BY <2>3, <2>6 DEF ScriptSteps
    <3>2. PICK t \in Slugs : s.saves = <<TourRow(t)>>
      BY <2>1, <3>1, OneTour
    <3>3. PICK j \in DOMAIN Script(day) : LooksFor(Script(day)[j], TourRow(t))
      <4>1. PICK i \in DOMAIN Script(day) :
               \E j \in 1..(i - 1) : LooksFor(Script(day)[j], TourRow(t))
        BY <2>1, ComeLast
      <4>2. \A j \in 1..(i - 1) : j \in DOMAIN Script(day)
        BY <2>1, ScriptIsSeq
      <4> QED
        BY <4>1, <4>2
    <3>4. TourRow(t) \in db
      BY <2>1, <2>4, <3>3, StepIsElement DEF LooksFor
    <3>5. ToSet(<<TourRow(t)>>) = {TourRow(t)}
      BY DEF ToSet
    <3> QED
      BY <3>2, <3>4, <3>5
  <2> QED
    BY <2>5, <2>6
<1> QED
  BY <1>1, SeedTypeCorrect, RowsStayFound, PTL

\* A run on a day of which a run has ended adds no row, wherever other runs were
\* stopped and whatever the service did in between (seed(), which looks for every
\* row before it saves it).
THEOREM SeedingAgain == Spec => SeedingAgainAddsNothing
<1>1. SeedTypeOK /\ RunsFindRows /\ [Next]_vars =>
         [run # NoRun /\ run.day \in completed /\ run' # run => db' = db]_vars
  <2> SUFFICES ASSUME SeedTypeOK, RunsFindRows, [Next]_vars,
                      run.day \in completed, run' # run
               PROVE  db' = db
    OBVIOUS
  <2>1. ~SaveRow
    BY SaveIsFirst
  <2> QED
    BY <2>1 DEF Next, MigrationRun, MigrationRevert, Begin, Execute, RollBack, StoreValue,
                seedVars, vars, StartSeed, ReadReviews, SaveTour, EndSeed, CrashSeed,
                PostReview, SuspendTour, Deed
<1> QED
  BY <1>1, SeedTypeCorrect, RowsStayFound, PTL DEF Spec, SeedingAgainAddsNothing

-----------------------------------------------------------------------------
(* What a run holds of the tours, and their ratings.                       *)

\* The parts of RunsHoldTours, for the tour t as it is now, of a run q on a
\* database with these rows.
Looked(q, t) == \E k \in 1..(q.at - 1) : LooksFor(Script(q.day)[k], TourRow(t))
Ahead(steps, from, t) == \E k \in from..Len(steps) : Saves(steps[k], t)
StandsAtSave(q, t) == q.at \in DOMAIN Script(q.day) /\ Saves(Script(q.day)[q.at], t)
IsSettled(q, ended, t) == ended # {} \/ (q # NoRun /\ ~Ahead(Script(q.day), q.at, t))
Known(t, rows, now) == TourRow(t) \in rows => now.status # ""
Holds(q, t) == Looked(q, t) => q.held[t] # ""
Seen(q, t, rows, now, ended) ==
    /\ Known(t, rows, now)
    /\ q # NoRun => Holds(q, t)
    /\ IsSettled(q, ended, t) => \A n \in SeededReviews(t) : Review(n) \in rows
Kept(q, t, now) ==
    /\ now.status = "SUSPENDED"
    /\ q # NoRun /\ Ahead(Script(q.day), q.at, t) => q.held[t] \in {"", "SUSPENDED"}
Rated(q, t, now, ended, rating) ==
    /\ IsSettled(q, ended, t) => now.count = rating.count /\ now.sum = rating.sum
    /\ q # NoRun /\ StandsAtSave(q, t) => q.read = rating

NotAfterRead(steps, from) == from - 1 \in DOMAIN steps => steps[from - 1].does # "read"

\* Two ratings are the same if count and sum are.
LEMMA SameRating == \A t, a, b : RatingOf(t) = [count |-> a, sum |-> b] <=>
                                    tours[t].count = a /\ tours[t].sum = b
  BY DEF RatingOf

\* The rating of the reviews is its count and its sum.
LEMMA RatingIs ==
    ASSUME NEW t
    PROVE  Rating(t) = [count |-> Rating(t).count, sum |-> Rating(t).sum]
  BY DEF Rating

\* The same after a step.
LEMMA RatingIsNext ==
    ASSUME NEW t
    PROVE  Rating(t)' = [count |-> Rating(t)'.count, sum |-> Rating(t)'.sum]
  BY DEF Rating

\* RunsHoldTours, for one tour.
LEMMA ToursHeld ==
    ASSUME SeedTypeOK, RunsHoldTours, NEW t \in Slugs
    PROVE  /\ Seen(run, t, db, tours[t], completed)
           /\ t \in suspended => TourRow(t) \in db
           /\ t \in suspended \ crossed => Kept(run, t, tours[t])
           /\ t \notin crossed => Rated(run, t, tours[t], completed, Rating(t))
<1>1. run # NoRun => /\ Steps = Script(run.day) /\ Current = Script(run.day)[run.at]
                     /\ Running <=> run.at \in DOMAIN Script(run.day)
  BY CurrentStep
<1>2. run # NoRun => (StillToSave(t) <=> Ahead(Script(run.day), run.at, t))
  BY <1>1 DEF StillToSave, Ahead, Saves
<1>3. Settled(t) <=> IsSettled(run, completed, t)
  BY <1>2 DEF Settled, IsSettled
<1>4. run # NoRun /\ StandsAtSave(run, t) => Running /\ Saves(Current, t)
  BY <1>1 DEF StandsAtSave
<1>5. RatingOf(t) = Rating(t) => tours[t].count = Rating(t).count /\ tours[t].sum = Rating(t).sum
  BY RatingIs, SameRating
<1>6. Seen(run, t, db, tours[t], completed)
  BY <1>3 DEF Seen, RunsHoldTours, Known, Holds, Looked
<1>7. t \in suspended \ crossed => Kept(run, t, tours[t])
  BY <1>2 DEF Kept, RunsHoldTours
<1>8. t \notin crossed => Rated(run, t, tours[t], completed, Rating(t))
  BY <1>3, <1>4, <1>5 DEF Rated, RunsHoldTours
<1>9. t \in suspended => TourRow(t) \in db
  BY DEF RunsHoldTours
<1> QED
  BY <1>6, <1>7, <1>8, <1>9

\* What to show of each tour for RunsHoldTours after a step.
LEMMA HeldTours ==
    ASSUME SeedTypeOK',
           \A t \in Slugs :
               /\ Seen(run', t, db', tours'[t], completed')
               /\ t \in suspended' => TourRow(t) \in db'
               /\ t \in suspended' \ crossed' => Kept(run', t, tours'[t])
               /\ t \notin crossed' => Rated(run', t, tours'[t], completed', Rating(t)')
    PROVE  RunsHoldTours'
<1>1. run' # NoRun => /\ Steps' = Script(run'.day) /\ Current' = Script(run'.day)[run'.at]
                      /\ Running' <=> run'.at \in DOMAIN Script(run'.day)
  BY CurrentStepNext
<1>2. \A t : run' # NoRun => (StillToSave(t)' <=> Ahead(Script(run'.day), run'.at, t))
  BY <1>1 DEF StillToSave, Ahead, Saves
<1>3. \A t : Settled(t)' <=> IsSettled(run', completed', t)
  BY <1>2 DEF Settled, IsSettled
<1>4. \A t : (Running /\ Saves(Current, t))' => run' # NoRun /\ StandsAtSave(run', t)
  BY <1>1 DEF StandsAtSave, Running, Saves
<1>5. suspended' \subseteq Slugs
  BY DEF SeedTypeOK
<1>6. \A t \in Slugs : (TourRow(t) \in db)' => (tours[t].status # "")'
  BY DEF Seen, Known
<1>7. run' # NoRun =>
         \A t \in Slugs :
            (\E k \in 1..(run'.at - 1) : LooksFor(Script(run'.day)[k], TourRow(t)))
                => run'.held[t] # ""
  BY DEF Seen, Holds, Looked
<1>8. \A t \in suspended' : TourRow(t) \in db'
  BY <1>5
<1>9. \A t \in suspended' \ crossed' :
         /\ tours'[t].status = "SUSPENDED"
         /\ run' # NoRun /\ StillToSave(t)' => run'.held[t] \in {"", "SUSPENDED"}
  BY <1>2, <1>5 DEF Kept
<1>10. \A t \in Slugs : Settled(t)' => \A n \in SeededReviews(t) : Review(n) \in db'
  BY <1>3 DEF Seen
<1>11. ASSUME NEW t \in Slugs \ crossed'
       PROVE  /\ Settled(t)' => RatingOf(t)' = Rating(t)'
              /\ (Running /\ Saves(Current, t))' => run'.read = Rating(t)'
  <2>1. Rated(run', t, tours'[t], completed', Rating(t)')
    OBVIOUS
  <2>2. RatingOf(t)' = [count |-> tours'[t].count, sum |-> tours'[t].sum]
    BY DEF RatingOf
  <2> QED
    BY <1>3, <1>4, <2>1, <2>2, RatingIsNext DEF Rated
<1> QED
  BY <1>6, <1>7, <1>8, <1>9, <1>10, <1>11 DEF RunsHoldTours

\* What the run q holds and has ahead, gone on from the run r at that step.
GoneOn(q, r, from, now, t) ==
    /\ q # NoRun /\ q.day = r.day /\ q.read = r.read
    /\ Holds(q, t)
    /\ Ahead(Script(q.day), q.at, t) <=> Ahead(Script(r.day), from, t)
    /\ ~StandsAtSave(q, t)
    /\ q.held[t] \in {r.held[t], now[t].status}

\* A run that goes on holds the tours that it finds as they are, and stands at no
\* save but right after the reviews are read.
LEMMA GoneOnHolds ==
    ASSUME NEW r \in Runs, NEW from \in 1..(Len(Script(r.day)) + 1),
           NEW rows, NEW now \in [Slugs -> TourColumns],
           FoundBefore(Script(r.day), from, rows),
           NotAfterRead(Script(r.day), from),
           NEW q, q = GoOn(Script(r.day), r, from, rows, now),
           NEW t \in Slugs,
           Known(t, rows, now[t]), Holds(r, t)
    PROVE  GoneOn(q, r, from, now, t)
<1> DEFINE s == Script(r.day)
<1>1. r.day \in Days /\ r.at \in Nat \ {0}
  BY DEF Runs
<1>2. Len(s) \in Nat /\ DOMAIN s = 1..Len(s)
  BY <1>1, ScriptIsSeq
<1>3. PICK to \in from..(Len(s) + 1) : GoesTo(q, s, r, from, rows, now, to)
  BY <1>1, GoesOn
<1>4. /\ q \in Runs /\ q.day = r.day /\ q.at = to /\ q.read = r.read
      /\ \A j \in from..(to - 1) : s[j].does = "ensure" /\ s[j].saves[1] \in rows
  BY <1>3 DEF GoesTo
<1>5. q.held[t] = IF \E k \in r.at..(to - 1) : LooksFor(s[k], TourRow(t))
                     THEN now[t].status ELSE r.held[t]
  BY <1>3 DEF GoesTo
<1>6. from \in 1..(Len(s) + 1)
  OBVIOUS
<1>7. from \in Nat
  BY <1>2
<1>8. to \in Nat \ {0}
  BY <1>2, <1>6
<1>9. ~(to \in DOMAIN s /\ s[to].does = "save")
  <2> SUFFICES ASSUME to \in DOMAIN s, s[to].does = "save" PROVE FALSE
    OBVIOUS
  <2>1. to - 1 \in DOMAIN s /\ s[to - 1].does = "read"
    BY <1>1, ComeLast
  <2>2. CASE to = from
    BY <2>1, <2>2 DEF NotAfterRead
  <2>3. CASE to > from
    BY <1>2, <1>4, <1>6, <1>7, <1>8, <2>1, <2>3
  <2> QED
    BY <1>2, <1>4, <1>6, <1>7, <1>8, <2>2, <2>3
<1>10. FoundBefore(s, from, rows)
  OBVIOUS
<1> HIDE DEF s
<1>11. q.day = r.day /\ q.at = to /\ q.read = r.read /\ q # NoRun
  BY <1>4, NoRunIsNone
<1>12. ~StandsAtSave(q, t)
  BY <1>9, <1>11 DEF StandsAtSave, Saves, s
<1>13. Ahead(s, to, t) <=> Ahead(s, from, t)
  BY <1>2, <1>4, <1>6, <1>7, <1>8 DEF Ahead, Saves
<1>14. Ahead(Script(q.day), q.at, t) <=> Ahead(Script(r.day), from, t)
  BY <1>11, <1>13 DEF s
<1>15. q.held[t] \in {r.held[t], now[t].status}
  BY <1>5
<1>16. ASSUME Looked(q, t) PROVE q.held[t] # ""
  <2>1. PICK k \in 1..(to - 1) : LooksFor(s[k], TourRow(t))
    BY <1>11, <1>16 DEF Looked, s
  <2>2. CASE k < r.at
    <3>1. Looked(r, t)
      BY <1>1, <1>6, <1>7, <1>8, <2>1, <2>2 DEF Looked, s
    <3>2. r.held[t] # ""
      BY <3>1 DEF Holds
    <3>3. CASE \E i \in r.at..(to - 1) : LooksFor(s[i], TourRow(t))
      <4>1. PICK i \in r.at..(to - 1) : LooksFor(s[i], TourRow(t))
        BY <3>3
      <4>2. TourRow(t) \in rows
        BY <1>1, <1>2, <1>4, <1>6, <1>7, <1>8, <1>10, <4>1 DEF FoundBefore, LooksFor
      <4> QED
        BY <1>5, <3>3, <4>2 DEF Known
    <3> QED
      BY <1>5, <3>2, <3>3
  <2>3. CASE k >= r.at
    <3>1. k \in r.at..(to - 1)
      BY <1>1, <1>2, <1>4, <1>6, <1>7, <1>8, <2>1, <2>3
    <3>2. TourRow(t) \in rows
      BY <1>1, <1>2, <1>4, <1>6, <1>7, <1>8, <1>10, <2>1, <3>1 DEF FoundBefore, LooksFor
    <3> QED
      BY <1>5, <2>1, <3>1, <3>2 DEF Known
  <2>4. k < r.at \/ k >= r.at
    BY <1>1, <1>8
  <2> QED
    BY <2>2, <2>3, <2>4, Zenon
<1> QED
  BY <1>11, <1>12, <1>14, <1>15, <1>16 DEF Holds, GoneOn

\* The rating of a tour is made of its own reviews.
LEMMA RatingStays ==
    ASSUME NEW t, LiveReview(t) \in db' <=> LiveReview(t) \in db,
           \A n \in SeededReviews(t) : Review(n) \in db' <=> Review(n) \in db
    PROVE  Rating(t)' = Rating(t)
<1>1. {k \in SeededReviews(t) : Review(k) \in db'} = {k \in SeededReviews(t) : Review(k) \in db}
  OBVIOUS
<1>2. (IF LiveReview(t) \in db' THEN 1 ELSE 0) = (IF LiveReview(t) \in db THEN 1 ELSE 0)
  OBVIOUS
<1> QED
  BY <1>1, <1>2, Zenon DEF Rating

\* A review of the service's adds one to the count and its stars to the sum.
LEMMA RatingGrows ==
    ASSUME NEW t \in Slugs, LiveReview(t) \notin db, LiveReview(t) \in db',
           \A n \in SeededReviews(t) : Review(n) \in db' <=> Review(n) \in db
    PROVE  Rating(t)'.count = Rating(t).count + 1 /\ Rating(t)'.sum = Rating(t).sum + Stars
<1> DEFINE mine == {k \in SeededReviews(t) : Review(k) \in db}
           stars == SumFunction([k \in mine |-> seedReviews[k].rating])
<1>1. {k \in SeededReviews(t) : Review(k) \in db'} = mine
  OBVIOUS
<1>2. mine \in SUBSET SeededReviews(t) /\ IsFiniteSet(SeededReviews(t))
  BY ScriptAssumption
<1>3. Cardinality(mine) \in Nat
  BY <1>2, FS_Subset, FS_CardinalityType
<1>4. stars \in Nat /\ Stars \in Nat
  BY <1>2, ScriptAssumption, DatabaseAssumption
<1>5. Rating(t)' = [count |-> Cardinality(mine) + 1, sum |-> stars + 1 * Stars]
  <2>1. Rating(t)' =
          LET m == {k \in SeededReviews(t) : Review(k) \in db'}
              live == IF LiveReview(t) \in db' THEN 1 ELSE 0
          IN  [count |-> Cardinality(m) + live,
               sum |-> SumFunction([k \in m |-> seedReviews[k].rating]) + live * Stars]
    BY Zenon DEF Rating
  <2> QED
    BY <1>1, <2>1, Zenon
<1>6. Rating(t) = [count |-> Cardinality(mine) + 0, sum |-> stars + 0 * Stars]
  BY Zenon DEF Rating
<1> HIDE DEF mine, stars
<1> QED
  BY <1>3, <1>4, <1>5, <1>6

\* The service's reviews are none of the seeded ones.
LEMMA ReviewsApart ==
    ASSUME NEW day \in Days, NEW t \in Slugs, NEW u \in Slugs, NEW n \in SeededReviews(t)
    PROVE  Review(n) # LiveReview(u)
<1> DEFINE s == Script(day)
<1>1. PICK j \in DOMAIN s : LooksFor(s[j], Review(n))
  <2>1. PICK k \in DOMAIN s : \E j \in 1..(k - 1) : LooksFor(s[j], Review(n))
    BY ComeLast
  <2>2. \A j \in 1..(k - 1) : j \in DOMAIN s
    BY ScriptIsSeq
  <2> QED
    BY <2>1, <2>2
<1>2. s[j] \in ToSet(s) /\ s[j].does = "ensure" /\ s[j].saves[1] = Review(n)
  BY <1>1, StepIsElement DEF LooksFor
<1>3. s[j].saves \in Seq(RowKeys) \ {<<>>}
  BY ScriptIsSeq DEF ScriptSteps
<1>4. 1 \in DOMAIN s[j].saves
  BY <1>3, LenProperties, EmptySeq
<1> QED
  BY <1>2, <1>4, FirstTells

\* No row that goes with another is a tour's, or a seeded review.
LEMMA LookedForFirst ==
    ASSUME NEW day \in Days, NEW s \in ToSet(Script(day)), s.does = "ensure",
           NEW i \in DOMAIN s.saves, i > 1, NEW t \in Slugs
    PROVE  s.saves[i] # TourRow(t)
<1>1. PICK j \in DOMAIN Script(day) : LooksFor(Script(day)[j], TourRow(t))
  <2>1. PICK k \in DOMAIN Script(day) : \E j \in 1..(k - 1) : LooksFor(Script(day)[j], TourRow(t))
    BY ComeLast
  <2>2. \A j \in 1..(k - 1) : j \in DOMAIN Script(day)
    BY ScriptIsSeq
  <2> QED
    BY <2>1, <2>2
<1>2. /\ Script(day)[j] \in ToSet(Script(day)) /\ Script(day)[j].does = "ensure"
      /\ Script(day)[j].saves[1] = TourRow(t)
  BY <1>1, StepIsElement DEF LooksFor
<1> QED
  BY <1>2, FirstTells

-----------------------------------------------------------------------------
\* The invariant, step by step. For one tour:
TourHolds(q, t, rows, now, ended, susp, cross, rating) ==
    /\ Seen(q, t, rows, now, ended)
    /\ t \in susp => TourRow(t) \in rows
    /\ t \in susp \ cross => Kept(q, t, now)
    /\ t \notin cross => Rated(q, t, now, ended, rating)

\* RunsHoldTours for one tour, as one opaque fact.
LEMMA AllToursHold ==
    ASSUME SeedTypeOK, RunsHoldTours, NEW t \in Slugs
    PROVE  TourHolds(run, t, db, tours[t], completed, suspended, crossed, Rating(t))
  BY ToursHeld DEF TourHolds

\* What to show of each tour after a step, as one opaque fact.
LEMMA AllHoldTours ==
    ASSUME SeedTypeOK',
           \A t \in Slugs : TourHolds(run', t, db', tours'[t], completed', suspended', crossed',
                                      Rating(t)')
    PROVE  RunsHoldTours'
  BY HeldTours DEF TourHolds

\* At the start of a run every tour is still to be saved.
LEMMA AheadAtFirst ==
    ASSUME NEW day \in Days, NEW t \in Slugs
    PROVE  Ahead(Script(day), 1, t)
<1>1. PICK k \in DOMAIN Script(day) : Saves(Script(day)[k], t)
  BY ComeLast
<1> QED
  BY <1>1, ScriptIsSeq DEF Ahead

\* StartSeed preserves RunsHoldTours.
LEMMA StartHolds ==
    ASSUME SeedTypeOK, SeedTypeOK', RunsHoldTours, NEW day \in Days, StartSeed(day)
    PROVE  RunsHoldTours'
<1> DEFINE r == FreshRun("seed", day, 1)
<1>1. runs + 1 \in 1..MaxRuns
  BY DatabaseAssumption DEF StartSeed, SeedTypeOK
<1>2. Plan[runs + 1][day] = Script(day)
  BY <1>1, PlanIsScript
<1>3. r \in Runs /\ r.day = day /\ r.at = 1
  BY FirstRun
<1>4. \A t \in Slugs : r.held[t] = ""
  BY FirstRun
<1>5. run' = GoOn(Script(r.day), r, 1, db, tours) /\ run = NoRun
      /\ UNCHANGED <<db, tours, completed, suspended, crossed>>
  BY <1>2, <1>3 DEF StartSeed
<1> HIDE DEF r
<1>6. 1 \in 1..(Len(Script(r.day)) + 1) /\ tours \in [Slugs -> TourColumns]
  BY <1>3, ScriptIsSeq DEF SeedTypeOK, TourColumns
<1>7. FoundBefore(Script(r.day), 1, db)
  BY DEF FoundBefore
<1>8. NotAfterRead(Script(r.day), 1)
  <2>1. 1 - 1 \notin DOMAIN Script(r.day)
    BY <1>3, ScriptIsSeq
  <2> QED
    BY <2>1 DEF NotAfterRead
<1> SUFFICES ASSUME NEW t \in Slugs
             PROVE  TourHolds(run', t, db', tours'[t], completed', suspended', crossed', Rating(t)')
  BY AllHoldTours
<1>9. TourHolds(run, t, db, tours[t], completed, suspended, crossed, Rating(t))
  BY AllToursHold
<1>10. Holds(r, t)
  <2>1. ~Looked(r, t)
    BY <1>3 DEF Looked
  <2> QED
    BY <2>1 DEF Holds
<1>11. Known(t, db, tours[t])
  BY <1>9 DEF TourHolds, Seen
<1>12. GoneOn(run', r, 1, tours, t)
  BY <1>3, <1>5, <1>6, <1>7, <1>8, <1>10, <1>11, GoneOnHolds
<1>13. /\ run' # NoRun /\ run'.day = r.day
       /\ Holds(run', t)
       /\ Ahead(Script(run'.day), run'.at, t) <=> Ahead(Script(r.day), 1, t)
       /\ ~StandsAtSave(run', t)
       /\ run'.held[t] \in {r.held[t], tours[t].status}
  BY <1>12 DEF GoneOn
<1>14. IsSettled(run', completed', t) => IsSettled(run, completed, t)
  BY <1>3, <1>5, <1>13, AheadAtFirst DEF IsSettled
<1>15. Seen(run', t, db', tours'[t], completed')
  BY <1>5, <1>9, <1>13, <1>14 DEF TourHolds, Seen
<1>16. t \in suspended' \ crossed' => Kept(run', t, tours'[t])
  BY <1>4, <1>5, <1>9, <1>13 DEF TourHolds, Kept
<1>17. Rating(t)' = Rating(t)
  BY <1>5, RatingStays
<1>18. t \notin crossed' => Rated(run', t, tours'[t], completed', Rating(t)')
  BY <1>5, <1>9, <1>13, <1>14, <1>17 DEF TourHolds, Rated
<1> QED
  BY <1>5, <1>9, <1>15, <1>16, <1>18 DEF TourHolds

\* The row of a tour is saved only where there is none.
LEMMA TourSavedOnce ==
    ASSUME SeedTypeOK, RunsFindRows, SaveRow, NEW t \in Slugs, SavedRow = TourRow(t)
    PROVE  TourRow(t) \notin db
<1>1. /\ run # NoRun /\ run.at \in DOMAIN Script(run.day) /\ run.day \in Days
      /\ Current.does = "ensure" /\ Current = Script(run.day)[run.at]
      /\ run.saved + 1 \in DOMAIN Current.saves /\ run.saved \in Nat
  BY RowSaved, CurrentStep DEF Runs
<1>2. ~(run.saved + 1 > 1)
  BY <1>1, StepIsElement, LookedForFirst DEF SavedRow
<1>3. run.saved = 0
  BY <1>1, <1>2
<1>4. Current.saves[1] = TourRow(t)
  BY <1>3 DEF SavedRow
<1>5. Due(Current, db)
  BY <1>1, <1>3, RowsFound DEF RunFound
<1> QED
  BY <1>1, <1>4, <1>5 DEF Due

\* SaveRow preserves it: a new tour is held as it was just saved.
LEMMA SaveRowHolds ==
    ASSUME SeedTypeOK, SeedTypeOK', RunsFindRows, RunsHoldTours, SaveRow
    PROVE  RunsHoldTours'
<1>1. /\ run # NoRun /\ run.at \in DOMAIN Script(run.day) /\ run.day \in Days /\ run \in Runs
      /\ Current.does = "ensure" /\ Current = Script(run.day)[run.at]
      /\ run.saved + 1 \in DOMAIN Current.saves /\ run.saved \in Nat
      /\ db' = db \cup {SavedRow} /\ tours' = ToursAfterRow
      /\ tours' \in [Slugs -> TourColumns]
      /\ UNCHANGED <<completed, suspended, crossed>>
  BY RowSaved, CurrentStep DEF Runs
<1>2. tours \in [Slugs -> TourColumns]
  BY DEF SeedTypeOK, TourColumns
<1> SUFFICES ASSUME NEW t \in Slugs
             PROVE  TourHolds(run', t, db', tours'[t], completed', suspended', crossed', Rating(t)')
  BY AllHoldTours
<1>3. TourHolds(run, t, db, tours[t], completed, suspended, crossed, Rating(t))
  BY AllToursHold
<1>4. tours'[t] = IF SavedRow = TourRow(t) THEN [tours[t] EXCEPT !.status = "APPROVED"]
                                          ELSE tours[t]
  BY <1>1 DEF ToursAfterRow
<1>5. tours'[t].count = tours[t].count /\ tours'[t].sum = tours[t].sum
  BY <1>2, <1>4 DEF TourColumns
<1>6. TourRow(t) \in db => tours'[t] = tours[t]
  BY <1>4, TourSavedOnce
<1>7. Known(t, db', tours'[t])
  <2>1. CASE SavedRow = TourRow(t)
    <3>1. tours'[t].status = "APPROVED"
      BY <1>2, <1>4, <2>1 DEF TourColumns
    <3> QED
      BY <3>1 DEF Known
  <2>2. CASE SavedRow # TourRow(t)
    BY <1>1, <1>3, <1>4, <2>2 DEF TourHolds, Seen, Known
  <2> QED
    BY <2>1, <2>2
<1>8. /\ run' # NoRun /\ run'.day = run.day
      /\ Holds(run', t)
      /\ Ahead(Script(run'.day), run'.at, t) <=> Ahead(Script(run.day), run.at, t)
      /\ ~StandsAtSave(run', t)
      /\ run'.held[t] \in {run.held[t], tours'[t].status}
  <2>1. Holds(run, t)
    BY <1>1, <1>3 DEF TourHolds, Seen
  <2>2. CASE run.saved + 1 < Len(Current.saves)
    <3>1. run' = [run EXCEPT !.saved = @ + 1]
      BY <2>2, RowSaved
    <3>2. /\ run'.day = run.day /\ run'.at = run.at /\ run'.held = run.held /\ run' \in Runs
      BY <1>1, <3>1 DEF Runs
    <3>3. ~StandsAtSave(run', t)
      BY <1>1, <3>2 DEF StandsAtSave, Saves
    <3>4. Holds(run', t)
      BY <2>1, <3>2 DEF Holds, Looked
    <3> QED
      BY <3>2, <3>3, <3>4, NoRunIsNone
  <2>3. CASE ~(run.saved + 1 < Len(Current.saves))
    <3>1. run' = GoOn(Script(run.day), run, run.at + 1, db', tours')
      BY <2>3, RowSaved
    <3>2. run.at \in Nat \ {0} /\ run.at + 1 \in 1..(Len(Script(run.day)) + 1)
          /\ (run.at + 1) - 1 = run.at
      BY <1>1, ScriptIsSeq
    <3>3. NotAfterRead(Script(run.day), run.at + 1)
      BY <1>1, <3>2 DEF NotAfterRead
    <3>4. FoundBefore(Script(run.day), run.at + 1, db')
      <4>1. Current.saves[1] \in db'
        BY <1>1, SavesItsFirst
      <4>2. FoundBefore(Script(run.day), run.at, db)
        BY <1>1, RowsFound DEF RunFound
      <4> QED
        BY <1>1, <3>2, <4>1, <4>2 DEF FoundBefore
    <3>7. run \in Runs /\ tours' \in [Slugs -> TourColumns]
      BY <1>1
    <3>5. GoneOn(run', run, run.at + 1, tours', t)
      BY <1>7, <2>1, <3>1, <3>2, <3>3, <3>4, <3>7, GoneOnHolds
    <3>6. Ahead(Script(run.day), run.at + 1, t) <=> Ahead(Script(run.day), run.at, t)
      BY <1>1, <3>2, ScriptIsSeq DEF Ahead, Saves
    <3> QED
      BY <3>5, <3>6 DEF GoneOn
  <2> QED
    BY <2>2, <2>3
<1>9. IsSettled(run', completed', t) <=> IsSettled(run, completed, t)
  BY <1>1, <1>8 DEF IsSettled
<1>10. Seen(run', t, db', tours'[t], completed')
  BY <1>1, <1>3, <1>7, <1>8, <1>9 DEF TourHolds, Seen
<1>11. t \in suspended' => TourRow(t) \in db'
  BY <1>1, <1>3 DEF TourHolds
<1>12. t \in suspended' \ crossed' => Kept(run', t, tours'[t])
  BY <1>1, <1>3, <1>6, <1>8 DEF TourHolds, Kept
<1>13. IsSettled(run, completed, t) => Rating(t)' = Rating(t)
  <2>1. SavedRow # LiveReview(t)
    BY <1>1, StepIsElement, FirstTells DEF SavedRow
  <2> QED
    BY <1>1, <1>3, <2>1, RatingStays DEF TourHolds, Seen
<1>14. t \notin crossed' => Rated(run', t, tours'[t], completed', Rating(t)')
  BY <1>1, <1>3, <1>5, <1>8, <1>9, <1>13 DEF TourHolds, Rated
<1> QED
  BY <1>10, <1>11, <1>12, <1>14 DEF TourHolds

\* When a run comes to save a tour, it has looked at the tour and found each of its
\* seeded reviews, and will not save it again.
LEMMA SaveIsLast ==
    ASSUME SeedTypeOK, RunsFindRows, Running, Current.does = "save"
    PROVE  /\ Looked(run, Recomputed)
           /\ ~Ahead(Script(run.day), run.at + 1, Recomputed)
           /\ \A n \in SeededReviews(Recomputed) : Review(n) \in db
           /\ \A t \in Slugs \ {Recomputed} :
                 Ahead(Script(run.day), run.at + 1, t) <=> Ahead(Script(run.day), run.at, t)
<1> DEFINE s == Script(run.day)
           u == Recomputed
<1>1. /\ run # NoRun /\ run.day \in Days /\ run.at \in DOMAIN s /\ run.at \in Nat \ {0}
      /\ Current = s[run.at] /\ Len(s) \in Nat /\ DOMAIN s = 1..Len(s)
  BY CurrentStep, ScriptIsSeq DEF Running
<1>2. u \in Slugs /\ \A t \in Slugs : Saves(s[run.at], t) <=> t = u
  BY <1>1, RecomputedTour DEF Saves
<1>3. PICK k \in DOMAIN s :
         /\ \A j \in DOMAIN s : Saves(s[j], u) => j = k
         /\ \E j \in 1..(k - 1) : LooksFor(s[j], TourRow(u))
         /\ \A n \in SeededReviews(u) : \E j \in 1..(k - 1) : LooksFor(s[j], Review(n))
  BY <1>1, <1>2, ComeLast
<1>4. k = run.at
  BY <1>1, <1>2, <1>3
<1>5. FoundBefore(s, run.at, db)
  BY <1>1, RowsFound DEF RunFound
<1> HIDE DEF u, s
<1>6. \E j \in 1..(run.at - 1) : LooksFor(s[j], TourRow(u))
  BY <1>3, <1>4
<1>7. ~Ahead(s, run.at + 1, u)
  BY <1>1, <1>3, <1>4 DEF Ahead
<1>8. \A n \in SeededReviews(u) : Review(n) \in db
  BY <1>3, <1>4, <1>5 DEF FoundBefore, LooksFor
<1>9. ASSUME NEW t \in Slugs, t # u
      PROVE  Ahead(s, run.at + 1, t) <=> Ahead(s, run.at, t)
  BY <1>1, <1>2, <1>9 DEF Ahead
<1> QED
  BY <1>6, <1>7, <1>8, <1>9 DEF Looked, u, s

\* SaveTour preserves it: what is saved is what the run holds and has read.
LEMMA SaveTourHolds ==
    ASSUME SeedTypeOK, SeedTypeOK', RunsFindRows, RunsHoldTours, SaveTour
    PROVE  RunsHoldTours'
<1> DEFINE u == Recomputed
<1>1. /\ run # NoRun /\ run.at \in DOMAIN Script(run.day) /\ run.day \in Days /\ run \in Runs
      /\ Steps = Script(run.day) /\ Current = Script(run.day)[run.at] /\ run.at \in Nat \ {0}
      /\ UNCHANGED <<db, completed, suspended, crossed>>
  BY CurrentStep DEF SaveTour, Running
<1>2. Running /\ Current.does = "save"
  BY DEF SaveTour
<1>3. u \in Slugs /\ \A t \in Slugs : Saves(Current, t) <=> t = u
  BY <1>2, RecomputedTour DEF Saves
<1>4. /\ Looked(run, u) /\ ~Ahead(Script(run.day), run.at + 1, u)
      /\ \A n \in SeededReviews(u) : Review(n) \in db
      /\ \A t \in Slugs \ {u} :
            Ahead(Script(run.day), run.at + 1, t) <=> Ahead(Script(run.day), run.at, t)
  BY <1>2, SaveIsLast
<1>5. /\ tours' = [tours EXCEPT ![u] = [status |-> run.held[u], count |-> run.read.count,
                                        sum |-> run.read.sum]]
      /\ run' = GoOn(Script(run.day), run, run.at + 1, db, tours')
  BY <1>1 DEF SaveTour
<1>6. tours \in [Slugs -> TourColumns] /\ tours' \in [Slugs -> TourColumns]
  BY DEF SeedTypeOK, TourColumns
<1>7. run.at + 1 \in 1..(Len(Script(run.day)) + 1) /\ (run.at + 1) - 1 = run.at
  BY <1>1, ScriptIsSeq
<1>8. FoundBefore(Script(run.day), run.at + 1, db)
  <2>1. FoundBefore(Script(run.day), run.at, db)
    BY <1>1, RowsFound DEF RunFound
  <2> QED
    BY <1>1, <1>2, <2>1 DEF FoundBefore
<1>9. NotAfterRead(Script(run.day), run.at + 1)
  BY <1>1, <1>2, <1>7 DEF NotAfterRead
<1> HIDE DEF u
<1> SUFFICES ASSUME NEW t \in Slugs
             PROVE  TourHolds(run', t, db', tours'[t], completed', suspended', crossed', Rating(t)')
  BY AllHoldTours
<1>10. TourHolds(run, t, db, tours[t], completed, suspended, crossed, Rating(t))
  BY AllToursHold
<1>11. Holds(run, t)
  BY <1>1, <1>10 DEF TourHolds, Seen
<1>12. t # u => tours'[t] = tours[t]
  BY <1>3, <1>5, <1>6
<1>13. t = u => /\ tours'[t].status = run.held[t]
                /\ tours'[t].count = run.read.count /\ tours'[t].sum = run.read.sum
  BY <1>3, <1>5, <1>6
<1>14. t = u => run.held[t] # ""
  BY <1>4, <1>11 DEF Holds
<1>15. Known(t, db, tours'[t])
  BY <1>10, <1>12, <1>13, <1>14 DEF TourHolds, Seen, Known
<1>16. run \in Runs
  BY <1>1
<1>17. GoneOn(run', run, run.at + 1, tours', t)
  BY <1>5, <1>6, <1>7, <1>8, <1>9, <1>11, <1>15, <1>16, GoneOnHolds
<1>18. /\ t = u => ~Ahead(Script(run'.day), run'.at, t)
       /\ t # u => (Ahead(Script(run'.day), run'.at, t) <=> Ahead(Script(run.day), run.at, t))
  BY <1>4, <1>17 DEF GoneOn
<1>19. t # u => (IsSettled(run', completed', t) <=> IsSettled(run, completed, t))
  BY <1>1, <1>17, <1>18 DEF IsSettled, GoneOn
<1>20. Seen(run', t, db', tours'[t], completed')
  <2>1. IsSettled(run', completed', t) => \A n \in SeededReviews(t) : Review(n) \in db
    BY <1>4, <1>10, <1>19 DEF TourHolds, Seen
  <2> QED
    BY <1>1, <1>15, <1>17, <2>1 DEF Seen, GoneOn
<1>21. t \in suspended' \ crossed' => Kept(run', t, tours'[t])
  <2> SUFFICES ASSUME t \in suspended, t \notin crossed
               PROVE  Kept(run', t, tours'[t])
    BY <1>1
  <2>1. Kept(run, t, tours[t])
    BY <1>10 DEF TourHolds
  <2>2. CASE t = u
    <3>1. Ahead(Script(run.day), run.at, t)
      BY <1>1, <1>3, <2>2, ScriptIsSeq DEF Ahead
    <3>2. run.held[t] = "SUSPENDED"
      BY <1>1, <1>14, <2>1, <2>2, <3>1 DEF Kept
    <3> QED
      BY <1>13, <1>18, <2>2, <3>2 DEF Kept
  <2>3. CASE t # u
    BY <1>1, <1>12, <1>17, <1>18, <2>1, <2>3 DEF Kept, GoneOn
  <2> QED
    BY <2>2, <2>3
<1>22. Rating(t)' = Rating(t)
  BY <1>1, RatingStays
<1>23. t \notin crossed' => Rated(run', t, tours'[t], completed', Rating(t)')
  <2> SUFFICES ASSUME t \notin crossed
               PROVE  Rated(run', t, tours'[t], completed', Rating(t))
    BY <1>1, <1>22
  <2>1. Rated(run, t, tours[t], completed, Rating(t))
    BY <1>10 DEF TourHolds
  <2>2. CASE t = u
    <3>1. StandsAtSave(run, t)
      BY <1>1, <1>3, <2>2 DEF StandsAtSave
    <3>2. run.read = Rating(t)
      BY <1>1, <2>1, <3>1 DEF Rated
    <3> QED
      BY <1>13, <1>17, <2>2, <3>2 DEF Rated, GoneOn
  <2>3. CASE t # u
    BY <1>12, <1>17, <1>19, <2>1, <2>3 DEF Rated, GoneOn
  <2> QED
    BY <2>2, <2>3
<1> QED
  BY <1>1, <1>10, <1>20, <1>21, <1>23 DEF TourHolds

\* ReadReviews preserves it: what is read is the rating of the reviews.
LEMMA ReadHolds ==
    ASSUME SeedTypeOK, SeedTypeOK', RunsHoldTours, ReadReviews
    PROVE  RunsHoldTours'
<1>1. /\ run # NoRun /\ run.at \in DOMAIN Script(run.day) /\ run.day \in Days /\ run \in Runs
      /\ Current = Script(run.day)[run.at] /\ run.at \in Nat \ {0}
      /\ UNCHANGED <<db, tours, completed, suspended, crossed>>
  BY CurrentStep DEF ReadReviews, Running
<1>2. Running /\ Current.does = "read"
  BY DEF ReadReviews
<1>3. /\ run' # NoRun /\ run'.day = run.day /\ run'.at = run.at + 1 /\ run'.held = run.held
      /\ run'.read = Rating(Recomputed)
  <2> DEFINE x == Rating(Recomputed)
  <2>1. run' = [run EXCEPT !.at = run.at + 1, !.read = x]
    BY DEF ReadReviews
  <2>2. x \in Ratings
    BY <1>2, RecomputedTour, RatingTyped
  <2> HIDE DEF x
  <2>3. /\ run'.does = run.does /\ run'.day = run.day /\ run'.at = run.at + 1
        /\ run'.held = run.held /\ run'.read = x
    BY <1>1, <2>1 DEF Runs
  <2>4. run'.does = "seed"
    BY <1>1, <2>3 DEF Runs
  <2>5. NoRun.does = "none"
    BY Zenon DEF NoRun, FreshRun
  <2>6. run' # NoRun
    BY <2>4, <2>5
  <2> QED
    BY <2>3, <2>6 DEF x
<1>4. Script(run.day)[run.at + 1].saves = Current.saves
  BY <1>1, <1>2, ComeLast
<1> SUFFICES ASSUME NEW t \in Slugs
             PROVE  TourHolds(run', t, db', tours'[t], completed', suspended', crossed', Rating(t)')
  BY AllHoldTours
<1>5. TourHolds(run, t, db, tours[t], completed, suspended, crossed, Rating(t))
  BY AllToursHold
<1>6. Ahead(Script(run'.day), run'.at, t) <=> Ahead(Script(run.day), run.at, t)
  BY <1>1, <1>2, <1>3, ScriptIsSeq DEF Ahead, Saves
<1>7. IsSettled(run', completed', t) <=> IsSettled(run, completed, t)
  BY <1>1, <1>3, <1>6 DEF IsSettled
<1>8. Looked(run', t) => Looked(run, t)
  BY <1>1, <1>2, <1>3 DEF Looked, LooksFor
<1>9. Seen(run', t, db', tours'[t], completed')
  BY <1>1, <1>3, <1>5, <1>7, <1>8 DEF TourHolds, Seen, Holds
<1>10. t \in suspended' \ crossed' => Kept(run', t, tours'[t])
  BY <1>1, <1>3, <1>5, <1>6 DEF TourHolds, Kept
<1>11. Rating(t)' = Rating(t)
  BY <1>1, RatingStays
<1>12. StandsAtSave(run', t) => t = Recomputed
  BY <1>2, <1>3, <1>4, RecomputedTour DEF StandsAtSave, Saves
<1>13. t \notin crossed' => Rated(run', t, tours'[t], completed', Rating(t)')
  BY <1>1, <1>3, <1>5, <1>7, <1>11, <1>12 DEF TourHolds, Rated
<1> QED
  BY <1>1, <1>5, <1>9, <1>10, <1>13 DEF TourHolds

\* A run that ends has saved every tour, and one that is stopped leaves no run.
LEMMA RunOverHolds ==
    ASSUME SeedTypeOK, SeedTypeOK', RunsHoldTours, EndSeed \/ CrashSeed
    PROVE  RunsHoldTours'
<1>1. run # NoRun /\ run' = NoRun /\ UNCHANGED <<db, tours, suspended, crossed>>
  BY DEF EndSeed, CrashSeed, Running
<1> SUFFICES ASSUME NEW t \in Slugs
             PROVE  TourHolds(run', t, db', tours'[t], completed', suspended', crossed', Rating(t)')
  BY AllHoldTours
<1>2. TourHolds(run, t, db, tours[t], completed, suspended, crossed, Rating(t))
  BY AllToursHold
<1>3. IsSettled(run', completed', t) => IsSettled(run, completed, t)
  <2>1. CASE EndSeed
    <3>1. run.at > Len(Script(run.day)) /\ run.at \in Nat \ {0} /\ Len(Script(run.day)) \in Nat
      BY <1>1, <2>1, CurrentStep, ScriptIsSeq DEF EndSeed
    <3>2. ~Ahead(Script(run.day), run.at, t)
      BY <3>1 DEF Ahead
    <3> QED
      BY <1>1, <3>2 DEF IsSettled
  <2>2. CASE CrashSeed
    BY <1>1, <2>2 DEF IsSettled, CrashSeed
  <2> QED
    BY <2>1, <2>2
<1>4. Rating(t)' = Rating(t)
  BY <1>1, RatingStays
<1>5. Seen(run', t, db', tours'[t], completed')
  BY <1>1, <1>2, <1>3 DEF TourHolds, Seen
<1>6. t \in suspended' \ crossed' => Kept(run', t, tours'[t])
  BY <1>1, <1>2 DEF TourHolds, Kept
<1>7. t \notin crossed' => Rated(run', t, tours'[t], completed', Rating(t)')
  BY <1>1, <1>2, <1>3, <1>4 DEF TourHolds, Rated
<1> QED
  BY <1>1, <1>2, <1>5, <1>6, <1>7 DEF TourHolds

\* PostReview preserves it: the tour changes with its reviews, or is crossed.
LEMMA PostReviewHolds ==
    ASSUME SeedTypeOK, SeedTypeOK', RunsHoldTours, NEW u \in Watched, PostReview(u)
    PROVE  RunsHoldTours'
<1> DEFINE now == [status |-> tours[u].status, count |-> tours[u].count + 1,
                   sum |-> tours[u].sum + Stars]
<1>1. /\ u \in Slugs /\ LiveReview(u) \notin db /\ db' = db \cup {LiveReview(u)}
      /\ tours' = [tours EXCEPT ![u] = now]
      /\ UNCHANGED <<run, runs, completed, suspended>>
      /\ crossed' = IF Between(u, TRUE) THEN crossed \cup {u} ELSE crossed
  BY DatabaseAssumption DEF Slugs, PostReview, Deed
<1>2. tours \in [Slugs -> TourColumns]
  BY DEF SeedTypeOK, TourColumns
<1>3. now.status = tours[u].status /\ now.count = tours[u].count + 1 /\ now.sum = tours[u].sum + Stars
  OBVIOUS
<1> HIDE DEF now
<1>4. \A t \in Slugs : TourRow(t) # LiveReview(u)
  BY DEF TourRow, LiveReview, Row
<1> SUFFICES ASSUME NEW t \in Slugs
             PROVE  TourHolds(run', t, db', tours'[t], completed', suspended', crossed', Rating(t)')
  BY AllHoldTours
<1>5. TourHolds(run, t, db, tours[t], completed, suspended, crossed, Rating(t))
  BY AllToursHold
<1>6. tours'[t].status = tours[t].status /\ (t # u => tours'[t] = tours[t])
  BY <1>1, <1>2, <1>3
<1>7. Known(t, db', tours'[t])
  BY <1>1, <1>4, <1>5, <1>6 DEF TourHolds, Seen, Known
<1>8. Seen(run', t, db', tours'[t], completed')
  BY <1>1, <1>5, <1>7 DEF TourHolds, Seen
<1>9. t \in suspended' \ crossed' => Kept(run', t, tours'[t])
  BY <1>1, <1>5, <1>6 DEF TourHolds, Kept
<1>10. ASSUME NEW day \in Days, NEW n \in SeededReviews(t)
       PROVE  Review(n) \in db' <=> Review(n) \in db
  BY <1>1, <1>10, ReviewsApart
<1>11. t # u => LiveReview(t) # LiveReview(u)
  BY DEF LiveReview, Row
<1>12. IsSettled(run, completed, t) \/ run # NoRun => \E day \in Days : TRUE
  BY CurrentStep DEF IsSettled, SeedTypeOK
<1>13. (\E day \in Days : TRUE) /\ t # u => Rating(t)' = Rating(t)
  BY <1>1, <1>10, <1>11, RatingStays
<1>14. (\E day \in Days : TRUE) /\ t = u =>
          Rating(t)'.count = Rating(t).count + 1 /\ Rating(t)'.sum = Rating(t).sum + Stars
  BY <1>1, <1>10, RatingGrows
<1>15. ASSUME t = u, t \notin crossed' PROVE ~(run # NoRun /\ StandsAtSave(run, t))
  <2> SUFFICES ASSUME run # NoRun, StandsAtSave(run, t) PROVE FALSE
    OBVIOUS
  <2>1. /\ Steps = Script(run.day) /\ Current = Script(run.day)[run.at] /\ Running
        /\ run.at \in DOMAIN Steps /\ run.at \in Nat \ {0}
        /\ Len(Steps) \in Nat /\ DOMAIN Steps = 1..Len(Steps)
    BY CurrentStep, ScriptIsSeq DEF StandsAtSave
  <2>2. Current.does = "save" /\ Current.saves[1] = TourRow(t)
    BY <2>1 DEF StandsAtSave, Saves
  <2>3. StillToSave(t)
    BY <2>1, <2>2 DEF StillToSave
  <2>4. Recomputed = t
    BY <2>1, <2>2, RecomputedTour
  <2>5. Between(u, TRUE)
    BY <1>15, <2>1, <2>2, <2>3, <2>4 DEF Between
  <2> QED
    BY <1>1, <1>15, <2>5
<1>16. t \notin crossed' => Rated(run', t, tours'[t], completed', Rating(t)')
  <2> SUFFICES ASSUME t \notin crossed'
               PROVE  Rated(run, t, tours'[t], completed, Rating(t)')
    BY <1>1
  <2>1. Rated(run, t, tours[t], completed, Rating(t))
    BY <1>1, <1>5 DEF TourHolds
  <2>2. CASE t = u
    <3>1. tours'[t].count = tours[t].count + 1 /\ tours'[t].sum = tours[t].sum + Stars
      BY <1>1, <1>2, <1>3, <2>2
    <3> QED
      BY <1>12, <1>14, <1>15, <2>1, <2>2, <3>1 DEF Rated
  <2>3. CASE t # u
    BY <1>6, <1>12, <1>13, <2>1, <2>3 DEF Rated
  <2> QED
    BY <2>2, <2>3
<1>17. t \in suspended' => TourRow(t) \in db'
  BY <1>1, <1>5 DEF TourHolds
<1> QED
  BY <1>8, <1>9, <1>16, <1>17 DEF TourHolds

\* SuspendTour preserves it: a run that has looked at the tour is crossed.
LEMMA SuspendHolds ==
    ASSUME SeedTypeOK, SeedTypeOK', RunsHoldTours, NEW u \in Watched, SuspendTour(u)
    PROVE  RunsHoldTours'
<1>1. /\ u \in Slugs /\ db' = db /\ TourRow(u) \in db
      /\ tours' = [tours EXCEPT ![u].status = "SUSPENDED"]
      /\ UNCHANGED <<run, runs, completed>> /\ suspended' = suspended \cup {u}
      /\ crossed' = IF Between(u, FALSE) THEN crossed \cup {u} ELSE crossed
  BY DatabaseAssumption DEF Slugs, SuspendTour, Deed
<1>2. tours \in [Slugs -> TourColumns]
  BY DEF SeedTypeOK, TourColumns
<1> SUFFICES ASSUME NEW t \in Slugs
             PROVE  TourHolds(run', t, db', tours'[t], completed', suspended', crossed', Rating(t)')
  BY AllHoldTours
<1>3. TourHolds(run, t, db, tours[t], completed, suspended, crossed, Rating(t))
  BY AllToursHold
<1>4. /\ tours'[t].count = tours[t].count /\ tours'[t].sum = tours[t].sum
      /\ t # u => tours'[t] = tours[t]
      /\ t = u => tours'[t].status = "SUSPENDED"
  BY <1>1, <1>2 DEF TourColumns
<1>5. Known(t, db', tours'[t])
  BY <1>1, <1>3, <1>4 DEF TourHolds, Seen, Known
<1>6. Seen(run', t, db', tours'[t], completed')
  BY <1>1, <1>3, <1>5 DEF TourHolds, Seen
<1>7. t \in suspended' \ crossed' => Kept(run', t, tours'[t])
  <2> SUFFICES ASSUME t \in suspended', t \notin crossed'
               PROVE  Kept(run, t, tours'[t])
    BY <1>1
  <2>1. CASE t # u
    BY <1>1, <1>3, <1>4, <2>1 DEF TourHolds, Kept
  <2>2. CASE t = u
    <3>1. ASSUME run # NoRun, Ahead(Script(run.day), run.at, t)
          PROVE  run.held[t] = ""
      <4>1. /\ Steps = Script(run.day) /\ run.at \in Nat \ {0} /\ run.day \in Days
            /\ Running <=> run.at \in DOMAIN Steps
            /\ Len(Steps) \in Nat /\ DOMAIN Steps = 1..Len(Steps)
        BY <3>1, CurrentStep, ScriptIsSeq
      <4>2. StillToSave(t)
        BY <3>1, <4>1 DEF StillToSave, Ahead, Saves
      <4>3. Running
        BY <3>1, <4>1 DEF Ahead
      <4>4. ~Between(u, FALSE)
        BY <1>1, <2>2
      <4> QED
        BY <2>2, <4>2, <4>3, <4>4 DEF Between
    <3> QED
      BY <1>4, <2>2, <3>1 DEF Kept
  <2> QED
    BY <2>1, <2>2
<1>8. Rating(t)' = Rating(t)
  BY <1>1, RatingStays
<1>9. t \notin crossed' => Rated(run', t, tours'[t], completed', Rating(t)')
  BY <1>1, <1>3, <1>4, <1>8 DEF TourHolds, Rated
<1>10. t \in suspended' => TourRow(t) \in db'
  BY <1>1, <1>3 DEF TourHolds
<1> QED
  BY <1>6, <1>7, <1>9, <1>10 DEF TourHolds

\* Every step preserves RunsHoldTours.
LEMMA StepHoldsTours ==
    ASSUME SeedTypeOK, RunsFindRows, RunsHoldTours, [Next]_vars
    PROVE  RunsHoldTours'
<1>1. SeedTypeOK'
  BY SeedStepTyped
<1>2. ASSUME UNCHANGED seedVars
      PROVE  RunsHoldTours'
  <2> SUFFICES ASSUME NEW t \in Slugs
               PROVE  TourHolds(run', t, db', tours'[t], completed', suspended', crossed', Rating(t)')
    BY <1>1, AllHoldTours
  <2>1. TourHolds(run, t, db, tours[t], completed, suspended, crossed, Rating(t))
    BY AllToursHold
  <2>2. Rating(t)' = Rating(t)
    BY <1>2, RatingStays DEF seedVars
  <2> QED
    BY <1>2, <2>1, <2>2 DEF seedVars
<1>3. CASE MigrationRun \/ MigrationRevert \/ Execute \/ RollBack \/ StoreValue \/ UNCHANGED vars
  BY <1>2, <1>3 DEF MigrationRun, MigrationRevert, Begin, Execute, RollBack, StoreValue, vars
<1> QED
  BY <1>1, <1>3, StartHolds, SaveRowHolds, SaveTourHolds, ReadHolds, RunOverHolds,
     PostReviewHolds, SuspendHolds DEF Next, Days

\* A run saves the status and the reviews that a tour has, unless the service changed
\* the tour after the run had looked; once a run has saved it, its rating stays that of
\* its reviews (seed(), which saves a tour that it loaded before).
THEOREM ToursStayHeld == Spec => []RunsHoldTours
<1>1. Init => RunsHoldTours
  <2> SUFFICES ASSUME Init PROVE RunsHoldTours
    OBVIOUS
  <2>1. db = {} /\ run = NoRun /\ completed = {} /\ suspended = {} /\ crossed = {}
    BY DEF Init
  <2>2. \A t : ~Settled(t)
    BY <2>1 DEF Settled
  <2>3. ~Running
    BY <2>1 DEF Running
  <2> QED
    BY <2>1, <2>2, <2>3 DEF RunsHoldTours
<1>2. SeedTypeOK /\ RunsFindRows /\ RunsHoldTours /\ [Next]_vars => RunsHoldTours'
  BY StepHoldsTours
<1> QED
  BY <1>1, <1>2, SeedTypeCorrect, RowsStayFound, PTL DEF Spec

\* Once a run of the seed script has ended, every tour's rating is that of its
\* reviews and a suspended tour is suspended, however many runs and crashes there
\* were, unless the service changed the tour while a run that had looked at it was
\* still to save it (seed(), which saves a tour that it loaded before).
THEOREM RatingsReconciled == Spec => []RatingsReconcile
<1>1. RunsHoldTours => RatingsReconcile
  <2> SUFFICES ASSUME RunsHoldTours, completed # {}, NEW t \in Slugs \ crossed
               PROVE  /\ [count |-> tours[t].count, sum |-> tours[t].sum] = Rating(t)
                      /\ t \in suspended => tours[t].status = "SUSPENDED"
    BY DEF RatingsReconcile
  <2>1. RatingOf(t) = Rating(t)
    BY DEF RunsHoldTours, Settled
  <2>2. t \in suspended => tours[t].status = "SUSPENDED"
    BY DEF RunsHoldTours
  <2> QED
    BY <2>1, <2>2 DEF RatingOf
<1> QED
  BY <1>1, ToursStayHeld, PTL

-----------------------------------------------------------------------------
(* Migrations: any number of them up and down, with any values stored.     *)

\* One statement more, of a schema and what is stored under it.
Onward(s, x) ==
    [schema |-> After(s, x.schema), stored |-> StoredAfter(s, x.stored)]

\* The first n statements have this path.
IsPath(g, statements, objects, rows, n) ==
    g = [k \in 0..n |-> IF k = 0 THEN [schema |-> objects, stored |-> rows]
                        ELSE Onward(statements[k], g[k - 1])]

\* A path of n - 1 statements goes on to one of n.
LEMMA PathGoesOn ==
    ASSUME NEW statements, NEW objects, NEW rows, NEW n \in Nat \ {0},
           NEW g, IsPath(g, statements, objects, rows, n - 1)
    PROVE  \E h : IsPath(h, statements, objects, rows, n)
<1> DEFINE first == [schema |-> objects, stored |-> rows]
           step(k, x) == Onward(statements[k], x)
           h == [k \in 0..n |-> IF k = n THEN step(n, g[n - 1]) ELSE g[k]]
<1>1. \A k \in 0..(n - 1) : g[k] = IF k = 0 THEN first ELSE step(k, g[k - 1])
  <2>1. g = [k \in 0..(n - 1) |-> IF k = 0 THEN first ELSE step(k, g[k - 1])]
    BY DEF IsPath
  <2> HIDE DEF first, step
  <2> QED
    BY <2>1
<1> HIDE DEF first, step
<1>2. \A k \in 0..n : h[k] = IF k = 0 THEN first ELSE step(k, h[k - 1])
  BY <1>1
<1>3. h = [k \in 0..n |-> IF k = 0 THEN first ELSE step(k, h[k - 1])]
  <2> HIDE DEF h
  <2>1. h = [k \in 0..n |-> h[k]]
    BY DEF h
  <2> QED
    BY <1>2, <2>1
<1> QED
  <2> HIDE DEF h
  <2>1. IsPath(h, statements, objects, rows, n)
    BY <1>3, Zenon DEF IsPath, first, step
  <2> QED
    BY <2>1

\* The recursive definition of Path is one of a function.
LEMMA PathIs ==
    ASSUME NEW statements, NEW objects, NEW rows, Len(statements) \in Nat
    PROVE  IsPath(Path(statements, objects, rows), statements, objects, rows, Len(statements))
<1> DEFINE Has(n) == \E g : IsPath(g, statements, objects, rows, n)
           T == {n \in Nat : ~Has(n)}
<1>1. T = {}
  <2> SUFFICES ASSUME T # {} PROVE FALSE
    OBVIOUS
  <2>1. PICK n \in T : \A m \in T : n <= m
    <3> HIDE DEF T
    <3>1. T \subseteq Nat
      BY DEF T
    <3> QED
      BY <3>1, Least
  <2>2. n # 0
    <3> DEFINE g == [k \in 0..0 |-> [schema |-> objects, stored |-> rows]]
    <3>1. IsPath(g, statements, objects, rows, 0)
      BY DEF IsPath
    <3> QED
      BY <3>1
  <2>3. n \in Nat \ {0} /\ n - 1 \in Nat /\ ~(n <= n - 1)
    BY <2>2
  <2>4. Has(n - 1)
    <3> HIDE DEF Has
    <3> QED
      BY <2>1, <2>3
  <2>5. PICK g : IsPath(g, statements, objects, rows, n - 1)
    BY <2>4
  <2>6. Has(n)
    BY <2>3, <2>5, PathGoesOn
  <2> QED
    BY <2>6
<1>2. \E g : IsPath(g, statements, objects, rows, Len(statements))
  BY <1>1
<1>3. Path(statements, objects, rows) =
         CHOOSE g : IsPath(g, statements, objects, rows, Len(statements))
  BY Zenon DEF Path, IsPath, Onward
<1> QED
  BY <1>2, <1>3, Zenon

\* Its equations.
LEMMA PathEquations ==
    ASSUME NEW statements, NEW objects, NEW rows, Len(statements) \in Nat,
           NEW path, path = Path(statements, objects, rows)
    PROVE  /\ path[0].schema = objects /\ path[0].stored = rows
           /\ \A k \in 1..Len(statements) :
                 /\ path[k].schema = After(statements[k], path[k - 1].schema)
                 /\ path[k].stored = StoredAfter(statements[k], path[k - 1].stored)
<1> DEFINE first == [schema |-> objects, stored |-> rows]
           step(k, x) == Onward(statements[k], x)
<1>1. path = [k \in 0..Len(statements) |-> IF k = 0 THEN first ELSE step(k, path[k - 1])]
  BY PathIs DEF IsPath
<1>2. first.schema = objects /\ first.stored = rows
  OBVIOUS
<1>3. \A k, x : /\ step(k, x).schema = After(statements[k], x.schema)
               /\ step(k, x).stored = StoredAfter(statements[k], x.stored)
  BY DEF Onward
<1> HIDE DEF first, step
<1>4. path[0] = first /\ \A k \in 1..Len(statements) : path[k] = step(k, path[k - 1])
  BY <1>1
<1>5. ASSUME NEW k \in 1..Len(statements)
      PROVE  /\ path[k].schema = After(statements[k], path[k - 1].schema)
             /\ path[k].stored = StoredAfter(statements[k], path[k - 1].stored)
  <2>1. path[k] = step(k, path[k - 1])
    BY <1>4
  <2> QED
    BY <1>3, <2>1
<1> QED
  BY <1>2, <1>4, <1>5

\* With fewer values stored no more statements are refused, and no more is left.
LEMMA FewerStored ==
    ASSUME NEW s \in Statements, NEW objects, NEW rows, NEW more, rows \subseteq more
    PROVE  /\ ~Refused(s, objects, more) => ~Refused(s, objects, rows)
           /\ StoredAfter(s, rows) \subseteq StoredAfter(s, more)
<1>1. s.does \in {"create", "drop", "rename", "retype", "update", "delete"}
  BY DEF Statements
<1>2. CASE s.does \in {"create", "drop", "rename"}
  BY <1>2 DEF Refused, StoredAfter
<1>3. CASE s.does = "retype"
  BY <1>3 DEF Refused, StoredAfter
<1>4. CASE s.does = "update"
  BY <1>4 DEF Refused, StoredAfter
<1>5. CASE s.does = "delete"
  BY <1>5 DEF Refused, StoredAfter
<1> QED
  BY <1>1, <1>2, <1>3, <1>4, <1>5

\* The statements of one migration, from the list of all of them.
LEMMA ListIsLists ==
    ASSUME NEW lists \in Seq(Lists), NEW n \in 1..Len(lists)
    PROVE  /\ lists[n] \in Seq(Statements) /\ Len(lists[n]) \in Nat \ {0}
           /\ DOMAIN lists[n] = 1..Len(lists[n])
           /\ \A k \in 1..Len(lists[n]) : lists[n][k] \in Statements
<1>1. lists[n] \in Lists
  BY ElementOfSeq
<1>2. lists[n] \in Seq(Statements) /\ lists[n] # <<>>
  BY <1>1 DEF Lists
<1> QED
  BY <1>2, EmptySeq, LenProperties, ElementOfSeq

\* A list that leads from a version to another begins at the one and ends in the other.
LEMMA WayEnds ==
    ASSUME NEW list \in Seq(Statements), NEW n, NEW m, Leads(list, n, m),
           NEW path, path = PathFrom(list, n)
    PROVE  /\ path[0].schema = VersionOf(n) /\ path[0].stored = Storable(VersionOf(n))
           /\ path[Len(list)].schema = VersionOf(m)
           /\ path[Len(list)].stored \subseteq Storable(VersionOf(m))
<1>1. path = Path(list, VersionOf(n), Storable(VersionOf(n))) /\ Len(list) \in Nat
  BY LenProperties DEF PathFrom
<1>2. path[0].schema = VersionOf(n) /\ path[0].stored = Storable(VersionOf(n))
  BY <1>1, PathEquations
<1>3. /\ path[Len(list)].schema = VersionOf(m)
      /\ path[Len(list)].stored \subseteq Storable(VersionOf(m))
  BY Zenon DEF Leads
<1> QED
  BY <1>2, <1>3

\* On its way, with at most what the path has stored, the next statement is not
\* refused and keeps to the path.
LEMMA OnTheWay ==
    ASSUME NEW list \in Seq(Statements), NEW n, NEW m, Leads(list, n, m),
           NEW path, path = PathFrom(list, n),
           NEW k \in 1..Len(list), NEW rows, rows \subseteq path[k - 1].stored
    PROVE  /\ ~Refused(list[k], path[k - 1].schema, rows)
           /\ After(list[k], path[k - 1].schema) = path[k].schema
           /\ StoredAfter(list[k], rows) \subseteq path[k].stored
<1>1. Len(list) \in Nat /\ k \in DOMAIN list /\ list[k] \in Statements
  BY LenProperties, ElementOfSeq
<1>2. /\ path[k].schema = After(list[k], path[k - 1].schema)
      /\ path[k].stored = StoredAfter(list[k], path[k - 1].stored)
  <2>1. path = Path(list, VersionOf(n), Storable(VersionOf(n))) /\ Len(list) \in Nat
    BY <1>1 DEF PathFrom
  <2> QED
    BY <2>1, PathEquations
<1>3. ~Refused(list[k], path[k - 1].schema, path[k - 1].stored)
  BY <1>1, Zenon DEF Leads
<1>4. /\ ~Refused(list[k], path[k - 1].schema, rows)
      /\ StoredAfter(list[k], rows) \subseteq StoredAfter(list[k], path[k - 1].stored)
  <2> DEFINE before == path[k - 1]
             s == list[k]
  <2>1. s \in Statements /\ rows \subseteq before.stored
    BY <1>1
  <2>2. ~Refused(s, before.schema, before.stored)
    BY <1>3
  <2> HIDE DEF before, s
  <2>3. /\ ~Refused(s, before.schema, rows)
        /\ StoredAfter(s, rows) \subseteq StoredAfter(s, before.stored)
    BY <2>1, <2>2, FewerStored
  <2> QED
    BY <2>3 DEF before, s
<1> QED
  BY <1>2, <1>4, Zenon

\* Both lists of a migration lead from one version to another.
LEMMA BothLead ==
    ASSUME MigrationsLead
    PROVE  /\ Len(Ups) \in Nat
           /\ \A n \in 1..Len(Ups) :
                 /\ Ups[n] \in Seq(Statements) /\ Leads(Ups[n], n - 1, n)
                 /\ Downs[n] \in Seq(Statements) /\ Leads(Downs[n], n, n - 1)
                 /\ Len(Ups[n]) \in Nat \ {0} /\ DOMAIN Ups[n] = 1..Len(Ups[n])
                 /\ Len(Downs[n]) \in Nat \ {0} /\ DOMAIN Downs[n] = 1..Len(Downs[n])
<1>1. /\ Ups \in Seq(Lists) /\ Downs \in Seq(Lists) /\ Len(Downs) = Len(Ups)
      /\ \A n \in 1..Len(Ups) : Leads(Ups[n], n - 1, n) /\ Leads(Downs[n], n, n - 1)
  <2>1. Ups \in Seq(Lists) /\ Downs \in Seq(Lists) /\ Len(Downs) = Len(Ups)
    BY ListsAssumption, Zenon
  <2>2. Len(Ups) \in Nat
    BY <2>1, LenProperties
  <2>3. ASSUME NEW n \in 1..Len(Ups)
        PROVE  Leads(Ups[n], n - 1, n) /\ Leads(Downs[n], n, n - 1)
    <3>1. /\ n \in 0..Len(Ups) /\ n - 1 \in 0..Len(Ups) /\ n > 0 /\ n - 1 < Len(Ups)
          /\ (n - 1) + 1 = n
      BY <2>2, <2>3
    <3>2. LeadsOn(n) /\ LeadsOn(n - 1)
      BY <3>1 DEF MigrationsLead
    <3> QED
      BY <3>1, <3>2 DEF LeadsOn
  <2> QED
    BY <2>1, <2>3
<1>2. Len(Ups) \in Nat
  BY <1>1, LenProperties
<1>3. ASSUME NEW n \in 1..Len(Ups)
      PROVE  /\ Ups[n] \in Seq(Statements)
             /\ Len(Ups[n]) \in Nat \ {0} /\ DOMAIN Ups[n] = 1..Len(Ups[n])
  BY <1>1, <1>3, ListIsLists, Zenon
<1>4. ASSUME NEW n \in 1..Len(Ups)
      PROVE  /\ Downs[n] \in Seq(Statements)
             /\ Len(Downs[n]) \in Nat \ {0} /\ DOMAIN Downs[n] = 1..Len(Downs[n])
  BY <1>1, <1>4, ListIsLists, Zenon
<1> QED
  BY <1>1, <1>2, <1>3, <1>4, Zenon

\* The list of a transaction, and the versions that it leads from and to.
ListOf(w) == IF w.does = "up" THEN Ups[w.of] ELSE Downs[w.of]
From(w) == IF w.does = "up" THEN w.of - 1 ELSE w.of
To(w) == IF w.does = "up" THEN w.of ELSE w.of - 1

\* The transaction is on its way, with that schema and those values stored.
OnWay(w, objects, rows) ==
    /\ w.at \in 1..Len(ListOf(w))
    /\ objects = PathFrom(ListOf(w), From(w))[w.at - 1].schema
    /\ rows \subseteq PathFrom(ListOf(w), From(w))[w.at - 1].stored

\* A transaction that begins is on its way.
LEMMA BeginsOnWay ==
    ASSUME MigrationsLead, NEW w, w.does \in {"up", "down"}, w.of \in 1..Len(Ups), w.at = 1,
           NEW rows, rows \subseteq Storable(VersionOf(From(w)))
    PROVE  OnWay(w, VersionOf(From(w)), rows)
<1>1. /\ ListOf(w) \in Seq(Statements) /\ Len(ListOf(w)) \in Nat \ {0}
      /\ Leads(ListOf(w), From(w), To(w))
  BY BothLead DEF ListOf, From, To
<1>2. /\ PathFrom(ListOf(w), From(w))[0].schema = VersionOf(From(w))
      /\ PathFrom(ListOf(w), From(w))[0].stored = Storable(VersionOf(From(w)))
  BY <1>1, WayEnds
<1>3. 1 \in 1..Len(ListOf(w)) /\ 1 - 1 = 0
  BY <1>1
<1> QED
  BY <1>2, <1>3 DEF OnWay

\* A statement of a transaction on its way is not refused; after it the transaction
\* is on its way at the next, or the database is at the version that the list leads to.
LEMMA StaysOnWay ==
    ASSUME MigrationsLead, NEW w, w.does \in {"up", "down"}, w.of \in 1..Len(Ups),
           NEW objects, NEW rows, OnWay(w, objects, rows),
           NEW s, s = ListOf(w)[w.at]
    PROVE  /\ ~Refused(s, objects, rows)
           /\ w.at \in 1..Len(ListOf(w)) /\ Len(ListOf(w)) \in Nat
           /\ w.at # Len(ListOf(w)) =>
                 \A v : v.does = w.does /\ v.of = w.of /\ v.at = w.at + 1 =>
                    OnWay(v, After(s, objects), StoredAfter(s, rows))
           /\ w.at = Len(ListOf(w)) =>
                 /\ After(s, objects) = VersionOf(To(w))
                 /\ StoredAfter(s, rows) \subseteq Storable(VersionOf(To(w)))
<1> DEFINE list == ListOf(w)
           path == PathFrom(list, From(w))
           k == w.at
<1>1. list \in Seq(Statements) /\ Len(list) \in Nat /\ Leads(list, From(w), To(w))
  BY BothLead DEF ListOf, From, To
<1>2. k \in 1..Len(list) /\ objects = path[k - 1].schema /\ rows \subseteq path[k - 1].stored
  BY DEF OnWay
<1>3. /\ ~Refused(s, objects, rows)
      /\ After(s, objects) = path[k].schema /\ StoredAfter(s, rows) \subseteq path[k].stored
      /\ path[Len(list)].schema = VersionOf(To(w))
      /\ path[Len(list)].stored \subseteq Storable(VersionOf(To(w)))
  <2>1. /\ ~Refused(list[k], path[k - 1].schema, rows)
        /\ After(list[k], path[k - 1].schema) = path[k].schema
        /\ StoredAfter(list[k], rows) \subseteq path[k].stored
    <3> HIDE DEF list, k
    <3> QED
      BY <1>1, <1>2, OnTheWay DEF path
  <2>2. /\ path[Len(list)].schema = VersionOf(To(w))
        /\ path[Len(list)].stored \subseteq Storable(VersionOf(To(w)))
    <3> HIDE DEF list
    <3> QED
      BY <1>1, WayEnds DEF path
  <2> HIDE DEF path
  <2> QED
    BY <1>2, <2>1, <2>2
<1>4. ASSUME k # Len(list), NEW v, v.does = w.does, v.of = w.of, v.at = k + 1
      PROVE  OnWay(v, After(s, objects), StoredAfter(s, rows))
  <2>1. ListOf(v) = list /\ From(v) = From(w)
    BY <1>4 DEF ListOf, From
  <2>2. k + 1 \in 1..Len(list) /\ (k + 1) - 1 = k
    <3> HIDE DEF list
    <3> QED
      BY <1>1, <1>2, <1>4
  <2> HIDE DEF list, path
  <2> QED
    BY <1>3, <1>4, <2>1, <2>2 DEF OnWay, path
<1> HIDE DEF list, path
<1> QED
  BY <1>1, <1>2, <1>3, <1>4 DEF list

\* MigrationsFollow, with the transaction as a parameter.
Underway(w, objects, rows, n) ==
    /\ w = [does |-> w.does, at |-> w.at, of |-> w.of, before |-> w.before, stored |-> w.stored]
    /\ \/ w.does = "up" /\ w.of \in (n + 1)..Len(Ups)
       \/ w.does = "down" /\ w.of = n /\ n > 0
    /\ OnWay(w, objects, rows)
    /\ w.before = VersionOf(n) /\ w.stored \subseteq Storable(w.before)

\* MigrationsFollow, of a state.
LEMMA FollowsMeans ==
    ASSUME MigrationsLead, MigrationsFollow
    PROVE  /\ applied \in 0..Len(Ups)
           /\ runs > 0 => Resting /\ applied = Len(Ups)
           /\ Resting => schema = VersionOf(applied) /\ stored \subseteq Storable(schema)
           /\ ~Resting => Underway(work, schema, stored, applied) /\ Pending = ListOf(work)
<1>1. ASSUME ~Resting
      PROVE  Underway(work, schema, stored, applied) /\ Pending = ListOf(work)
  <2>1. work.of \in 1..Len(Ups) /\ work.does \in {"up", "down"}
    BY <1>1, BothLead DEF MigrationsFollow
  <2>2. /\ Pending = ListOf(work) /\ DOMAIN ListOf(work) = 1..Len(ListOf(work))
        /\ Way = PathFrom(ListOf(work), From(work))[work.at - 1]
    BY <2>1, BothLead DEF Pending, ListOf, Way, From
  <2> QED
    BY <1>1, <2>2 DEF MigrationsFollow, Underway, OnWay
<1> QED
  BY <1>1 DEF MigrationsFollow

\* What to show of a step for MigrationsFollow.
LEMMA FollowsNext ==
    ASSUME MigrationsLead, applied' \in 0..Len(Ups),
           runs' > 0 => Resting' /\ applied' = Len(Ups),
           Resting' => schema' = VersionOf(applied') /\ stored' \subseteq Storable(schema'),
           ~Resting' => Underway(work', schema', stored', applied')
    PROVE  MigrationsFollow'
<1>1. ASSUME ~Resting'
      PROVE  /\ Pending' = ListOf(work') /\ DOMAIN ListOf(work') = 1..Len(ListOf(work'))
             /\ Way' = PathFrom(ListOf(work'), From(work'))[work'.at - 1]
  <2>1. work'.of \in 1..Len(Ups) /\ work'.does \in {"up", "down"}
    BY <1>1, BothLead DEF Underway
  <2> QED
    BY <2>1, BothLead DEF Pending, ListOf, Way, From
<1> QED
  BY <1>1 DEF MigrationsFollow, Underway, OnWay

\* Execute preserves it: the transaction goes on, or commits at a version.
LEMMA ExecuteFollows ==
    ASSUME MigrationsLead, MigrationsFollow, Execute
    PROVE  MigrationsFollow'
<1> DEFINE s == ListOf(work)[work.at]
           w == work'
<1>1. /\ ~Resting /\ applied \in 0..Len(Ups) /\ Len(Ups) \in Nat
      /\ Underway(work, schema, stored, applied) /\ Pending = ListOf(work)
      /\ ~(runs > 0) /\ runs' = runs
  BY FollowsMeans, BothLead DEF Execute, seedVars
<1>2. /\ work = [does |-> work.does, at |-> work.at, of |-> work.of,
                 before |-> work.before, stored |-> work.stored]
      /\ \/ work.does = "up" /\ work.of \in (applied + 1)..Len(Ups)
         \/ work.does = "down" /\ work.of = applied /\ applied > 0
      /\ OnWay(work, schema, stored)
      /\ work.before = VersionOf(applied) /\ work.stored \subseteq Storable(work.before)
  BY <1>1 DEF Underway
<1>3. work.does \in {"up", "down"} /\ work.of \in 1..Len(Ups)
  BY <1>1, <1>2
<1>4. schema' = After(s, schema) /\ stored' = StoredAfter(s, stored)
  BY <1>1 DEF Execute, Statement
<1>5. /\ work.at \in 1..Len(ListOf(work)) /\ Len(ListOf(work)) \in Nat
      /\ work.at # Len(ListOf(work)) =>
            \A v : v.does = work.does /\ v.of = work.of /\ v.at = work.at + 1 =>
               OnWay(v, schema', stored')
      /\ work.at = Len(ListOf(work)) =>
            schema' = VersionOf(To(work)) /\ stored' \subseteq Storable(VersionOf(To(work)))
  BY <1>2, <1>3, <1>4, StaysOnWay
<1>6. CASE work.at # Len(ListOf(work))
  <2>1. applied' = applied /\ w = [work EXCEPT !.at = work.at + 1, !.of = work.of]
    BY <1>1, <1>6 DEF Execute
  <2>2. /\ w = [does |-> w.does, at |-> w.at, of |-> w.of, before |-> w.before,
                stored |-> w.stored]
        /\ w.does = work.does /\ w.of = work.of /\ w.at = work.at + 1
        /\ w.before = work.before /\ w.stored = work.stored
    BY <1>2, <2>1
  <2>3. OnWay(w, schema', stored')
    BY <1>5, <1>6, <2>2
  <2>4. Underway(w, schema', stored', applied')
    BY <1>2, <2>1, <2>2, <2>3 DEF Underway
  <2>5. ~Resting'
    BY <1>3, <2>2 DEF Resting, NoWork
  <2> QED
    BY <1>1, <2>1, <2>4, <2>5, FollowsNext
<1>7. CASE work.at = Len(ListOf(work)) /\ work.does = "up" /\ work.of # Len(Ups)
  <2>1. applied' = applied /\ w = [work EXCEPT !.at = 1, !.of = work.of + 1]
    BY <1>1, <1>7 DEF Execute
  <2>2. /\ w = [does |-> w.does, at |-> w.at, of |-> w.of, before |-> w.before,
                stored |-> w.stored]
        /\ w.does = "up" /\ w.of = work.of + 1 /\ w.at = 1
        /\ w.before = work.before /\ w.stored = work.stored
    BY <1>2, <1>7, <2>1
  <2>3. w.of \in (applied + 1)..Len(Ups) /\ w.of \in 1..Len(Ups) /\ From(w) = work.of
    BY <1>1, <1>2, <1>3, <1>7, <2>2 DEF From
  <2>4. schema' = VersionOf(From(w)) /\ stored' \subseteq Storable(VersionOf(From(w)))
    BY <1>5, <1>7, <2>3 DEF To
  <2>5. OnWay(w, schema', stored')
    BY <2>2, <2>3, <2>4, BeginsOnWay
  <2>6. Underway(w, schema', stored', applied')
    BY <1>2, <2>1, <2>2, <2>3, <2>5 DEF Underway
  <2>7. ~Resting'
    BY <2>2 DEF Resting, NoWork
  <2> QED
    BY <1>1, <2>1, <2>6, <2>7, FollowsNext
<1>8. CASE work.at = Len(ListOf(work)) /\ (work.does = "down" \/ work.of = Len(Ups))
  <2>1. w = NoWork /\ applied' = IF work.does = "up" THEN Len(Ups) ELSE applied - 1
    BY <1>1, <1>8 DEF Execute
  <2>2. applied' = To(work) /\ applied' \in 0..Len(Ups)
    BY <1>1, <1>2, <1>8, <2>1 DEF To
  <2>3. schema' = VersionOf(applied') /\ stored' \subseteq Storable(schema')
    BY <1>5, <1>8, <2>2
  <2>4. Resting'
    BY <2>1 DEF Resting
  <2> QED
    BY <1>1, <2>2, <2>3, <2>4, FollowsNext
<1> QED
  BY <1>3, <1>6, <1>7, <1>8

\* A transaction that begins follows from the version the database is at.
LEMMA BeginFollows ==
    ASSUME MigrationsLead, MigrationsFollow, MigrationRun \/ MigrationRevert
    PROVE  MigrationsFollow'
<1> DEFINE w == work'
<1>1. PICK does \in {"up", "down"}, of \in {applied, applied + 1} :
         /\ does = "up" => applied < Len(Ups) /\ of = applied + 1
         /\ does = "down" => applied > 0 /\ of = applied
         /\ Begin(does, of)
  BY DEF MigrationRun, MigrationRevert
<1>2. /\ Resting /\ applied \in 0..Len(Ups) /\ Len(Ups) \in Nat
      /\ schema = VersionOf(applied) /\ stored \subseteq Storable(schema)
      /\ w = [does |-> does, at |-> 1, of |-> of, before |-> schema, stored |-> stored]
      /\ schema' = schema /\ applied' = applied /\ stored' = stored /\ runs' = 0
  BY <1>1, FollowsMeans, BothLead DEF Begin, seedVars
<1>3. /\ w = [does |-> w.does, at |-> w.at, of |-> w.of, before |-> w.before, stored |-> w.stored]
      /\ w.does = does /\ w.at = 1 /\ w.of = of /\ w.before = schema /\ w.stored = stored
  BY <1>2
<1>4. of \in 1..Len(Ups) /\ From(w) = applied
  BY <1>1, <1>2, <1>3 DEF From
<1>5. OnWay(w, schema', stored')
  BY <1>2, <1>3, <1>4, BeginsOnWay
<1>6. Underway(w, schema', stored', applied')
  BY <1>1, <1>2, <1>3, <1>4, <1>5 DEF Underway
<1>7. ~Resting'
  BY <1>3 DEF Resting, NoWork
<1> QED
  BY <1>2, <1>6, <1>7, FollowsNext

\* Every step preserves MigrationsFollow.
LEMMA StepFollows ==
    ASSUME MigrationsLead, SeedTypeOK, MigrationsFollow, [Next]_vars
    PROVE  MigrationsFollow'
<1>1. CASE RollBack
  <2>1. /\ Resting' /\ schema' = work.before /\ stored' = work.stored /\ applied' = applied
        /\ runs' = runs /\ ~Resting
    BY <1>1 DEF RollBack, Resting, seedVars
  <2>2. /\ Underway(work, schema, stored, applied) /\ applied \in 0..Len(Ups) /\ ~(runs > 0)
    BY <2>1, FollowsMeans
  <2> QED
    BY <2>1, <2>2, FollowsNext DEF Underway
<1>2. CASE StoreValue
  <2>1. PICK v \in Storable(schema) : stored' = stored \cup {v}
    BY <1>2 DEF StoreValue
  <2>2. /\ Resting /\ Resting' /\ UNCHANGED <<schema, applied, runs>>
    BY <1>2 DEF StoreValue, Resting, seedVars
  <2> QED
    BY <2>1, <2>2, FollowsMeans, FollowsNext
<1>3. ASSUME UNCHANGED migrationVars, runs' > 0 => Resting /\ applied = Len(Ups)
      PROVE  MigrationsFollow'
  <2>1. UNCHANGED <<schema, applied, stored, work>> /\ (Resting' <=> Resting)
    BY <1>3 DEF migrationVars, Resting
  <2> QED
    BY <1>3, <2>1, FollowsMeans, FollowsNext
<1>4. ASSUME NEW day \in Days, StartSeed(day)
      PROVE  MigrationsFollow'
  BY <1>3, <1>4 DEF StartSeed
<1>5. CASE \/ SaveRow \/ ReadReviews \/ SaveTour \/ EndSeed \/ CrashSeed \/ UNCHANGED vars
           \/ \E t \in Watched : PostReview(t) \/ SuspendTour(t)
  <2>1. UNCHANGED migrationVars /\ runs' = runs
    BY <1>5 DEF SaveRow, ReadReviews, SaveTour, EndSeed, CrashSeed, vars, seedVars,
       PostReview, SuspendTour, Deed
  <2> QED
    BY <1>3, <2>1, FollowsMeans
<1> QED
  BY <1>1, <1>2, <1>4, <1>5, BeginFollows, ExecuteFollows DEF Next, Days

\* A database that is migrated and reverted in any order, that stores what its enums
\* allow in between and loses connections, is always at a version or on the way from
\* one to the next (up() and down() of every migration, each run in a transaction).
THEOREM MigrationsFollowed ==
    ASSUME MigrationsLead
    PROVE  Spec => []MigrationsFollow
<1>1. Init => MigrationsFollow
  <2> SUFFICES ASSUME Init PROVE MigrationsFollow
    OBVIOUS
  <2>1. schema = {} /\ stored = {} /\ applied = 0 /\ work = NoWork /\ runs = 0
    BY Zenon DEF Init
  <2>2. VersionOf(0) = {} /\ 0 \in 0..Len(Ups)
    BY BothLead DEF VersionOf
  <2> QED
    BY <2>1, <2>2 DEF MigrationsFollow, Resting
<1>2. SeedTypeOK /\ MigrationsFollow /\ [Next]_vars => MigrationsFollow'
  BY StepFollows
<1> QED
  BY <1>1, <1>2, SeedTypeCorrect, PTL DEF Spec

\* No statement of a migration is ever refused, however many values are stored and
\* whatever was migrated, reverted and rolled back before; between two transactions
\* the schema is that of its version, the last one is what the entity classes
\* describe, and a stored value is one of its enum (up() and down()).
THEOREM MigrationsAlwaysFit ==
    ASSUME MigrationsLead
    PROVE  Spec => []MigrationsFit
<1>1. ASSUME MigrationsFollow PROVE MigrationsApply
  <2> SUFFICES ASSUME ~Resting PROVE ~Refused(Statement, schema, stored)
    BY DEF MigrationsApply
  <2>1. /\ OnWay(work, schema, stored) /\ Pending = ListOf(work)
        /\ work.does \in {"up", "down"} /\ work.of \in 1..Len(Ups)
    BY <1>1, FollowsMeans, BothLead DEF Underway
  <2> QED
    BY <2>1, StaysOnWay DEF Statement
<1>2. ASSUME MigrationsFollow PROVE VersionsFit
  <2> SUFFICES ASSUME Resting
               PROVE  /\ schema = VersionOf(applied)
                      /\ applied = Len(Ups) => Declared(schema) = EntitySchema
                      /\ stored \subseteq schema
    BY DEF VersionsFit
  <2>1. schema = VersionOf(applied) /\ stored \subseteq Storable(schema)
    BY <1>2, FollowsMeans
  <2>2. Storable(schema) \subseteq schema
    BY DEF Storable
  <2>3. Declared(VersionOf(Len(Ups))) = EntitySchema
    <3>1. Len(Ups) \in 0..Len(Ups)
      BY BothLead
    <3>2. LeadsOn(Len(Ups))
      BY <3>1, Zenon DEF MigrationsLead
    <3> QED
      BY <3>2, Zenon DEF LeadsOn
  <2> QED
    BY <2>1, <2>2, <2>3
<1>3. MigrationsFollow => MigrationsFit
  BY <1>1, <1>2 DEF MigrationsFit
<1> QED
  BY <1>3, MigrationsFollowed, PTL

\* A run of the seed script is never refused and skips nothing: when it takes a step,
\* the rows that it refers to are there, its table is, and the enums have the values
\* that it stores (seed(), which is run on the schema of all migrations).
THEOREM SeedsAlwaysFit ==
    ASSUME ListsLead
    PROVE  Spec => []SeedsFit
<1>1. MigrationsLead /\ \A day \in Days : NeedsComeFirst(day)
  BY DEF ListsLead
<1>2. ASSUME SeedTypeOK, RunsFindRows, MigrationsFollow PROVE SeedsFit
  <2> SUFFICES ASSUME Running
               PROVE  /\ Current.needs \subseteq db
                      /\ Current.values \subseteq schema
                      /\ \A k \in DOMAIN Current.saves :
                            Table(Current.saves[k].table) \in schema
    BY DEF SeedsFit
  <2>1. /\ run # NoRun /\ run.day \in Days /\ run.at \in DOMAIN Script(run.day)
        /\ Current = Script(run.day)[run.at] /\ runs > 0
    BY <1>2, CurrentStep DEF Running
  <2>2. schema = VersionOf(Len(Ups))
    BY <1>1, <1>2, <2>1, FollowsMeans
  <2>3. /\ \A row \in Current.needs :
              \E j \in 1..(run.at - 1) : LooksFor(Script(run.day)[j], row)
        /\ Current.values \subseteq VersionOf(Len(Ups))
        /\ \A i \in DOMAIN Current.saves :
              Table(Current.saves[i].table) \in VersionOf(Len(Ups))
    BY <1>1, <2>1, Zenon DEF NeedsComeFirst
  <2>4. \A j \in 1..(run.at - 1) : \A row :
           LooksFor(Script(run.day)[j], row) => row \in db
    BY <1>2, <2>1 DEF RunsFindRows, Found, LooksFor
  <2> QED
    BY <2>2, <2>3, <2>4
<1>3. SeedTypeOK /\ RunsFindRows /\ MigrationsFollow => SeedsFit
  BY <1>2
<1> QED
  BY <1>1, <1>3, MigrationsFollowed, SeedTypeCorrect, RowsStayFound, PTL
=============================================================================

------------------------------ MODULE Database ------------------------------
(***************************************************************************)
(* The database over its life: it is migrated and migrations are reverted, *)
(* and the seed script is run on it, again and again, while the service    *)
(* works on it. The pending migrations run in one transaction and one is   *)
(* reverted in one; the seed script runs in none, and may stop anywhere.   *)
(*                                                                         *)
(* A run of the seed script goes straight to the next of its steps that    *)
(* has something to do: a step whose row is there changes nothing.         *)
(***************************************************************************)
EXTENDS Migrations, Entities, Seeds

CONSTANTS
    Watched,        \* tours that the service reviews or suspends
    Stars,          \* of the service's reviews
    LastDay,        \* the seed script is run on the days 1..LastDay
    MaxRuns,        \* bound on the runs of the seed script
    MaxEvents,      \* bound on the crashes and on what the service does, together
    MaxStored       \* bound on the values stored under enums that change

ASSUME DatabaseAssumption ==
    /\ Watched \subseteq ToSet(ReviewedSlugs)
    /\ Stars \in 1..5
    /\ LastDay \in Nat
    /\ MaxRuns \in Nat /\ MaxEvents \in Nat /\ MaxStored \in Nat

VARIABLES
    schema,         \* its objects
    applied,        \* how many migrations are applied
    stored,         \* values stored in a column whose enum changes
    work,           \* the transaction of migrations: none, up or down
    db,             \* the rows of the seed script, and the service's reviews
    tours,          \* tour with seeded reviews -> its status and rating
    run,            \* the run of the seed script
    runs,           \* how many were started
    completed,      \* days of which a run ended
    cut,            \* history: rows a crash left out behind their parent
    suspended,      \* history: tours the service has suspended
    crossed,        \* history: tours the service changed between a run's look at
                    \* them and its save
    events          \* crashes and deeds of the service so far

migrationVars == <<schema, applied, stored, work>>
seedVars == <<db, tours, run, runs, completed, cut, suspended, crossed>>
vars == <<migrationVars, seedVars, events>>

Slugs == ToSet(ReviewedSlugs)
NoWork == [does |-> "none", at |-> 0, of |-> 0, before |-> {}, stored |-> {}]
FreshRun(does, day, from) ==
    [does |-> does, day |-> day, at |-> from, saved |-> 0, held |-> [t \in Slugs |-> ""],
     read |-> [count |-> 0, sum |-> 0]]
NoRun == FreshRun("none", 0, 0)

Init ==
    /\ schema = {} /\ applied = 0 /\ stored = {} /\ work = NoWork
    /\ db = {} /\ run = NoRun /\ runs = 0 /\ completed = {} /\ cut = {}
    /\ tours = [t \in Slugs |-> [status |-> "", count |-> 0, sum |-> 0]]
    /\ suspended = {} /\ crossed = {} /\ events = 0

-----------------------------------------------------------------------------
(* Migrations. They are explored before the first row is seeded.           *)

Resting == work = NoWork
Pending == IF work.does = "up" THEN Ups[work.of] ELSE Downs[work.of]
Statement == Pending[work.at]

Begin(does, of) ==
    /\ Resting
    /\ db = {} /\ run = NoRun /\ runs = 0
    /\ work' = [does |-> does, at |-> 1, of |-> of, before |-> schema, stored |-> stored]
    /\ UNCHANGED <<schema, applied, stored, seedVars, events>>

MigrationRun == applied < Len(Ups) /\ Begin("up", applied + 1)
MigrationRevert == applied > 0 /\ Begin("down", applied)

\* The transaction goes on to the next statement, or to the next migration, and
\* commits after the last.
Execute ==
    LET last == work.at = Len(Pending)
        of == IF work.does = "up" THEN work.of + 1 ELSE work.of
        commits == last /\ (work.does = "down" \/ work.of = Len(Ups))
    IN
    /\ ~Resting
    /\ ~Refused(Statement, schema, stored)
    /\ schema' = After(Statement, schema)
    /\ stored' = StoredAfter(Statement, stored)
    /\ work' = IF commits THEN NoWork
               ELSE [work EXCEPT !.at = IF last THEN 1 ELSE @ + 1,
                                 !.of = IF last THEN of ELSE @]
    /\ applied' = IF ~commits THEN applied
                  ELSE IF work.does = "up" THEN Len(Ups) ELSE applied - 1
    /\ UNCHANGED <<seedVars, events>>

\* The connection is lost, and the transaction rolled back.
RollBack ==
    /\ ~Resting
    /\ events < MaxEvents
    /\ schema' = work.before
    /\ stored' = work.stored
    /\ work' = NoWork
    /\ events' = events + 1
    /\ UNCHANGED <<applied, seedVars>>

\* The service of that version stores what its enums allow.
Storable(objects) ==
    {v \in objects : /\ v.kind = "value"
                     /\ <<v.of, v.on>> \in {<<"users", {"role"}>>, <<"favorites", {"type"}>>}}

StoreValue ==
    /\ Resting
    /\ db = {} /\ runs = 0
    /\ Cardinality(stored) < MaxStored
    /\ \E v \in Storable(schema) : stored' = stored \cup {v}
    /\ UNCHANGED <<schema, applied, work, seedVars, events>>

-----------------------------------------------------------------------------
(* The seed script.                                                        *)

\* A sequence whose elements TLC computes once.
Explicit(s) == <<>> \o s
Plan == Explicit([n \in 1..MaxRuns |-> Explicit([day \in 1..LastDay |-> seed(day, n)])])
Steps == Plan[runs][run.day]
Current == Steps[run.at]

\* Whether the step does anything, on a database with these rows.
Due(step, rows) == step.does # "ensure" \/ step.saves[1] \notin rows

\* The run goes on at the next due step from there, and holds the tours that it
\* has found, or saved, on the way.
GoOn(steps, r, from, rows, now) ==
    LET to == CHOOSE k \in from..(Len(steps) + 1) :
                  /\ k \in DOMAIN steps => Due(steps[k], rows)
                  /\ \A j \in from..(k - 1) : ~Due(steps[j], rows)
        passed == {steps[k].saves[1] : k \in {k \in r.at..(to - 1) : steps[k].does = "ensure"}}
    IN  [r EXCEPT !.at = to, !.saved = 0, !.held =
            [t \in Slugs |-> IF TourRow(t) \in passed THEN now[t].status ELSE r.held[t]]]

\* On a day that is not before the last.
StartSeed(day) ==
    /\ Resting /\ applied = Len(Ups) /\ stored = {}
    /\ run = NoRun
    /\ runs < MaxRuns
    /\ \A d \in completed : d <= day
    /\ runs' = runs + 1
    /\ run' = GoOn(Plan[runs + 1][day], FreshRun("seed", day, 1), 1, db, tours)
    /\ UNCHANGED <<migrationVars, db, tours, completed, cut, suspended, crossed, events>>

Running == run # NoRun /\ run.at <= Len(Steps)

\* fault: what goes with the row that was looked for is not saved
SaveFirst ==
    LET row == Current.saves[1]
        rows == db \cup {row}
        now == [t \in Slugs |-> IF row = TourRow(t) THEN [tours[t] EXCEPT !.status = "APPROVED"]
                                ELSE tours[t]]
    IN
    /\ Running
    /\ Current.does = "ensure"
    /\ db' = rows
    /\ tours' = now
    /\ run' = GoOn(Steps, run, run.at + 1, rows, now)
    /\ UNCHANGED <<migrationVars, runs, completed, cut, suspended, crossed, events>>

\* One row is saved: what was looked for, or one of the rows that go with it.
SaveRow ==
    LET row == Current.saves[run.saved + 1]
        rows == db \cup {row}
        now == [t \in Slugs |-> IF row = TourRow(t) THEN [tours[t] EXCEPT !.status = "APPROVED"]
                                ELSE tours[t]]
    IN
    /\ Running
    /\ Current.does = "ensure"
    /\ db' = rows
    /\ tours' = now
    /\ run' = IF run.saved + 1 < Len(Current.saves) THEN [run EXCEPT !.saved = @ + 1]
              ELSE GoOn(Steps, run, run.at + 1, rows, now)
    /\ UNCHANGED <<migrationVars, runs, completed, cut, suspended, crossed, events>>

\* The reviews of a tour: the seeded ones, and one of the service's.
LiveReview(t) == Row("reviews", t, 1)
SeededReviews(t) == {k \in DOMAIN seedReviews : seedReviews[k].tourSlug = t}
Rating(t) ==
    LET mine == {k \in SeededReviews(t) : Review(k) \in db}
        live == IF LiveReview(t) \in db THEN 1 ELSE 0
    IN  [count |-> Cardinality(mine) + live,
         sum |-> SumFunction([k \in mine |-> seedReviews[k].rating]) + live * Stars]

Recomputed == CHOOSE t \in Slugs : TourRow(t) = Current.saves[1]

ReadReviews ==
    /\ Running
    /\ Current.does = "read"
    /\ run' = [run EXCEPT !.at = @ + 1, !.read = Rating(Recomputed)]
    /\ UNCHANGED <<migrationVars, db, tours, runs, completed, cut, suspended, crossed, events>>

\* fault: the sum of the ratings is added to what the tour had
AddRating ==
    LET t == Recomputed
        now == [tours EXCEPT ![t] = [status |-> run.held[t], count |-> @.count + run.read.count,
                                     sum |-> @.sum + run.read.sum]]
    IN
    /\ Running
    /\ Current.does = "save"
    /\ tours' = now
    /\ run' = GoOn(Steps, run, run.at + 1, db, now)
    /\ UNCHANGED <<migrationVars, db, runs, completed, cut, suspended, crossed, events>>

\* save() of the tour that the run loaded: the columns that differ are updated,
\* the status included if it has changed since.
SaveTour ==
    LET t == Recomputed
        now == [tours EXCEPT ![t] = [status |-> run.held[t], count |-> run.read.count,
                                     sum |-> run.read.sum]]
    IN
    /\ Running
    /\ Current.does = "save"
    /\ tours' = now
    /\ run' = GoOn(Steps, run, run.at + 1, db, now)
    /\ UNCHANGED <<migrationVars, db, runs, completed, cut, suspended, crossed, events>>

EndSeed ==
    /\ run # NoRun
    /\ run.at > Len(Steps)
    /\ completed' = completed \cup {run.day}
    /\ run' = NoRun
    /\ UNCHANGED <<migrationVars, db, tours, runs, cut, suspended, crossed, events>>

\* The script stops; what goes with a row that it has saved is never made up for.
CrashSeed ==
    /\ Running
    /\ events < MaxEvents
    /\ events' = events + 1
    /\ cut' = IF run.saved = 0 THEN cut
              ELSE cut \cup ToSet(SubSeq(Current.saves, run.saved + 1, Len(Current.saves)))
    /\ run' = NoRun
    /\ UNCHANGED <<migrationVars, db, tours, runs, completed, suspended, crossed>>

-----------------------------------------------------------------------------
(* What the migrations come to, with the statements of the migrations.     *)

\* The statements, run on a schema and the values stored under it: what there is
\* after the first k.
Path(statements, objects, rows) ==
    LET state[k \in 0..Len(statements)] ==
            IF k = 0 THEN [schema |-> objects, stored |-> rows]
            ELSE LET before == state[k - 1]
                 IN  [schema |-> After(statements[k], before.schema),
                      stored |-> StoredAfter(statements[k], before.stored)]
    IN  state

Objects == [kind : STRING, of : STRING, on : SUBSET STRING, value : STRING]

\* The schema that the first n migrations lead to from nothing.
Version(n) ==
    LET after[k \in 0..n, objects \in SUBSET Objects] ==
            IF k = n THEN objects
            ELSE after[k + 1, Path(Ups[k + 1], objects, {})[Len(Ups[k + 1])].schema]
    IN  after[0, {}]
Versions == Explicit([n \in 1..Len(Ups) |-> Version(n)])

VersionOf(n) == IF n = 0 THEN {} ELSE Versions[n]

Declared(s) ==
    {x \in s : x.kind \in {"table", "column", "type", "old type", "value", "unique", "index"}}

PathFrom(statements, n) == Path(statements, VersionOf(n), Storable(VersionOf(n)))

\* From one version to another, with every value stored that the first one has a
\* place for: no statement is refused, and the other has a place for what is left.
Leads(statements, n, m) ==
    LET path == PathFrom(statements, n)
        end == path[Len(statements)]
    IN  /\ \A k \in DOMAIN statements :
              ~Refused(statements[k], path[k - 1].schema, path[k - 1].stored)
        /\ end.schema = VersionOf(m) /\ end.stored \subseteq Storable(VersionOf(m))

Statements == [does : {"create", "drop", "rename", "retype", "update", "delete"},
               things : SUBSET Objects, to : STRING]
Lists == Seq(Statements) \ {<<>>}

ASSUME ListsAssumption ==
    Ups \in Seq(Lists) /\ Downs \in Seq(Lists) /\ Len(Downs) = Len(Ups)

\* From the version the next migration leads to the next one, and the revert of the
\* last migration to the one before; the last version is what the entities declare.
LeadsOn(n) ==
    /\ n < Len(Ups) => Leads(Ups[n + 1], n, n + 1)
    /\ n > 0 => Leads(Downs[n], n, n - 1)
    /\ n = Len(Ups) => Declared(VersionOf(n)) = EntitySchema

-----------------------------------------------------------------------------
(* What the script comes to, with the rows of seeds/data.                  *)

RowKeys == [table : STRING, key : STRING, n : Int]
ScriptSteps == [does : {"ensure", "read", "save"}, saves : Seq(RowKeys) \ {<<>>},
                needs : SUBSET RowKeys, values : SUBSET Objects]

Script(day) == seed(day, 1)
Days == 1..LastDay

\* The step s looks for the row.
LooksFor(s, row) == s.does = "ensure" /\ s.saves[1] = row
Saves(s, t) == s.does = "save" /\ s.saves[1] = TourRow(t)

\* No row is found twice with other rows to go with it, and none that goes with
\* a row is looked for; nor is any of them a review of the service's.
FirstRowsTell ==
    \A day, other \in Days : \A s \in ToSet(Script(day)), r \in ToSet(Script(other)) :
        s.does = "ensure" /\ r.does = "ensure" =>
            /\ s.saves[1] = r.saves[1] => s.saves = r.saves
            /\ \A i \in DOMAIN s.saves : i > 1 => s.saves[i] # r.saves[1]
            /\ \A i \in DOMAIN s.saves, t \in Slugs : s.saves[i] # LiveReview(t)

\* Every reviewed tour and each of its reviews are looked for; then the reviews
\* are read, and the tour is saved right after, once.
RatingsComeLast ==
    \A day \in Days : LET s == Script(day) IN
        /\ \A k \in DOMAIN s : s[k].does = "read" =>
              /\ k + 1 \in DOMAIN s /\ s[k + 1].does = "save"
              /\ s[k + 1].saves = s[k].saves
        /\ \A k \in DOMAIN s : s[k].does = "save" =>
              /\ k - 1 \in DOMAIN s /\ s[k - 1].does = "read"
              /\ \E t \in Slugs : s[k].saves = <<TourRow(t)>> /\ s[k - 1].saves = <<TourRow(t)>>
        /\ \A t \in Slugs : \E k \in DOMAIN s :
              /\ Saves(s[k], t) /\ \A j \in DOMAIN s : Saves(s[j], t) => j = k
              /\ \E j \in 1..(k - 1) : LooksFor(s[j], TourRow(t))
              /\ \A n \in SeededReviews(t) : \E j \in 1..(k - 1) : LooksFor(s[j], Review(n))

\* Every row that a step refers to is looked for before, and what it stores the
\* schema of all migrations has a place for.
NeedsComeFirst(day) ==
    LET s == Script(day) IN \A k \in DOMAIN s :
        /\ \A row \in s[k].needs : \E j \in 1..(k - 1) : LooksFor(s[j], row)
        /\ s[k].values \subseteq VersionOf(Len(Ups))
        /\ \A i \in DOMAIN s[k].saves : Table(s[k].saves[i].table) \in VersionOf(Len(Ups))

ASSUME ScriptAssumption ==
    /\ \A day \in Days : Script(day) \in Seq(ScriptSteps)
    /\ FirstRowsTell
    /\ RatingsComeLast
    /\ \A t \in Slugs :
          /\ IsFiniteSet(SeededReviews(t))
          /\ \A mine \in SUBSET SeededReviews(t) :
                SumFunction([k \in mine |-> seedReviews[k].rating]) \in Nat

-----------------------------------------------------------------------------
(* The service, at work on a seeded tour.                                  *)

\* The run has looked at the tour, or at its reviews, and has still to save it.
StillToSave(t) == \E k \in run.at..Len(Steps) :
                     Steps[k].does = "save" /\ Steps[k].saves[1] = TourRow(t)
Between(t, rating) ==
    /\ Running
    /\ StillToSave(t)
    /\ IF rating THEN Current.does = "save" /\ Recomputed = t ELSE run.held[t] # ""

Deed(t, rating) ==
    /\ events < MaxEvents
    /\ TourRow(t) \in db
    /\ events' = events + 1
    /\ crossed' = IF Between(t, rating) THEN crossed \cup {t} ELSE crossed
    /\ UNCHANGED <<migrationVars, run, runs, completed, cut>>

PostReview(t) ==
    /\ LiveReview(t) \notin db
    /\ db' = db \cup {LiveReview(t)}
    /\ tours' = [tours EXCEPT ![t] = [status |-> @.status, count |-> @.count + 1,
                                      sum |-> @.sum + Stars]]
    /\ suspended' = suspended
    /\ Deed(t, TRUE)

SuspendTour(t) ==
    /\ t \notin suspended
    /\ tours' = [tours EXCEPT ![t].status = "SUSPENDED"]
    /\ suspended' = suspended \cup {t}
    /\ db' = db
    /\ Deed(t, FALSE)

-----------------------------------------------------------------------------
Next ==
    \/ MigrationRun \/ MigrationRevert \/ Execute \/ RollBack \/ StoreValue
    \/ \E day \in 1..LastDay : StartSeed(day)
    \/ SaveRow \/ ReadReviews \/ SaveTour \/ EndSeed \/ CrashSeed
    \/ \E t \in Watched : PostReview(t) \/ SuspendTour(t)

Spec == Init /\ [][Next]_vars

-----------------------------------------------------------------------------
\* PostgreSQL refuses no statement of a migration, up or down, whatever the
\* service has stored (the up() and down() of every migration).
MigrationsApply == ~Resting => ~Refused(Statement, schema, stored)

\* Between two transactions the schema is that of its version however it was
\* come by, the last version is what the entity classes describe, and a stored
\* value is one of its enum.
VersionsFit ==
    Resting =>
        /\ schema = VersionOf(applied)
        /\ applied = Len(Ups) => Declared(schema) = EntitySchema
        /\ stored \subseteq schema

\* The migrations fit the database in every state, also after a lost connection.
MigrationsFit == MigrationsApply /\ VersionsFit

\* What the lists must be like, alone: from every version the migrations lead on,
\* with every value stored that it has a place for, and on every day the script's
\* steps refer to rows that earlier steps look for.
MigrationsLead == \A n \in 0..Len(Ups) : LeadsOn(n)
ListsLead == MigrationsLead /\ \A day \in Days : NeedsComeFirst(day)

\* They are, at every version that the database comes to and on every day that a
\* first run is started (up() and down() of every migration, seed()).
ListsLeadOn ==
    /\ Resting /\ runs = 0 => LeadsOn(applied)
    /\ run # NoRun /\ db = {} => NeedsComeFirst(run.day)

\* When a step is taken, the rows it refers to are there, its table is, and the
\* enums have the values it stores: a run is never refused and skips nothing
\* (seed(), on the schema of the migrations).
SeedsFit ==
    Running =>
        /\ Current.needs \subseteq db
        /\ Current.values \subseteq schema
        /\ \A k \in DOMAIN Current.saves : Table(Current.saves[k].table) \in schema

\* A run that ends has left every row of its day, whatever happened before, but
\* for those that a crash cut off from the row they go with.
CompletedRunsLeaveAll ==
    run = NoRun => \A day \in completed :
        \A k \in DOMAIN Plan[1][day] : ToSet(Plan[1][day][k].saves) \subseteq db \cup cut

\* Once a run has ended, the rating of a tour is that of its reviews, and a
\* suspended tour is suspended, unless the service changed the tour while a run
\* that was going to save it had already looked.
RatingsReconcile ==
    run = NoRun /\ completed # {} => \A t \in Slugs \ crossed :
        /\ [count |-> tours[t].count, sum |-> tours[t].sum] = Rating(t)
        /\ t \in suspended => tours[t].status = "SUSPENDED"

\* Type invariant of the seed script's half: a run is at a step of its day, and
\* between two rows of a step that it has begun.
Ratings == [count : Nat, sum : Nat]
SeenStatus == {"", "APPROVED", "SUSPENDED"}
Runs == [does : {"seed"}, day : Days, at : Nat \ {0}, saved : Nat,
         held : [Slugs -> SeenStatus], read : Ratings]

SeedTypeOK ==
    /\ tours \in [Slugs -> [status : SeenStatus, count : Nat, sum : Nat]]
    /\ runs \in 0..MaxRuns
    /\ run \in Runs \cup {NoRun}
    /\ run # NoRun => runs > 0 /\ run.at \in 1..(Len(Script(run.day)) + 1)
    /\ completed \subseteq Days
    /\ completed # {} => runs > 0
    /\ suspended \subseteq Slugs
    /\ crossed \subseteq Slugs
    /\ Running /\ run.saved > 0 =>
          /\ Current.does = "ensure"
          /\ run.saved < Len(Current.saves)
          /\ \A i \in 1..run.saved : Current.saves[i] \in db

\* Why a run leaves all of its rows and a second one adds none: a run stands at a
\* step that has something to do, with the rows of all steps before it found, and
\* a row that is found has those that go with it, but for the step that is being
\* saved and for what a crash cut off.
Found(steps, rows) == \A s \in steps : s.does = "ensure" => s.saves[1] \in rows
InTheMiddle(s) == Running /\ run.saved > 0 /\ Current.saves = s.saves

RunsFindRows ==
    /\ \A day \in completed : Found(ToSet(Script(day)), db)
    /\ run # NoRun =>
          /\ Found({Script(run.day)[k] : k \in 1..(run.at - 1)}, db)
          /\ run.saved = 0 /\ Running => Due(Current, db)
          /\ run.day \in completed => run.saved = 0
    /\ \A day \in Days : \A s \in ToSet(Script(day)) :
          s.does = "ensure" /\ s.saves[1] \in db =>
              ToSet(s.saves) \subseteq db \cup cut \/ InTheMiddle(s)

\* Why ratings reconcile: what a run holds of a tour is what the tour says, unless
\* the service has crossed it; and once a run has saved the tour, its rating is
\* that of its reviews, none of the seeded ones missing.
Settled(t) == completed # {} \/ (run # NoRun /\ ~StillToSave(t))
RatingOf(t) == [count |-> tours[t].count, sum |-> tours[t].sum]

RunsHoldTours ==
    /\ \A t \in Slugs : TourRow(t) \in db => tours[t].status # ""
    /\ run # NoRun =>
          \A t \in Slugs : (\E k \in 1..(run.at - 1) : LooksFor(Script(run.day)[k], TourRow(t)))
              => run.held[t] # ""
    /\ \A t \in suspended : TourRow(t) \in db
    /\ \A t \in suspended \ crossed :
          /\ tours[t].status = "SUSPENDED"
          /\ run # NoRun /\ StillToSave(t) => run.held[t] \in {"", "SUSPENDED"}
    /\ \A t \in Slugs : Settled(t) => \A n \in SeededReviews(t) : Review(n) \in db
    /\ \A t \in Slugs \ crossed :
          /\ Settled(t) => RatingOf(t) = Rating(t)
          /\ Running /\ Saves(Current, t) => run.read = Rating(t)

\* Why no statement is refused: a transaction is on the way from one version to
\* the next, and stored is at most what is left there of all the values that the
\* first has a place for; once a run was started, no migration is.
Way == PathFrom(Pending, IF work.does = "up" THEN work.of - 1 ELSE work.of)[work.at - 1]

MigrationsFollow ==
    /\ applied \in 0..Len(Ups)
    /\ runs > 0 => Resting /\ applied = Len(Ups)
    /\ Resting => schema = VersionOf(applied) /\ stored \subseteq Storable(schema)
    /\ ~Resting =>
          /\ work = [does |-> work.does, at |-> work.at, of |-> work.of,
                     before |-> work.before, stored |-> work.stored]
          /\ \/ work.does = "up" /\ work.of \in (applied + 1)..Len(Ups)
             \/ work.does = "down" /\ work.of = applied /\ applied > 0
          /\ work.at \in DOMAIN Pending
          /\ schema = Way.schema /\ stored \subseteq Way.stored
          /\ work.before = VersionOf(applied) /\ work.stored \subseteq Storable(work.before)

\* A run adds no row on a day of which a run has ended.
SeedingAgainAddsNothing == [][run # NoRun /\ run.day \in completed /\ run' # run => db' = db]_vars
=============================================================================

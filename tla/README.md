# Verification of the Voyago tours backend

TLA+ models of the NestJS service under `src/src`, model-checked with TLC, and
theorems about them checked with TLAPS. The service sells tour departures, takes
payment through Paystack, and offers reservations, rides, reviews, an SOS service
and a campus assistant, all over one PostgreSQL database.

- `PROJECT.json` lists the components, the runs, the map from definitions to
  source lines, the hazards, the findings and the theorems.
- Parse with `tlasany M.tla`, check with `tlc -config X.cfg M`, prove with
  `tlapm M.tla`.

## 1. Inventory of the system

What every service shares: a request is an asynchronous handler that runs between
two `await`s without interruption and gives way to every other handler at each of
them. Rows are read with plain SELECTs at READ COMMITTED. TypeORM's `save(entity)`
writes the columns in which the *loaded* entity differs from the row as it is at
the save, so **a late save overwrites what was written after its load**. Events go
through an in-process emitter; a listener runs detached from its emitter and what it
throws is dropped. Nothing is queued: a restart loses handlers and events.

| Component | State | Operations | Interacts with | What is hard | What makes it correct |
|---|---|---|---|---|---|
| Tour bookings (`bookings/`) | `tour_bookings.status`, seats, reference | create, cancel, confirmPaid, expireStalePending, markCompletedAndAward | departures (row lock), payments (caller of confirmPaid, listener), users (points), cron | row lock, loads before the lock, sweeps against requests, restart | live seats fit; the lifecycle's edges; points once; holds end |
| Payments (`payments/`) | `payments.status`, Paystack's transactions | initiate, webhook, verify, refund | bookings, reservations, Paystack | lost, late and repeated webhooks, a remote call inside a handler, refund after commit | confirmed only if paid; refunds justified and not lost |
| Tour departures (`tours/`) | capacity, departure time | create, list, lockAndGet, findPast | bookings | the only lock of the system | serialises creates and cancels |
| Tour listings (`tours/`) | `tours.status`, rating | create, update, submit, approve, suspend, applyRating | reviews, bookings | whole-row saves | the review lifecycle survives concurrent edits |
| Reservations (`reservations/`) | `reservations.status`, reference | create (numbered, 4 attempts), cancel, confirmPaid | payments, flights, stays, food | no lock at all, retries | paid or cancelled, never both |
| Rides (`rides/`) | rides, `drivers.available` | quote, request, cancel, advanceActiveRides each 4 s | event emitter | three unsynchronised writers | a driver serves one ride; cancelled stays cancelled |
| Reviews and ratings (`reviews/`, `food/`) | reviews, running averages | create, remove, applyRating, withdrawRating | bookings, tours, food | read-modify-write of averages | count and average follow the reviews |
| Users and loyalty (`users/`) | profile, points, password | updateProfile, addLoyaltyPoints, setPassword | bookings, auth | increment against whole-row save | points are never lost |
| Authentication (`auth/`) | refresh and reset tokens | register, login, refresh, logout, forgot/resetPassword | users, mail | check then revoke | a token is used once |
| Notifications and gateways (`notifications/`) | notifications, rooms | listeners of booking, availability and ride events | every emitter | announcements out of order or missing | a client's last announcement is the truth |
| Emergency (`emergency/`) | SOS alerts, contacts | triggerSos, cancelSos, replaceContacts | users, mail | repeated taps, failing mail | idempotent, never fails closed |
| Campus assistant (`assistant/`) | sessions, messages | chat turn, sessions | locations, food, OpenRouter | a slow model between two writes | only real records are named |
| Itineraries (`itineraries/`) | itineraries | generate, remove | tours, OpenRouter | untrusted answers | only offered tours are bookable |
| Food, flights, stays | listings, offers, rooms | search, reserve, book, menus | reservations | offers expire and are not consumed | slots within opening hours |
| Favourites, locations, destinations | rows | add, remove, edit | each other | unique indexes | no duplicates |
| Common code, HTTP shell, mail, uploads, configuration, migrations, seeds | none | envelopes, guards, pagination, money | all | rounding, page limits | pages partition a list |

The hazards this gives rise to, each at the line where it bites and with the
properties that watch it, are in `PROJECT.json`.

## 2. Plan

Order of work; the most important behaviour comes first.

1. **Done.** `Seats`, `SeatLedger`, `BookingLifecycle`, `TourBookings`: inventory and
   lifecycle; then `TourPayments`, which extends `TourBookings` with money. Their
   theorems in `TourProofs`.
2. **Done.** `Rides`: drivers, rides, ticks; theorems in `RidesProofs`.
3. **Done.** `References`: the numbering of bookings and reservations; theorems, with
   those of the next, in `ReservationsProofs`.
4. **Done.** `Reservations`: cancellation and settlement without a lock between them;
   theorems in `ReservationsProofs`.
5. **Done.** `Accounts`: points, profile saves, refresh and reset tokens; `Listings`:
   tours and restaurants with their edits, moderation and ratings. Theorems in
   `AccountsProofs` and `ListingsProofs`.
6. **Done.** `Database` with `Schema`, `Migrations`, `Entities`, `Seeds` and `SeedData`: the
   migrations and the seed script, over the real statements and the real rows. Theorems
   about both in `DatabaseProofs`.
7. **Done.** `Emergency` (theorems in `EmergencyProofs`), `Assistant` (theorems in
   `AssistantProofs`), and `OpeningHours` (theorems in `ListingsProofs`).

A feed of announcements was planned and given up: events change no row and nothing orders
them. `docs/frontend-integration-guide.md` (lines 318-324) does promise
`booking.status_changed` when a hold expires and when a booking completes, and
`availability.changed` at an expiry; the sweeps of `bookings.service.ts` emit neither. No
property is stated about it, since that needs no interleaving to show. Section 6 says what
else is left out, and why.

## 3. What is modelled

| Module | Role |
|---|---|
| `Seats` | the constants of the inventory: bookings, departures, seats, capacity, and the sum of seats |
| `SeatLedger` | abstract: seats are reserved while they fit and given back |
| `BookingLifecycle` | abstract: statuses change along edges only |
| `TourBookings` | `BookingsService`, its repository and its scheduler |
| `TourPayments` | extends it with `PaymentsService`, Paystack and the refund listener |
| `Rides` | `RidesService`, its repository and its scheduler; it shares nothing with the modules above |
| `References` | the references of tour bookings and reservations: `countForYear()`, the unique index, `saveWithReference()` |
| `Reservations` | `ReservationsService`, and `PaymentsService` as far as it settles and refunds reservations |
| `Accounts` | `UsersService` and `AuthService`: the user's row, refresh tokens, reset tokens |
| `Listings` | `ToursService`, `FoodService`, `ReviewsService`, `RestaurantReviewsService`: rows of tours and restaurants and what reviews fold into them |
| `OpeningHours` | `isOpenAt()` and `availableSlots()` as operators |
| `Emergency` | `EmergencyService`: taps, mails, contacts |
| `Assistant` | `AssistantService`: sessions, turns, the model as any set of actions |
| `Schema` | the objects of a PostgreSQL schema and what the statements of a migration do to them |
| `Migrations`, `Entities` | every statement of every migration, and the tables that the entity classes declare |
| `SeedData`, `Seeds` | the rows of `seeds/data`, and the seed script as a sequence of steps over them |
| `Database` | composes the four: migrations up and down, runs of the seed script, the service beside them |
| `TourProofs`, `RidesProofs`, `ReservationsProofs` (and of `References`), `AccountsProofs`, `ListingsProofs`, `EmergencyProofs`, `AssistantProofs`, `DatabaseProofs` | theorems |
| `MCTourBookings`, `MCTourPayments`, `MCRides`, `MCReferences`, `MCReservations`, `MCAccounts`, `MCListings`, `MCDatabase`, `MCEmergency`, `MCAssistant` | instances for TLC |

### State and code

`status` is the status column, `"none"` before the insert. The seats, the departure
and the amounts of a booking never change after the insert and are constants
(`SeatsOf`, `DepartureOf`); a booking of the model stands for one accepted request
body. `awards` counts executions of `addLoyaltyPoints` for a booking. `payment` is the
status of the booking's one payment row. Everything else is what handlers keep
across an `await`:

- `creating`, `cancelling`, `confirming`, `expiring`, `completing`: what a create, a
  cancel, a `confirmPaid`, and a run of either sweep have loaded and decided;
- `initiating`, `settling`, `refunding`: the same for initiate, webhook or verify, and
  the refund listener.

`lapsed` and `phase` are the clock: whether a booking is older than the seat hold, and
whether a departure is outside the cancellation window, inside it, or past.
`revived` and `honoured` are history: bookings a settlement confirmed although they
were no longer PENDING when it committed, and bookings with a committed cancel
request. `opened`, `charged`, `refunded`, `refusing` are Paystack's side.

In `Rides`, `ride[r]` is the row of a ride (its status, and its position as the number of
ticks left of the leg: each tick takes a fixed fraction of the distance, and a leg is
over within `ARRIVED_KM`), and `available` the column of a driver. `requesting`,
`cancelling` and `ticking` are the handlers; a run of the timer keeps the rows it loaded
at its start. History: `raced` (rides checked while the tourist had another request on
its way), `revived` (rides written back as active after they were over), `freed` (rides
that have let go of their driver), `overtaken` (rides whose request marked the driver
busy after that), `contested` (drivers that two requests picked at once, that one ride
freed twice, or whose request was lost before it marked them busy).

In `References`, a request creates one row of its series (`SeriesOf`: TUR for tour bookings,
STY, FLT, TBL for reservations). `rows[r]` keeps the year and the number of its
reference, and the year its `created_at` falls in; `request[r]` is what the handler has
read and computed. `base` is history: how many rows of the year there were at its first
count. Years are counted from 0.

`Reservations` has the variables of `TourPayments` for reservations; those that have a price
(`Stays`, which stands for stays and flights) begin PENDING, `Tables` begin CONFIRMED.
`settling[w].loaded` is the status that `confirmPaid()` has loaded. History: `honoured`
(reservations with a saved cancellation), `straddled` (those cancelled while a settlement's
transaction held them as PENDING).

In `Accounts`, `account[u]` is the user's row (profile, password, points). `session[t]` is the first
token of the session that refresh token `t` belongs to, so a rotation is visible;
`revoked` and `used` are the columns `revoked_at` and `used_at`. `call[c]` is a request
with the object it has loaded. History: `expected` (the row that the calls would leave one
after the other), `overlapped` (users with a save that was stale when it read again),
`raced` and `left` (sessions of which two calls held one token; sessions logged out of),
`resets` and `excused` (how often a reset token set a password; tokens held twice, or whose
call ended before the mark).

In `Listings`, `listing[l]` is a row with its status, its details, its menu and its rating. An
average is a fraction in hundredths of a star. A tour's is exact and over its count
(`Mean`), and is `Off` once it was computed from an average and a count that did not belong
together. A restaurant's is a whole number: `round2()` rounds it at every fold and withdrawal,
and the next change starts from what was rounded (`Average`, `Nearest`). Errors of the
doubles themselves are left out, but that the one of a tie can lie on either side of it:
there `Nearest` has two members. `seeded` are listings that came with a rating:
`SeededCount` ratings of `SeededAverage` that no review to be removed stands for.
History: `disturbed`, the listings
saved from an outdated object or from which a rating was withdrawn twice.

In `Emergency`, `tap[c]` is a request with the contacts it loaded or mailed. History:
`mails` (how often a contact was mailed about an alert) and `excused` (alerts with
overlapping taps, or whose tap ended between its mails and its insert). In `Assistant`,
`messages[s]` is a session's conversation; a turn holds the history it read, the places it
found and those whose vendors had agreed. History: `overlapped` (sessions with two turns
at once) and `failed` (questions whose turn ended early).

In `Database`, `schema` is a set of objects (tables, columns, enum values, indexes, keys,
defaults), `applied` the number of applied migrations, `stored` the values that rows hold
under enums that change, `db` the set of seeded rows, `run` a run of the script with its
position. History: `cut` (rows that a stop of the script left out behind their parent),
`crossed` (tours that the service changed between a run's look and its save).

### Steps and code

A step is what a handler does between two points at which another handler can be
seen. `create()` is two steps: the lock, the sum and the check (`GrantSeats`), and the
insert with its commit (`InsertBooking`, or `LoseReference` when the insert fails).
`cancel()` is four: load, lock with the window check, commit, emit. A sweep is two: load
and commit. A settlement is three: the decision, the beginning of the transaction
with the write of the payment row, and the commit.

*Locks.* `DepartureLockFree` is `FOR UPDATE` on the departure. `PaymentRowFree` is the
row lock PostgreSQL takes when `confirmAndNotify()` updates the payment before it
loads the booking; it is what keeps two settlements of one booking apart, and the
proof that points are awarded once rests on it.

*Commits.* The writes of a transaction are one step, at its commit. A row that a
transaction has written is locked until then, so writes of one row are in the order of
the commits. A save that finds nothing to change takes no lock; it then has the
effect of having happened earlier, at the moment it read the row.

*Stale saves.* A commit writes the status its handler decided on over whatever the row
has become. That is the code's behaviour, and the reason for the edges `StaleEdges`.

*Rides* have no transaction and no lock, so each query is a step: a request is four (check,
pick, insert, mark busy), a cancellation three (load, free the driver, save), and a run of
the timer a load and then one step for each ride, two for one that arrives. Any query may
fail and end its handler where it stands (`RequestFails`, `CancelFails`, `TickFails`): what
was saved stays.

*Reservations* are cancelled in three steps (load, save, emit), of which the save is a
transaction of its own. It is separate from the emit because the commit is visible to others
before the handler runs on. A settlement is the same as for tours, down to the payment row
(`PaymentRowFree`) that keeps two of them apart.

*References.* A tour booking begins its transaction, waits for its departure, and then
reads the year and counts (`Begin`, `Count`); a reservation reads the year before its first
transaction (`Open`) and begins one for each attempt. PostgreSQL's `now()`, the default of
`created_at`, is the start of the transaction, so the two years of a row can differ. An
insert that waits for another of the same reference to commit, and its own commit, are one step
(`Insert`, or `Collide`).

*TypeORM's save* is two steps in `Accounts` and `Listings`: it reads the row again and sets
the columns in which the loaded object differs from what it read. So a column that
somebody else changed since the load is set back, and one changed after the second read is
not. In `Listings` a review is inserted and folded in one transaction; what it writes is seen at
its commit (`Commit`), and whoever inserts or deletes a review of the same key waits (`Busy`).

*Accounts* run in no transaction: each statement is a step, and a call may end after any
(`End`). *A tap* looks for its alert, loads the contacts, mails them, inserts. *A turn* finds its
session, reads the history, searches, saves the question, asks the model, saves the answer;
the two messages are separate steps, which other turns and the removal of the session may
come between. The model's answer is any set of actions, and `Grounded` is the filter of the code.

*Migrations* run one statement a step; those that are pending share one transaction, a
reverted one has its own, and a lost connection rolls back. *The seed script* saves one row a
step, in no transaction, and may stop after any; a step whose row is there is passed over. A
departure, which is found by its day, is looked for on the day of the run.

*What is refused is not a step.* A request that is answered with an error and changes
nothing is a stutter. Authentication and ownership are decided on data that never
changes and leave no trace in the state.

*Restart.* `Crash` loses every handler and rolls open transactions back; in
`TourPayments` it loses requests and listeners too, while Paystack keeps what it has.

*Paystack* is external. It accepts a reference once, charges only what was saved with
an authorization URL, calls the webhook any number of times for a charge (never, too),
answers verify with success for a charged transaction, and accepts or refuses a
refund. It goes on answering success after a refund, which is the widest assumption.

## 4. What is checked

| Run | Instance | Shows |
|---|---|---|
| `tour_bookings` | two bookings of 1 and 2 seats on a departure with 2, one cancel request (reused), two settlements, one restart; about 130,000 states | the inventory, lifecycle and award properties, both refinements, and that sweeps do their work |
| `tour_payments` | one booking, two cancel requests, two settlements, one restart, Paystack refusing or not; about 440,000 states | money against status, refunds |
| `rides` | two requests of one tourist, one driver, legs of one or two ticks, one cancel request (reused), one run of the timer at a time, one failing query or restart; about 360,000 states | what rides of a tourist, and of a driver, may overlap; that every ride ends |
| `references` | two tour bookings and three reservations of one kind, two attempts, one New Year; about 61,000 states under symmetry | what numbers the series get, and when a request gets none |
| `reservations` | a stay and a table, two cancel requests, two settlements, one restart, Paystack refusing or not; about 450,000 states | money against status without the departure's lock, and when a cancellation is final |
| `accounts` | one user, two calls, two refresh tokens, one reset token, two values, one award; about 2,530,000 states under symmetry | what overlapping saves lose, which tokens stay live, how often a reset token works |
| `listings` | one listing (a tour or a restaurant, imported with a rating or not), two calls, three reviews of which two share a key; all of five stars; imported with one rating of 4.50; about 2,290,000 states under symmetry | whose change survives, and how far a rating gets from its reviews; beside it, slots against opening hours |
| `database` | all migrations and all seeds, two days, three runs of the script, one deed of the service or one crash, one stored value | that migrations apply, up and down, and that the script can be run again |
| `emergency` | two alerts, two contacts, two taps; about 274,000 states under symmetry | who is mailed how often, and what is recorded |
| `assistant` | one session, two turns, three questions, one place; about 147,000 states under symmetry | what is stored, what the model is shown, what an answer may offer |
| `overbooking`, `expiry_of_paid` | the instances of the first two runs | that two promises of the documents are not kept |

Properties of `tour_bookings`:

- `TypeOK`: type invariant.
- `SeatsWithinCapacity`: live bookings fit in their departure, except those in `revived`.
- `AwardedOnce`: points are awarded at most once.
- `RefinesLedger`: the service implements `SeatLedger` (held seats are those of live,
  not revived bookings): seats are taken one booking at a time and only while they fit.
- `RefinesLifecycle`: the service implements `BookingLifecycle` with the edges of the
  design's diagram and three more, which stale loads add.
- `HoldsExpire`, `PastBookingsComplete`: an unpaid booking whose hold has lapsed, and a
  confirmed booking of a past departure, do not stay as they are.

Properties of `tour_payments`:

- `PTypeOK`: type invariant, which ties a settlement to the `confirmPaid` it runs.
- `ConfirmedOnlyIfPaid`: confirmed and completed bookings are charged and settled.
- `RefundsJustified`: money goes back only after a committed cancellation; a payment is
  REFUNDED only if it did.
- `PaidCancellationRefunded`: a cancellation that finds its payment settled gets the
  money back, unless Paystack refuses or the process restarts.

Properties of `rides`:

- `RTypeOK`: type invariant, which says at which step a handler may hold which row.
- `OneRideUnlessRaced`: two active rides of a tourist need a race of two requests, or a
  tick that wrote a cancelled ride back.
- `DriverServesOne`: a driver serves one ride that has not let go of them, except a driver
  in `contested`. It rests on the order of the saves in three handlers.
- `BusyDriversServe`: no driver is left unavailable without a ride, except by a request
  that marks the driver busy after its ride was over.
- `StatusFollowsEdges`: the guide's order of states, and what stale saves add to it.
- `RidesFinish`: every ride ends and stays over.

Properties of `references`:

- `RefTypeOK`: type invariant, which says who may try again.
- `NumbersWithoutGap`: in a series where no row straddled New Year, a year's numbers are
  1, 2, 3, ..., whoever raced, collided, retried or gave up.
- `FailureNeedsRivals`: in such a series a request goes without a number only if at least one row
  was inserted during each of its attempts.

Properties of `reservations`:

- `VTypeOK`: type invariant.
- `PaidWhileConfirmed`: a confirmed stay is charged, and its money is still there, except for
  reservations in `straddled`.
- `CancelledStays`: a cancellation is final, whatever is settled or replayed after it, with the
  same exception. The exception is real: `confirmPaid()` overwrites a cancellation saved between
  its load and its commit, and the listener of that cancellation may then refund a stay
  that says CONFIRMED.
- `PaidStayRefunded`: a stay that is paid when its cancellation is saved is refunded, unless
  Paystack refuses or the process restarts (the guide's "a paid stay is refunded").

Properties of `accounts`:

- `AccountsTypeOK`: type invariant, which says whom and what a request under way may refer to.
- `NothingLostWithoutOverlap`: a save changes its own column and loses no points, unless
  somebody changed the row between its two reads; and even then a user has no more points
  than were awarded.
- `SessionsFollowRotation`: a session whose tokens one call held at a time has at most one
  live token, and none after its logout.
- `ResetOnce`: a reset token sets one password, unless two calls held it together or one
  ended between the password and the mark.

The exceptions are real. A profile save that loaded before a password reset restores the old
hash; two refreshes at once both issue a token; a logout beside a refresh leaves a live
one; and a reset revokes no refresh token.

Properties of `listings`:

- `ListingsTypeOK`: type invariant, with the uniqueness of a listing's reviews.
- `RatingsMatchReviews`: the count is that of the reviews and of the imported ratings, and
  so is a tour's average, exactly; a restaurant's average times its count is no further from
  their total than `Drift`: half a hundredth for each rating counted, at each fold and
  each withdrawal. While nothing was removed, the average itself is thus within half a
  hundredth for each review. Unless changes overlapped or a review was removed twice. The
  sum of ratings is counted as the stars given (`Stars`, a set of pairs), which a proof can
  count; that it is the sum is the assumption `StarsAreTheSum` of `MCListings`, which TLC evaluates.
- `StatusMovesForward`: a tour follows draft, review, approval; a suspended one stays
  suspended, but for a save of an object loaded before.
- `SavesKeepToThemselves`: a save of an up-to-date object changes the columns of one purpose.

A restaurant's average does drift with no overlap at all, inside that bound. At 4.50 over a
hundred ratings or more a review of five stars moves the quotient by less than half a
hundredth: it is rounded back to 4.50, however many follow (`food.service.spec.ts` has
that at 214 ratings, "rounds the running average"). And a withdrawal does not always take a
fold back, as the test that "round-trips" has it for 4.32 over 97: 4.75 over 2 becomes 4.83
with five stars and 4.74 or 4.75 without them, since 4.745 is a tie.

The DTO of an update says "editable while drafting", but `update()` works in every
status, and so does the model. `remove()`'s comment says that the aggregate is recomputed
from what remains; the code reverses the arithmetic of the fold instead, so a second removal
of one review withdraws its rating again.

Properties of `database`:

- `ListsLeadOn`: from every version the database comes to, the next migration alone leads to
  the next version and the `down()` of the last one back, with every value stored that the
  version has a place for; and a step of the script refers only to rows that earlier steps
  look for. As the run comes to every version and starts on every day with no row, TLC
  evaluates all of `ListsLead` here.
- `MigrationsFit`: PostgreSQL refuses no statement, whatever values are stored
  (`MigrationsApply`: it is the casts of enum columns, and the statements that move rows
  first, that could fail); and between transactions the schema is that of its version, however
  it came about, and the last one is what the entity classes declare (`VersionsFit`).
- `SeedsFit`: a run of the script is never refused and dereferences no missing row.
- `CompletedRunsLeaveAll`: a run that ends has left every row, except those behind a parent
  that an earlier run saved before it stopped (operator profiles, rooms, stops).
- `RatingsReconcile`: after a run, ratings are those of the reviews and suspensions stand,
  but for tours that the service changed while the run held them.
- `SeedingAgainAddsNothing`: a second run of a day adds no row.

`emergency` has `SosSentOnce`: nobody is mailed twice about an alert, nor about one that
stays unrecorded, unless taps overlapped or one broke off after its mails; and with a mail key an
alert counts no more contacts than were mailed. Without a key every mail counts as sent.

The type invariants of `Emergency`, `Assistant` and of the seed script (`EmergencyTypeOK`,
`AssistantTypeOK`, `SeedTypeOK`) are theorems, and no property of a run.

`assistant` has `ConversationsCohere`, the conjunction of `AnswersFollow` (an answer follows
its question and there is one of each; without overlapping turns they alternate but for
failed turns), `HistoryIsPast` (the model is shown what came before the question and never the
question), `ContactsAgreed` (an offer to contact a joint rests on a consent that was
given at some time since the search) and `RemovedIsGone`. A question stays without its
answer when the model fails. Consent may be withdrawn between the search and the answer.

### Findings

Each violation run checks one sentence of the repository's documents and TLC shows a
behaviour of the code that breaks it.

- `NoOverbooking`: `confirmPaid()` loads PENDING; the booking is cancelled and its seats
  are sold again; `confirmPaid()` saves CONFIRMED. The lock protects creates and cancels
  from each other, not from settlements.
- `ExpiresOnlyUnpaid`: the expiry sweep overwrites a booking that was paid after the
  sweep loaded it. No event is emitted, so nothing refunds it.

Four more behaviours are in the models, behind the exceptions that the properties name:
a repeated webhook sets a refunded payment PAID again; a charge that settles after the
cancellation is kept; two requests of one tourist may both get a ride; and a tour booking
that waits for its departure across New Year takes number 0001 of the new year with a
`created_at` in the old one, after which every booking of that year computes 0001 and is refused.

### Bounds

Every hazard here is between two bookings that want the same seats, or two requests
for one booking, so two of each meet it; cancel requests and settlements return to
idle and are used again, so a behaviour holds any number of them one after the
other. Seats 1 and 2 with capacity 2 make "fits exactly", "fits with the other" and
"does not fit" happen. Departures do not interact except through reference numbers
(`LoseReference`), so one is enough. One restart (`MaxCrashes`) may come at every
state; the theorems hold for any number. `tour_payments` has one booking because
payments of different bookings share nothing. In `rides`, two rides meet at the tourist
and at the driver; `RequestFails` and the others share the bound `MaxFaults`; legs of one
and two ticks make a ride skip ARRIVING and not skip it. Runs of the timer that overlap,
and more rides and drivers, are covered by the theorems. In `references` a request that fails twice needs two
rivals, hence three reservations with `MaxAttempts` 2 (four in the code); one New Year
(`LastYear`) separates the two years of a row. Series meet only through the clock, so one
reservation kind stands for three; requests of a series are interchangeable, which
`Symmetry` states and which is sound for invariants. In `reservations` two cancellations and
two settlements of one stay meet; the table shows that free reservations stay out of
payments; reservations share nothing else.

In `accounts` and `listings` every hazard is between two calls; calls return to idle and are
used again. Two refresh tokens are a token and what it is rotated into; two values of a
column and one award tell a lost update from a kept one. Three reviews are two that compete
for a key and one that does not; users, and listings, share nothing. `MaxPoints`, `Values`
and `Versions` are bounds on data. Three folds of five stars into one rating of 4.50 round
up, round down and meet a tie; the proof is for any stars and any imported rating.
`database` takes all 22 migrations and all seeds as they
are; `MaxStored`, `MaxRuns`, `LastDay` and `MaxEvents` bound the rows stored under changing
enums, the runs, the days, and the crashes and deeds of the service: one crash and two more
runs show what is and is not made up for, two days make a departure new. `emergency`'s two
taps meet at one alert, or raise one each; a contact that is mailed and one that is not tell
counts apart. In `assistant` three questions fill a `History` of 2, so that it is cut.

The runs but `emergency` and `assistant` do not check for deadlock:
when every booking is finished and no request comes, the system stops.

### Fairness

`FairSpec` assumes weak fairness of the four steps of the sweeps: `@Cron` starts them for
as long as the process lives, and a sweep that has loaded its rows gets to its end.
The model runs one of each sweep at a time, as a single instance whose sweeps take less
than their period does. `PFairSpec` assumes that a listener is called after the emit and
runs to its end and that a settlement that is in its transaction commits. In `Rides`,
`FairSpec` assumes that `@Interval` starts the timer's run and that the run gets on with its
rows; `rides` has one run at a time, which holds as long as a run takes less than four
seconds. `Reservations` assumes of its listeners and settlements what `TourPayments` does.
`Accounts`, `Listings`, `Emergency`, `Assistant` and `Database` state no fairness: nothing there
is promised to happen, and a request may end anywhere. Nothing is assumed of tourists, of
Paystack's webhook or of the clock.

## 5. What is proved

All theorems are about the specifications without fairness. Those about bookings hold for
every finite set of bookings, any departures, requests and settlements, any seats and
capacities, and any number of restarts, from `SeatsAssumption` and `HandlersAssumption`
alone.

*Capacity.* `SeatsWithinCapacity` is not inductive: between `GrantSeats` and
`InsertBooking` the granted seats are in no row. `SeatsReserved` adds them, and that at
most one request per departure is granted (the row lock). Only `GrantSeats` makes the
sum grow, by what it has just checked; the lemma `SeatsAdd` says what a booking adds
to it. `revived` takes out exactly the bookings that return without a check.

*Awards.* `AwardedOnce` needs `AwardsSettled`: a row the completion sweep has loaded is
CONFIRMED or has been cancelled since, and no settlement that loaded PENDING is still
under way for it. This holds because two settlements of one booking exclude each other
by the payment row, and because no row becomes PENDING again.

*Refinement.* `ImplementsLedger` and `ImplementsLifecycle` map every step to a step or
a stutter of the abstract specifications. `ImplementsBookings` shows that every step of
`TourPayments` is a step of `TourBookings` or leaves bookings alone, so all of the above
holds with payments running (`BookingSafety`).

*Money.* `NoFreeTrips` uses `PaymentsTracked`: a settlement goes ahead only for a charged
booking, writes the payment with the booking, and a payment row is inserted once.
`NoUnjustifiedRefund` uses `RefundsTracked`: a listener starts after the commit, and
REFUNDED is written after Paystack's answer.

*Rides*, from `RidesAssumption` alone, for any number of overlapping runs of the timer.
`OneRidePerTourist` uses `ClaimsAreSingle`, which counts a request that has passed the check
as a ride: the check sees active rides only, so a second claim is a race (`raced`) or a
stale save (`revived`). `NoDriverLost` uses `FreedBeforeOver`: every handler that ends a ride
frees its driver first, so a ride that is over has let go. `OneRidePerDriver` uses
`HeldByOne`: a driver who is available is held at most by a request that has not marked
them busy, so who picks an available driver outside a race is their only ride; the
lemmas `HoldsArise` and `TakenStep` say how a hold begins and ends. `RidesFollowEdges` adds a
hypothesis, that no two runs of the timer overlap: then `RowsAreCurrent` holds, by which a row that
a run has loaded is still the ride's unless the ride was cancelled, so a save that goes back
along the order can only revive a cancelled ride. With runs that overlap it is false; the
hypothesis is that of the fairness above, a run that takes less than four seconds.

*References*, from `RequestsAssumption` alone, for any requests, series, attempts and years.
`NumbersAreDense` needs `NumbersFollowCounts`: a counted number is at most one more
than the count, because counts only grow (`CountsGrow`); it is above all numbers taken,
because the index refuses the others; so it is the next (`InsertFillsNext`). The same
invariant bounds the attempts of a request by the rows inserted meanwhile
(`FailuresHaveRivals`); TLC has checked it as an invariant of `references` too.

*Reservations*, from `ReservationsAssumption` alone. `MoneyInv` joins the two properties with
`SettlementsTracked`: a settlement that has loaded PENDING is of a reservation that is not
cancelled, or was cancelled during the settlement and is in `straddled`; refunds
follow saved cancellations; a payment row is inserted once. `NoFreeStays` and
`CancellationIsFinal` follow (TLC has checked `SettlementsTracked` on the instance of
`reservations` too).

*Accounts*, from `AccountsAssumption` alone, for any users, calls and tokens. `AccountsInv` adds
to the three properties what a call under way relies on: `HeldRowsFollow` (a save that nobody
disturbed differs from the row in its own column), `HeldTokensLive` (a token that one call
holds is still live when the call revokes it) and `HeldResetsUnused` (the call that alone holds
a reset token has not set the password before). Without them the next step of the call could
do anything; TLC has checked them on the instance of `accounts`.

*Listings*, from `ListingsAssumption` alone. `CallsFollow` says, of every call, what it is
about to change when nobody has outdated it (the columns of one purpose, and an edge of the
moderation), and that of the reviews with one key one call at a time inserts or deletes any,
which is the wait for the unique index. `OnlyCommits` reduces both action properties to the
step that commits. `RatingsMatch` adds `RatingsFollow`: a fold or a withdrawal that nobody has
outdated holds one of the rows that its review makes of the row as it is, and sets every
column in which the two differ; the count always does, so that two such calls outdate each
other. The lemma `StarsAdded` says what one review does to the total, `RoundedOnce` that one
rounding is off by at most half a hundredth for each rating counted, and `DriftGrows`
that the bound grows by at least that much: `FoldMatches` and `WithdrawMatches` put them
together. `SlotsAreOpen` is about `OpeningHours`, for any week of hours: an offered
slot is in a window and so are its 59 minutes after; `SlotsAreAll` is the converse: the
slots of a day are all the hours from the opening of its first window that leave an hour before it
closes, and a second window of the day offers none. TLC has evaluated the
first, and the second for the slot at the opening (`SlotsChecked` in `MCListings`).

*Emergency*, from `EmergencyAssumption` alone. `TapsFollow` says that the tap which alone holds
an alert finds it unrecorded, and nobody mailed before its own mails; the lemma `AlertKept`
says when the facts of an alert survive a step of somebody else.

*Assistant*, from `AssistantAssumption` alone, for any sessions, turns, questions, places and
length of the history. `TurnsFollow` says what a turn under way relies on: its question is asked
once and is stored just when the turn has passed that step, the history it holds was read
before, and what it offers was found and agreed to. `Pairs` is `AnswersFollow` for one
conversation, and the lemmas `QuestionAdded` and `AnswerAdded` say when a message may be appended.

*Database*, the seed script, for any number of days,
runs, crashes, deeds of the service and migrations. `RowsStayFound` says that a
run has passed only rows that are there, and that a row which is there has what goes with it,
except where a crash cut it off; `RunsLeaveAll` and `SeedingAgain` follow, for a run stops only
at a step with something to do. `RatingsReconciled` needs `RunsHoldTours`: what a run holds of a
tour is what the tour says, unless the service has crossed the run, and a tour that the run has
saved keeps the rating of its reviews. How far a run goes on is a CHOOSE of a least number,
which the lemma `Least` takes from the well-founded order of the naturals. `DatabaseAssumption` is
about the constants. `ScriptAssumption` is about the rows of `seeds/data`, and says what the
proofs need to know of them: the script is a sequence of steps, a row that is looked for
stands for the same rows each time (`FirstRowsTell`), and a rating is computed after the tour's
reviews, once (`RatingsComeLast`). TLC evaluates it for the days of the run, since the rows are
given and no constant.

*Database*, the migrations, for any number of runs and reverts, lost connections and values
stored. What the lists come to alone, `ListsLead`, is the hypothesis of these theorems. It is a fact
about the statements of the migrations and the rows of the script, which TLC establishes as
`ListsLeadOn`; it is no ASSUME, so that a fault in a list shows as a violated property. It says
nothing of a history: there each list starts from its version, with all values stored at once.
In the model a transaction may run several lists, starts from whatever
earlier ones left and finds only some of the values. `MigrationsFollow` is the invariant that
joins the two: a transaction is on the path of the list it is in, with at most the values that
the path has. It is preserved because with fewer values no more statements are refused and no
more values are left (`FewerStored`). The path is a recursive function, whose equations
(`PathEquations`) are proved from its definition, since a shortest list without a path would be
a shorter list with one and a statement more (`PathIs`, with `Least`). `MigrationsAlwaysFit`
follows; `SeedsAlwaysFit` joins it with `RowsStayFound`, as a script is run only at the last
version and finds what the steps before it looked for.

TLC has checked the invariants that were added for these proofs on the instances of the runs
first: `RowsAreCurrent` on `rides`, `RatingsFollow` on `listings`, `TurnsFollow` on `assistant`,
`SeedTypeOK`, `RunsFindRows`, `RunsHoldTours` and `MigrationsFollow` on `database`.

Only model-checked: `ListsLeadOn`, a computation over given lists of statements and steps, with
no constant to prove it for; the liveness properties
(`HoldsExpire`, `PastBookingsComplete`, `PaidCancellationRefunded`, `PaidStayRefunded`,
`RidesFinish`), since liveness under fairness is out of the prover's reach here; and the findings.

## 6. What is not modelled

- In `TourBookings` a collision of references is the step `LoseReference`, which may happen
  or not; `References` says when it does, and leaves seats, statuses and locks out. Rows
  created in the very instant that two years share (`Between` includes both ends).
- Where drivers are: the nearest available driver may be any; quotes, fares and the
  positions sent to the client.
- Announcements (status, availability, notifications): they change no row but that of a
  notification, are not ordered, and are lost in a restart.
- Itineraries, favourites, locations and destinations: single rows that are inserted and
  deleted, guarded by a unique index where there is one, with no second state to relate.
- Flights and stays: offers and rooms are rows that nothing changes; booking one creates a
  reservation. Nothing promises that an offer is booked once.
- `reserve()` asks for no opening hours, so slots and reservations of tables share nothing.
- Of `Listings`: slugs, landmarks, the errors of floating point beyond `round2()`, the search.
- Of `Accounts`: hashing, mail, access tokens; an expired token is an unknown one.
- Of `Emergency`: where the user is, what a mail says, the facilities.
- Of `Assistant`: the terms of the search (all of them are one step), the prompt, the stream's
  text. Opening a place stands for every action that needs a place that was found.
- Of `Database`: SQL types, foreign keys in the comparison with the entity classes (most are
  not declared there), images that the script puts back, midnight within a run.
- A sweep's rows written by another transaction while the sweep is half-way: the
  sweep's writes are one step at its commit. Two instances of the service, or a sweep
  that outlasts its period.
- Haversine distance, pagination and money formats, HMAC and hashing, HTTP envelopes, guards,
  mail, uploads and configuration: no state of their own, or out of TLC's reach.

---------------------------- MODULE TourBookings ----------------------------
(***************************************************************************)
(* The tour booking service: POST /bookings, cancellation, the settlement  *)
(* callback confirmPaid, and the two cron sweeps, all over one READ        *)
(* COMMITTED database. A request is a handler that takes several steps;    *)
(* what a handler read before its last wait is kept in the handler.        *)
(*                                                                         *)
(* TypeORM's save() writes the columns in which the loaded entity differs  *)
(* from the row, whatever the row has become since the load, so a commit   *)
(* overwrites the status with the value the handler decided on.            *)
(***************************************************************************)
EXTENDS Seats

CONSTANTS
    Cancels,        \* concurrent cancel requests
    Settlements,    \* concurrent calls of confirmPaid
    NoBooking,
    MaxCrashes      \* bound on process restarts

ASSUME HandlersAssumption ==
    /\ NoBooking \notin Bookings
    /\ MaxCrashes \in Nat

VARIABLES
    status,         \* the status column; "none" before the row exists
    creating,       \* where booking b's create request is
    cancelling,     \* cancel request -> its step and the booking it loaded
    confirming,     \* settlement -> the booking it loaded and its status then
    expiring,       \* rows the running expiry sweep has loaded
    completing,     \* rows the running completion sweep has loaded
    awards,         \* times the tourist was awarded points for b
    phase,          \* where the clock stands with respect to a departure
    lapsed,         \* bookings older than the seat hold
    revived,        \* history: confirmed although cancelled after the load
    crashes

vars == <<status, creating, cancelling, confirming, expiring, completing,
          awards, phase, lapsed, revived, crashes>>

Statuses == {"none", "PENDING", "CONFIRMED", "CANCELLED", "COMPLETED"}
Live == {"PENDING", "CONFIRMED"}
NoCancel == [step |-> "idle", booking |-> NoBooking]
NoConfirm == [booking |-> NoBooking, seen |-> "none"]

MissingRow(b) == TRUE           \* fault: the NotFound check is dropped
Inserted(b) == status[b] # "none"

LiveOn(d) == {b \in On(d) : status[b] \in Live}

\* fault: paid bookings are left out of the sum
unpaidSeats(d) == SeatsTaken({b \in On(d) : status[b] = "PENDING"})
seatsConsumed(d) == SeatsTaken(LiveOn(d))

\* A transaction that has passed lockAndGet holds the departure row to its end.
Granted(d) == {b \in On(d) : creating[b] = "granted"}
CancelHolds(d) ==
    \E c \in Cancels : /\ cancelling[c].step = "locked"
                       /\ cancelling[c].booking \in On(d)

NoDepartureLock(d) == TRUE      \* fault: find without pessimistic_write
DepartureLockFree(d) == Granted(d) = {} /\ ~CancelHolds(d)

\* A settlement holds its booking's payment row from its first write on.
NoPaymentLock(b) == TRUE        \* fault: the payment is saved after the booking
PaymentRowFree(b) == \A v \in Settlements : confirming[v].booking # b

Init ==
    /\ status = [b \in Bookings |-> "none"]
    /\ creating = [b \in Bookings |-> "idle"]
    /\ cancelling = [c \in Cancels |-> NoCancel]
    /\ confirming = [w \in Settlements |-> NoConfirm]
    /\ expiring = {}
    /\ completing = {}
    /\ awards = [b \in Bookings |-> 0]
    /\ phase = [d \in Departures |-> "open"]
    /\ lapsed = {}
    /\ revived = {}
    /\ crashes = 0

-----------------------------------------------------------------------------
(* POST /bookings. Neither the departure's date nor its status is looked   *)
(* at. A request that is refused (the tour is not APPROVED, the seats do   *)
(* not fit) changes nothing and is not a step.                             *)

GrantSeats(b) ==
    LET d == DepartureOf[b] IN
    /\ status[b] = "none"
    /\ creating[b] = "idle"
    /\ DepartureLockFree(d)
    /\ seatsConsumed(d) + SeatsOf[b] <= Capacity[d]
    /\ creating' = [creating EXCEPT ![b] = "granted"]
    /\ UNCHANGED <<status, cancelling, confirming, expiring, completing,
                   awards, phase, lapsed, revived, crashes>>

InsertBooking(b) ==
    /\ creating[b] = "granted"
    /\ creating' = [creating EXCEPT ![b] = "idle"]
    /\ status' = [status EXCEPT ![b] = "PENDING"]
    /\ UNCHANGED <<cancelling, confirming, expiring, completing,
                   awards, phase, lapsed, revived, crashes>>

\* The insert fails, and the transaction with it, when a create on another
\* departure has used the same reference number.
LoseReference(b) ==
    /\ creating[b] = "granted"
    /\ creating' = [creating EXCEPT ![b] = "idle"]
    /\ UNCHANGED <<status, cancelling, confirming, expiring, completing,
                   awards, phase, lapsed, revived, crashes>>

-----------------------------------------------------------------------------
(* cancel(): the row is loaded before the departure is locked and is not   *)
(* loaded again.                                                           *)

CancelLoad(c, b) ==
    /\ cancelling[c] = NoCancel
    /\ status[b] \in Live
    /\ cancelling' = [cancelling EXCEPT ![c] = [step |-> "loaded", booking |-> b]]
    /\ UNCHANGED <<status, creating, confirming, expiring, completing,
                   awards, phase, lapsed, revived, crashes>>

CancelLock(c) ==
    LET d == DepartureOf[cancelling[c].booking] IN
    /\ cancelling[c].step = "loaded"
    /\ DepartureLockFree(d)
    /\ phase[d] = "open"
    /\ cancelling' = [cancelling EXCEPT ![c].step = "locked"]
    /\ UNCHANGED <<status, creating, confirming, expiring, completing,
                   awards, phase, lapsed, revived, crashes>>

CancelTooLate(c) ==
    LET d == DepartureOf[cancelling[c].booking] IN
    /\ cancelling[c].step = "loaded"
    /\ DepartureLockFree(d)
    /\ phase[d] # "open"
    /\ cancelling' = [cancelling EXCEPT ![c] = NoCancel]
    /\ UNCHANGED <<status, creating, confirming, expiring, completing,
                   awards, phase, lapsed, revived, crashes>>

CancelCommit(c) ==
    /\ cancelling[c].step = "locked"
    /\ cancelling' = [cancelling EXCEPT ![c].step = "committed"]
    /\ status' = [status EXCEPT ![cancelling[c].booking] = "CANCELLED"]
    /\ UNCHANGED <<creating, confirming, expiring, completing,
                   awards, phase, lapsed, revived, crashes>>

\* BOOKING_CANCELLED leaves after the commit; PaymentsService listens to it.
EmitCancelled(c) ==
    /\ cancelling[c].step = "committed"
    /\ cancelling' = [cancelling EXCEPT ![c] = NoCancel]
    /\ UNCHANGED <<status, creating, confirming, expiring, completing,
                   awards, phase, lapsed, revived, crashes>>

-----------------------------------------------------------------------------
(* confirmPaid(), inside the caller's transaction. The caller has written  *)
(* the booking's one payment row first, and the write lock on that row     *)
(* keeps a second settlement of the booking out until the commit.          *)

ConfirmLoad(w, b) ==
    /\ confirming[w] = NoConfirm
    /\ Inserted(b)
    /\ PaymentRowFree(b)
    /\ confirming' = [confirming EXCEPT ![w] = [booking |-> b, seen |-> status[b]]]
    /\ UNCHANGED <<status, creating, cancelling, expiring, completing,
                   awards, phase, lapsed, revived, crashes>>

ConfirmCommit(w) ==
    LET b == confirming[w].booking IN
    /\ b # NoBooking
    /\ confirming' = [confirming EXCEPT ![w] = NoConfirm]
    /\ IF confirming[w].seen = "PENDING"
         THEN /\ status' = [status EXCEPT ![b] = "CONFIRMED"]
              /\ revived' = IF status[b] = "PENDING" THEN revived
                                                     ELSE revived \cup {b}
         ELSE UNCHANGED <<status, revived>>
    /\ UNCHANGED <<creating, cancelling, expiring, completing,
                   awards, phase, lapsed, crashes>>

-----------------------------------------------------------------------------
(* The cron sweeps. A run loads its rows, then saves them one by one in a  *)
(* transaction whose writes appear together. A run ends before the next    *)
(* tick of its job starts one.                                             *)

\* fault: created_at compared the wrong way round
findFreshPending == {b \in Bookings \ lapsed : status[b] = "PENDING"}
findExpiredPending == {b \in lapsed : status[b] = "PENDING"}

ExpireLoad ==
    /\ expiring = {}
    /\ findExpiredPending # {}
    /\ expiring' = findExpiredPending
    /\ UNCHANGED <<status, creating, cancelling, confirming, completing,
                   awards, phase, lapsed, revived, crashes>>

ExpireCommit ==
    /\ expiring # {}
    /\ expiring' = {}
    /\ status' = [b \in Bookings |->
                    IF b \in expiring THEN "CANCELLED" ELSE status[b]]
    /\ UNCHANGED <<creating, cancelling, confirming, completing,
                   awards, phase, lapsed, revived, crashes>>

\* faults: upcoming departures swept, the status not asked for
findConfirmedUpcoming ==
    {b \in Bookings : status[b] = "CONFIRMED" /\ phase[DepartureOf[b]] # "past"}
findLivePast ==
    {b \in Bookings : status[b] \in Live /\ phase[DepartureOf[b]] = "past"}
findConfirmedForDepartures ==
    {b \in Bookings : status[b] = "CONFIRMED" /\ phase[DepartureOf[b]] = "past"}

CompleteLoad ==
    /\ completing = {}
    /\ findConfirmedForDepartures # {}
    /\ completing' = findConfirmedForDepartures
    /\ UNCHANGED <<status, creating, cancelling, confirming, expiring,
                   awards, phase, lapsed, revived, crashes>>

CompleteCommit ==
    /\ completing # {}
    /\ completing' = {}
    /\ status' = [b \in Bookings |->
                    IF b \in completing THEN "COMPLETED" ELSE status[b]]
    /\ awards' = [b \in Bookings |->
                    IF b \in completing THEN awards[b] + 1 ELSE awards[b]]
    /\ UNCHANGED <<creating, cancelling, confirming, expiring,
                   phase, lapsed, revived, crashes>>

-----------------------------------------------------------------------------
(* The clock and the process.                                              *)

HoldLapses(b) ==
    /\ Inserted(b)
    /\ b \notin lapsed
    /\ lapsed' = lapsed \cup {b}
    /\ UNCHANGED <<status, creating, cancelling, confirming, expiring,
                   completing, awards, phase, revived, crashes>>

WindowCloses(d) ==
    /\ phase[d] = "open"
    /\ phase' = [phase EXCEPT ![d] = "closing"]
    /\ UNCHANGED <<status, creating, cancelling, confirming, expiring,
                   completing, awards, lapsed, revived, crashes>>

\* The window is at least an hour, which no transaction that passed the
\* window check outlives.
Departs(d) ==
    /\ phase[d] = "closing"
    /\ ~CancelHolds(d)
    /\ phase' = [phase EXCEPT ![d] = "past"]
    /\ UNCHANGED <<status, creating, cancelling, confirming, expiring,
                   completing, awards, lapsed, revived, crashes>>

\* A restart loses every handler and rolls open transactions back.
Crash ==
    /\ crashes < MaxCrashes
    /\ crashes' = crashes + 1
    /\ creating' = [b \in Bookings |-> "idle"]
    /\ cancelling' = [c \in Cancels |-> NoCancel]
    /\ confirming' = [w \in Settlements |-> NoConfirm]
    /\ expiring' = {}
    /\ completing' = {}
    /\ UNCHANGED <<status, awards, phase, lapsed, revived>>

-----------------------------------------------------------------------------
Create(b) == GrantSeats(b) \/ InsertBooking(b) \/ LoseReference(b)

Cancel(c) ==
    \/ \E b \in Bookings : CancelLoad(c, b)
    \/ CancelLock(c) \/ CancelTooLate(c) \/ CancelCommit(c) \/ EmitCancelled(c)

ConfirmPaid(w) == (\E b \in Bookings : ConfirmLoad(w, b)) \/ ConfirmCommit(w)

Sweep == ExpireLoad \/ ExpireCommit \/ CompleteLoad \/ CompleteCommit

Clock == \/ \E b \in Bookings : HoldLapses(b)
         \/ \E d \in Departures : WindowCloses(d) \/ Departs(d)

Next ==
    \/ \E b \in Bookings : Create(b)
    \/ \E c \in Cancels : Cancel(c)
    \/ \E w \in Settlements : ConfirmPaid(w)
    \/ Sweep
    \/ Clock
    \/ Crash

Spec == Init /\ [][Next]_vars

\* The cron decorators start the sweeps for as long as the process lives, and
\* a sweep that has loaded its rows runs to its end.
Fairness ==
    /\ WF_vars(ExpireLoad) /\ WF_vars(ExpireCommit)
    /\ WF_vars(CompleteLoad) /\ WF_vars(CompleteCommit)

FairSpec == Spec /\ Fairness

-----------------------------------------------------------------------------
(* Type invariant: every handler is at one of its steps, and has a booking *)
(* loaded exactly while it works on an existing row.                       *)
TypeOK ==
    /\ status \in [Bookings -> Statuses]
    /\ creating \in [Bookings -> {"idle", "granted"}]
    /\ cancelling \in [Cancels -> [step : {"idle", "loaded", "locked", "committed"},
                                   booking : Bookings \cup {NoBooking}]]
    /\ \A c \in Cancels :
          (cancelling[c].step = "idle") <=> (cancelling[c].booking = NoBooking)
    /\ confirming \in [Settlements -> [booking : Bookings \cup {NoBooking},
                                       seen : Statuses]]
    /\ \A w \in Settlements :
          (confirming[w].booking = NoBooking) <=> (confirming[w].seen = "none")
    /\ expiring \subseteq Bookings
    /\ completing \subseteq Bookings
    /\ awards \in [Bookings -> Nat]
    /\ phase \in [Departures -> {"open", "closing", "past"}]
    /\ lapsed \subseteq Bookings
    /\ revived \subseteq Bookings
    /\ crashes \in 0..MaxCrashes

\* The row lock, the seat sum and the sweeps keep the live bookings of a
\* departure within its capacity, except for those a settlement confirmed
\* after their seats had been given back (bookings.service.ts create()).
SeatsWithinCapacity ==
    \A d \in Departures : SeatsTaken(LiveOn(d) \ revived) <= Capacity[d]

\* Why it holds: the seats a request was granted under the row lock are its
\* own before the row exists.
SeatsReserved ==
    \A d \in Departures :
        /\ SeatsTaken((LiveOn(d) \ revived) \cup Granted(d)) <= Capacity[d]
        /\ \A a, b \in Granted(d) : a = b

\* The same without the exception: what the design document promises.
NoOverbooking == \A d \in Departures : seatsConsumed(d) <= Capacity[d]

\* However settlements, sweeps, cancellations and restarts interleave, a
\* booking earns its loyalty points at most once (markCompletedAndAward()).
AwardedOnce == \A b \in Bookings : awards[b] <= 1

\* Why it holds: only a settlement that loaded PENDING confirms, the payment
\* row admits one of these at a time, and no row becomes PENDING again, so no
\* settlement can confirm a booking that the completion sweep has loaded.
AwardsSettled ==
    /\ \A b \in Bookings :
          /\ creating[b] = "granted" => status[b] = "none"
          /\ awards[b] <= 1
          /\ status[b] \in {"none", "PENDING", "CONFIRMED"} => awards[b] = 0
    /\ \A b \in completing :
          status[b] \in {"CONFIRMED", "CANCELLED"} /\ awards[b] = 0
    /\ \A b \in expiring : status[b] # "none"
    /\ \A c \in Cancels :
          cancelling[c].step # "idle" => status[cancelling[c].booking] # "none"
    /\ \A w \in Settlements : confirming[w].seen = "PENDING" =>
          LET b == confirming[w].booking IN
          /\ status[b] \in {"PENDING", "CANCELLED"}
          /\ awards[b] = 0
          /\ b \notin completing
    /\ \A v, w \in Settlements :
          (v # w /\ confirming[v].booking = confirming[w].booking)
              => confirming[v].booking = NoBooking

\* The inventory is a seat ledger: seats are reserved one booking at a time
\* while they fit, and only given back after that. A revived booking has
\* given its seats back.
Holding == {b \in Bookings : status[b] \in Live} \ revived
Ledger == INSTANCE SeatLedger WITH held <- Holding
RefinesLedger == Ledger!Spec

\* The edges of the design's lifecycle diagram, and the ones stale loads add:
\* a settlement or the completion sweep that loaded the booking before it was
\* cancelled, and the expiry sweep that loaded it before it was paid.
DesignedEdges == {<<"none", "PENDING">>, <<"PENDING", "CONFIRMED">>,
                  <<"PENDING", "CANCELLED">>, <<"CONFIRMED", "CANCELLED">>,
                  <<"CONFIRMED", "COMPLETED">>}
StaleEdges == {<<"CANCELLED", "CONFIRMED">>, <<"CANCELLED", "COMPLETED">>,
               <<"COMPLETED", "CANCELLED">>}
Lifecycle == INSTANCE BookingLifecycle WITH Edges <- DesignedEdges \cup StaleEdges

\* No interleaving takes a booking along any other edge: nothing becomes
\* PENDING again, nothing unpaid is completed, no completed booking is live.
RefinesLifecycle == Lifecycle!Spec

\* An unpaid booking does not hold its seats for ever (expireStalePending()).
HoldsExpire ==
    \A b \in Bookings :
        (b \in lapsed /\ status[b] = "PENDING") ~> (status[b] # "PENDING")

\* A confirmed booking of a past departure does not stay CONFIRMED.
PastBookingsComplete ==
    \A b \in Bookings :
        (status[b] = "CONFIRMED" /\ phase[DepartureOf[b]] = "past")
            ~> (status[b] # "CONFIRMED")
=============================================================================

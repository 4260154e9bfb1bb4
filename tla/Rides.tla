-------------------------------- MODULE Rides --------------------------------
(***************************************************************************)
(* Campus rides: a request dispatches a driver, a timer advances every     *)
(* ride in flight and completes it at the dropoff, and the tourist may     *)
(* cancel. Rides and drivers are rows that the three write without locks   *)
(* or transactions: each save is a step of its own, and it writes the ride *)
(* as its handler loaded it, whatever the row has become.                  *)
(*                                                                         *)
(* Where a driver is matters only through the number of ticks left until   *)
(* the end of the leg: a tick takes a fixed fraction of the distance, and  *)
(* within ARRIVED_KM the leg is over.                                      *)
(***************************************************************************)
EXTENDS Integers

CONSTANTS
    Rides,          \* accepted requests for a ride
    RiderOf,        \* ride -> its tourist
    Drivers,
    DriversFor,     \* ride -> the drivers with the vehicle type of its quote
    MaxLeg,         \* the longest way to a pickup, in ticks
    ToDropoff,      \* ride -> ticks from the pickup to the dropoff
    Cancels,        \* concurrent cancel requests
    Ticks,          \* runs of the timer that may overlap
    NoRide, NoDriver,
    MaxFaults       \* bound on failing queries and restarts

ASSUME RidesAssumption ==
    /\ DriversFor \in [Rides -> SUBSET Drivers]
    /\ MaxLeg \in Nat
    /\ ToDropoff \in [Rides -> Nat \ {0}]
    /\ NoRide \notin Rides
    /\ NoDriver \notin Drivers
    /\ MaxFaults \in Nat

VARIABLES
    ride,           \* the row: its status and the ticks left of its leg
    driverOf,       \* the driver a request has picked; driver_id of the row
    available,      \* the available column of a driver
    requesting,     \* where ride r's request is
    cancelling,     \* cancel request -> its step and the ride it loaded
    ticking,        \* run of the timer -> the rows it has loaded and not saved
    raced,          \* history: checked while the tourist had another request
    revived,        \* history: saved as active after it had been cancelled
    freed,          \* history: rides that have let go of their driver
    overtaken,      \* history: marked its driver busy after that
    contested,      \* history: drivers that a race or a fault has confused
    faults

vars == <<ride, driverOf, available, requesting, cancelling, ticking, raced,
          revived, freed, overtaken, contested, faults>>

RideStatus == {"none", "DRIVER_ASSIGNED", "ARRIVING", "IN_PROGRESS",
               "COMPLETED", "CANCELLED"}

\* fault: a status left out of the list
ACTIVE_BUT_IN_PROGRESS == {"DRIVER_ASSIGNED", "ARRIVING"}
ACTIVE_STATUSES == {"DRIVER_ASSIGNED", "ARRIVING", "IN_PROGRESS"}
Final == {"COMPLETED", "CANCELLED"}

NoRow == [status |-> "none", left |-> 0]
NoCancel == [step |-> "idle", ride |-> NoRide]
NoTick == [rows |-> [r \in Rides |-> NoRow], completing |-> NoRide]

Active(r) == ride[r].status \in ACTIVE_STATUSES

allRides == {r \in Rides : ride[r] # NoRow}     \* fault: no status filter
activeRides == {r \in Rides : Active(r)}

noRideYet(u) == FALSE           \* fault: the check is dropped
hasActiveRide(u) == \E r \in activeRides : RiderOf[r] = u

anyDriver(r) == DriversFor[r]   \* fault: available is not asked for
availableDrivers(r) == {d \in DriversFor[r] : available[d]}

\* fault: every ride but an assigned one
pickedUp(row) == row.status # "DRIVER_ASSIGNED"
headingToDropoff(row) == row.status = "IN_PROGRESS"

\* What step() makes of a row: the leg goes on, or the driver has arrived.
Stepped(r, row) ==
    IF row.left > 1
      THEN [status |-> IF row.status = "DRIVER_ASSIGNED" THEN "ARRIVING"
                                                         ELSE row.status,
            left |-> row.left - 1]
      ELSE IF headingToDropoff(row)
             THEN [status |-> "COMPLETED", left |-> 0]
             ELSE [status |-> "IN_PROGRESS", left |-> ToDropoff[r]]

Init ==
    /\ ride = [r \in Rides |-> NoRow]
    /\ driverOf = [r \in Rides |-> NoDriver]
    /\ available = [d \in Drivers |-> TRUE]
    /\ requesting = [r \in Rides |-> "idle"]
    /\ cancelling = [c \in Cancels |-> NoCancel]
    /\ ticking = [t \in Ticks |-> NoTick]
    /\ raced = {}
    /\ revived = {}
    /\ freed = {}
    /\ overtaken = {}
    /\ contested = {}
    /\ faults = 0

-----------------------------------------------------------------------------
(* POST /rides: check, look for a driver, insert the ride, mark the driver *)
(* busy. A request without a live quote is refused and is not a step.      *)

RequestCheck(r) ==
    /\ ride[r] = NoRow
    /\ requesting[r] = "idle"
    /\ ~hasActiveRide(RiderOf[r])
    /\ requesting' = [requesting EXCEPT ![r] = "checked"]
    /\ raced' = IF \E s \in Rides \ {r} : /\ RiderOf[s] = RiderOf[r]
                                          /\ requesting[s] \in {"checked", "picked"}
                  THEN raced \cup {r} ELSE raced
    /\ UNCHANGED <<ride, driverOf, available, cancelling, ticking, revived,
                   freed, overtaken, contested, faults>>

\* The nearest of the available drivers; which of them that is depends on
\* where they are, so it may be any.
PickDriver(r, d) ==
    /\ requesting[r] = "checked"
    /\ d \in availableDrivers(r)
    /\ requesting' = [requesting EXCEPT ![r] = "picked"]
    /\ driverOf' = [driverOf EXCEPT ![r] = d]
    /\ contested' = IF \E s \in Rides \ {r} : /\ driverOf[s] = d
                                              /\ requesting[s] \in {"picked", "inserted"}
                      THEN contested \cup {d} ELSE contested
    /\ UNCHANGED <<ride, available, cancelling, ticking, raced, revived,
                   freed, overtaken, faults>>

NoDriverLeft(r) ==
    /\ requesting[r] = "checked"
    /\ availableDrivers(r) = {}
    /\ requesting' = [requesting EXCEPT ![r] = "idle"]
    /\ UNCHANGED <<ride, driverOf, available, cancelling, ticking, raced,
                   revived, freed, overtaken, contested, faults>>

InsertRide(r) ==
    /\ requesting[r] = "picked"
    /\ requesting' = [requesting EXCEPT ![r] = "inserted"]
    /\ \E n \in 1..MaxLeg :
          ride' = [ride EXCEPT ![r] = [status |-> "DRIVER_ASSIGNED", left |-> n]]
    /\ UNCHANGED <<driverOf, available, cancelling, ticking, raced, revived,
                   freed, overtaken, contested, faults>>

MarkBusy(r) ==
    /\ requesting[r] = "inserted"
    /\ requesting' = [requesting EXCEPT ![r] = "idle"]
    /\ available' = [available EXCEPT ![driverOf[r]] = FALSE]
    /\ overtaken' = IF r \in freed THEN overtaken \cup {r} ELSE overtaken
    /\ UNCHANGED <<ride, driverOf, cancelling, ticking, raced, revived,
                   freed, contested, faults>>

-----------------------------------------------------------------------------
(* freeDriver() makes the ride's driver available without asking whether   *)
(* the driver serves another ride by now.                                  *)

freeDriver(r) ==
    /\ available' = [available EXCEPT ![driverOf[r]] = TRUE]
    /\ freed' = freed \cup {r}
    /\ contested' = IF r \in freed THEN contested \cup {driverOf[r]} ELSE contested

-----------------------------------------------------------------------------
(* POST /rides/:id/cancel: load, free the driver, save.                    *)

CancelLoad(c, r) ==
    /\ cancelling[c] = NoCancel
    /\ ride[r].status \notin Final \cup {"none"}
    /\ cancelling' = [cancelling EXCEPT ![c] = [step |-> "loaded", ride |-> r]]
    /\ UNCHANGED <<ride, driverOf, available, requesting, ticking, raced,
                   revived, freed, overtaken, contested, faults>>

\* fault: the ride is saved although its driver was not freed
CancelWithoutFree(c) ==
    /\ cancelling[c].step = "loaded"
    /\ cancelling' = [cancelling EXCEPT ![c].step = "freed"]
    /\ UNCHANGED <<ride, driverOf, available, requesting, ticking, raced,
                   revived, freed, overtaken, contested, faults>>

CancelFree(c) ==
    /\ cancelling[c].step = "loaded"
    /\ cancelling' = [cancelling EXCEPT ![c].step = "freed"]
    /\ freeDriver(cancelling[c].ride)
    /\ UNCHANGED <<ride, driverOf, requesting, ticking, raced, revived,
                   overtaken, faults>>

\* The save writes the position it loaded, too, which nobody reads again.
CancelSave(c) ==
    /\ cancelling[c].step = "freed"
    /\ cancelling' = [cancelling EXCEPT ![c] = NoCancel]
    /\ ride' = [ride EXCEPT ![cancelling[c].ride] = [status |-> "CANCELLED", left |-> 0]]
    /\ UNCHANGED <<driverOf, available, requesting, ticking, raced, revived,
                   freed, overtaken, contested, faults>>

-----------------------------------------------------------------------------
(* advanceActiveRides(), every four seconds: load the active rides, then   *)
(* step one after the other. The last step of a ride frees its driver      *)
(* before the ride is saved.                                               *)

TickLoad(t) ==
    /\ ticking[t] = NoTick
    /\ activeRides # {}
    /\ ticking' = [ticking EXCEPT ![t].rows =
                     [r \in Rides |-> IF r \in activeRides THEN ride[r] ELSE NoRow]]
    /\ UNCHANGED <<ride, driverOf, available, requesting, cancelling, raced,
                   revived, freed, overtaken, contested, faults>>

\* The run turns to its next row.
Done(t, r) ==
    ticking' = [ticking EXCEPT ![t] = [rows |-> [@.rows EXCEPT ![r] = NoRow],
                                       completing |-> NoRide]]

TickMove(t, r) ==
    LET row == Stepped(r, ticking[t].rows[r]) IN
    /\ ticking[t].completing = NoRide
    /\ ticking[t].rows[r] # NoRow
    /\ row.status # "COMPLETED"
    /\ Done(t, r)
    /\ ride' = [ride EXCEPT ![r] = row]
    /\ revived' = IF ride[r].status \in Final THEN revived \cup {r} ELSE revived
    /\ UNCHANGED <<driverOf, available, requesting, cancelling, raced, freed,
                   overtaken, contested, faults>>

TickFree(t, r) ==
    /\ ticking[t].completing = NoRide
    /\ ticking[t].rows[r] # NoRow
    /\ Stepped(r, ticking[t].rows[r]).status = "COMPLETED"
    /\ ticking' = [ticking EXCEPT ![t].completing = r]
    /\ freeDriver(r)
    /\ UNCHANGED <<ride, driverOf, requesting, cancelling, raced, revived,
                   overtaken, faults>>

TickComplete(t) ==
    LET r == ticking[t].completing IN
    /\ r # NoRide
    /\ Done(t, r)
    /\ ride' = [ride EXCEPT ![r] = Stepped(r, ticking[t].rows[r])]
    /\ UNCHANGED <<driverOf, available, requesting, cancelling, raced, revived,
                   freed, overtaken, contested, faults>>

-----------------------------------------------------------------------------
(* A query fails and its handler ends there, or the process restarts. A    *)
(* ride that was inserted keeps its driver, who stays available when the   *)
(* second save of the request is lost.                                     *)

Stop(Rs, Cs, Ts) ==
    /\ faults < MaxFaults
    /\ faults' = faults + 1
    /\ requesting' = [r \in Rides |-> IF r \in Rs THEN "idle" ELSE requesting[r]]
    /\ driverOf' = [r \in Rides |-> IF r \in Rs /\ ride[r] = NoRow
                                      THEN NoDriver ELSE driverOf[r]]
    /\ contested' = contested \cup
                      {driverOf[r] : r \in {s \in Rs : requesting[s] = "inserted"}}
    /\ cancelling' = [c \in Cancels |-> IF c \in Cs THEN NoCancel ELSE cancelling[c]]
    /\ ticking' = [t \in Ticks |-> IF t \in Ts THEN NoTick ELSE ticking[t]]
    /\ UNCHANGED <<ride, available, raced, revived, freed, overtaken>>

RequestFails(r) == requesting[r] # "idle" /\ Stop({r}, {}, {})
CancelFails(c) == cancelling[c] # NoCancel /\ Stop({}, {c}, {})
TickFails(t) == ticking[t] # NoTick /\ Stop({}, {}, {t})
Crash == Stop(Rides, Cancels, Ticks)

-----------------------------------------------------------------------------
Request(r) ==
    \/ RequestCheck(r)
    \/ \E d \in Drivers : PickDriver(r, d)
    \/ NoDriverLeft(r) \/ InsertRide(r) \/ MarkBusy(r) \/ RequestFails(r)

Cancel(c) ==
    \/ \E r \in Rides : CancelLoad(c, r)
    \/ CancelFree(c) \/ CancelSave(c) \/ CancelFails(c)

TickStep(t) == (\E r \in Rides : TickMove(t, r) \/ TickFree(t, r)) \/ TickComplete(t)

Tick(t) == TickLoad(t) \/ TickStep(t) \/ TickFails(t)

Next ==
    \/ \E r \in Rides : Request(r)
    \/ \E c \in Cancels : Cancel(c)
    \/ \E t \in Ticks : Tick(t)
    \/ Crash

Spec == Init /\ [][Next]_vars

\* The interval starts a run every four seconds, and a run gets to its end
\* unless a query fails.
Fairness == \A t \in Ticks : WF_vars(TickLoad(t)) /\ WF_vars(TickStep(t))

FairSpec == Spec /\ Fairness

-----------------------------------------------------------------------------
(* Type invariant: a request has a driver from the pick on, a handler that *)
(* works on a ride works on an inserted one, and a ride is completed only  *)
(* by the run that has loaded it in progress.                              *)
Rows == [status : RideStatus, left : Nat]

RTypeOK ==
    /\ ride \in [Rides -> Rows]
    /\ driverOf \in [Rides -> Drivers \cup {NoDriver}]
    /\ available \in [Drivers -> BOOLEAN]
    /\ requesting \in [Rides -> {"idle", "checked", "picked", "inserted"}]
    /\ \A r \in Rides :
          /\ driverOf[r] = NoDriver <=> (ride[r] = NoRow /\ requesting[r] # "picked")
          /\ requesting[r] = "inserted" => ride[r] # NoRow
          /\ requesting[r] \in {"checked", "picked"} => ride[r] = NoRow
          /\ ride[r] = NoRow <=> ride[r].status = "none"
    /\ cancelling \in [Cancels -> [step : {"idle", "loaded", "freed"},
                                   ride : Rides \cup {NoRide}]]
    /\ \A c \in Cancels :
          IF cancelling[c].step = "idle" THEN cancelling[c] = NoCancel
          ELSE cancelling[c].ride # NoRide /\ ride[cancelling[c].ride] # NoRow
    /\ ticking \in [Ticks -> [rows : [Rides -> Rows], completing : Rides \cup {NoRide}]]
    /\ \A t \in Ticks, r \in Rides :
          LET row == ticking[t].rows[r] IN
          /\ row # NoRow => row.status \in ACTIVE_STATUSES /\ ride[r] # NoRow
          /\ ticking[t].completing = r =>
                row # NoRow /\ Stepped(r, row).status = "COMPLETED"
    /\ raced \subseteq Rides
    /\ revived \subseteq Rides
    /\ freed \subseteq Rides
    /\ overtaken \subseteq Rides
    /\ contested \subseteq Drivers
    /\ faults \in 0..MaxFaults

InFlight(r) == requesting[r] \in {"checked", "picked"}
Claims(r) == InFlight(r) \/ Active(r)

\* What the conflict check of request() comes to: a tourist has two active
\* rides only when one was checked while the other's request was under way, or
\* when a tick wrote a cancelled one back.
OneRideUnlessRaced ==
    \A r, s \in activeRides :
        (r # s /\ RiderOf[r] = RiderOf[s]) => r \in raced \cup revived
                                              \/ s \in raced \cup revived

\* Why it holds: the same, with requests that have passed the check.
ClaimsAreSingle ==
    \A r, s \in Rides :
        (r # s /\ RiderOf[r] = RiderOf[s] /\ Claims(r) /\ Claims(s)) => r \in raced \cup revived \/ s \in raced \cup revived

Serving(d) == {r \in activeRides : driverOf[r] = d /\ r \notin freed}

\* A driver serves one ride at a time, unless two requests picked the driver
\* at once, one ride freed the driver twice, or the save that marks the driver
\* busy was lost (request(), freeDriver()).
DriverServesOne ==
    \A d \in Drivers \ contested : \A r, s \in Serving(d) : r = s

\* A driver who is not available has a ride that still needs the driver, or a
\* ride that was over before the driver was marked busy: no interleaving of
\* requests, ticks, cancellations and failing queries loses a driver otherwise.
BusyDriversServe ==
    \A d \in Drivers : ~available[d] =>
        \/ Serving(d) # {}
        \/ \E r \in overtaken : driverOf[r] = d

\* Why both hold: a ride lets go of its driver before it is over, and a driver
\* who is available serves only requests that have not marked the driver busy.
Taken(r) == requesting[r] \in {"picked", "inserted"}
Holds(r, d) == driverOf[r] = d /\ (Taken(r) \/ (Active(r) /\ r \notin freed))

FreedBeforeOver ==
    /\ \A r \in Rides : ride[r].status \in Final => r \in freed
    /\ \A r \in freed \cup overtaken : ride[r] # NoRow
    /\ \A c \in Cancels : cancelling[c].step = "freed" => cancelling[c].ride \in freed
    /\ \A t \in Ticks : ticking[t].completing # NoRide => ticking[t].completing \in freed

HeldByOne ==
    \A d \in Drivers \ contested :
        /\ \A r, s \in Rides : Holds(r, d) /\ Holds(s, d) => r = s
        /\ available[d] => \A r \in Rides : Holds(r, d) => Taken(r)

DesignedEdges ==
    {<<"none", "DRIVER_ASSIGNED">>, <<"DRIVER_ASSIGNED", "ARRIVING">>,
     <<"DRIVER_ASSIGNED", "IN_PROGRESS">>, <<"ARRIVING", "IN_PROGRESS">>,
     <<"IN_PROGRESS", "COMPLETED">>}
        \cup ACTIVE_STATUSES \X {"CANCELLED"}
StaleEdges == {<<"CANCELLED", "ARRIVING">>, <<"CANCELLED", "IN_PROGRESS">>,
               <<"CANCELLED", "COMPLETED">>, <<"COMPLETED", "CANCELLED">>}

\* With runs of the timer that do not overlap, rides go through their states in
\* the order of the guide, and stale saves only add the way out of CANCELLED
\* and from COMPLETED to it: no ride goes back to an earlier leg.
StatusFollowsEdges ==
    [][\A r \in Rides : ride'[r].status # ride[r].status =>
          <<ride[r].status, ride'[r].status>> \in DesignedEdges \cup StaleEdges]_vars

\* Why that is: the row a run of the timer has loaded is still the ride's, or
\* the ride has been cancelled since.
RowsAreCurrent ==
    \A t \in Ticks, r \in Rides :
        ticking[t].rows[r] # NoRow =>
            ride[r] = ticking[t].rows[r] \/ ride[r].status = "CANCELLED"

\* Every ride comes to an end and stays there, also one that was written back
\* after its cancellation or whose run of the timer failed.
RidesFinish ==
    \A r \in Rides : (ride[r] # NoRow) ~> [](ride[r].status \in Final)
=============================================================================

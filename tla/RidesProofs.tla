----------------------------- MODULE RidesProofs -----------------------------
(***************************************************************************)
(* Theorems about Rides, for any rides, tourists and drivers, any number   *)
(* of overlapping runs of the timer and any number of faults.              *)
(***************************************************************************)
EXTENDS Rides, TLAPS

-----------------------------------------------------------------------------
(* What a step of the simulation makes of a row it has loaded.             *)

\* step() keeps an active row well formed, and active or completed.
LEMMA SteppedRow ==
    ASSUME NEW r \in Rides, NEW row \in Rows, row.status \in ACTIVE_STATUSES
    PROVE  /\ Stepped(r, row) \in Rows
           /\ Stepped(r, row).status \in ACTIVE_STATUSES \cup {"COMPLETED"}
           /\ Stepped(r, row) # NoRow
           /\ Stepped(r, row).status # "none"
  BY RidesAssumption DEF Stepped, headingToDropoff, Rows, RideStatus,
                         ACTIVE_STATUSES, NoRow

-----------------------------------------------------------------------------
(* Type correctness.                                                       *)

\* The type invariant holds at the start.
LEMMA InitTyped == Init => RTypeOK
  BY RidesAssumption DEF Init, RTypeOK, Rows, RideStatus, NoRow, NoCancel, NoTick

\* A request has a driver from the pick on, whatever fails.
LEMMA RequestTyped ==
    ASSUME RTypeOK, NEW r \in Rides, Request(r), ~RequestFails(r)
    PROVE  RTypeOK'
<1> USE RidesAssumption DEF RTypeOK
<1>1. CASE RequestCheck(r)
  BY <1>1 DEF RequestCheck
<1>2. ASSUME NEW d \in Drivers, PickDriver(r, d)
      PROVE  RTypeOK'
  BY <1>2 DEF PickDriver
<1>3. CASE NoDriverLeft(r)
  BY <1>3 DEF NoDriverLeft
<1>4. CASE InsertRide(r)
  BY <1>4 DEF InsertRide, Rows, RideStatus, NoRow
<1>5. CASE MarkBusy(r)
  BY <1>5 DEF MarkBusy
<1> QED
  BY <1>1, <1>2, <1>3, <1>4, <1>5 DEF Request

\* A cancellation preserves it.
LEMMA CancelTyped ==
    ASSUME RTypeOK, NEW c \in Cancels, Cancel(c), ~CancelFails(c)
    PROVE  RTypeOK'
<1> USE RidesAssumption DEF RTypeOK
<1>1. ASSUME NEW r \in Rides, CancelLoad(c, r)
      PROVE  RTypeOK'
  BY <1>1 DEF CancelLoad, NoCancel, Final
<1>2. CASE CancelFree(c)
  BY <1>2 DEF CancelFree, freeDriver, NoCancel
<1>3. CASE CancelSave(c)
  BY <1>3 DEF CancelSave, NoCancel, Rows, RideStatus, NoRow
<1> QED
  BY <1>1, <1>2, <1>3 DEF Cancel

\* A run of the timer preserves it.
LEMMA TickTyped ==
    ASSUME RTypeOK, NEW t \in Ticks, Tick(t), ~TickFails(t)
    PROVE  RTypeOK'
<1> USE RidesAssumption DEF RTypeOK
<1>1. CASE TickLoad(t)
  BY <1>1 DEF TickLoad, NoTick, NoRow, activeRides, Active, Rows, RideStatus
<1>2. ASSUME NEW r \in Rides, TickMove(t, r)
      PROVE  RTypeOK'
  BY <1>2, SteppedRow DEF TickMove, Done, NoRow, Rows, RideStatus
<1>3. ASSUME NEW r \in Rides, TickFree(t, r)
      PROVE  RTypeOK'
  BY <1>3, SteppedRow DEF TickFree, freeDriver
<1>4. CASE TickComplete(t)
  BY <1>4, SteppedRow DEF TickComplete, Done, NoRow, Rows, RideStatus
<1> QED
  BY <1>1, <1>2, <1>3, <1>4 DEF Tick, TickStep

\* Whatever handlers end, the others keep what they have.
LEMMA StopTyped ==
    ASSUME RTypeOK, NEW Rs \in SUBSET Rides, NEW Cs \in SUBSET Cancels,
           NEW Ts \in SUBSET Ticks, Stop(Rs, Cs, Ts)
    PROVE  RTypeOK'
  BY RidesAssumption DEF RTypeOK, Stop, NoCancel, NoTick, NoRow, Rows, RideStatus

\* A step is an action of a request, a cancellation or a run of the timer, or
\* it stops some of them.
LEMMA StepCases ==
    ASSUME [Next]_vars
    PROVE  \/ \E r \in Rides : Request(r) /\ ~RequestFails(r)
           \/ \E c \in Cancels : Cancel(c) /\ ~CancelFails(c)
           \/ \E t \in Ticks : Tick(t) /\ ~TickFails(t)
           \/ \E Rs \in SUBSET Rides, Cs \in SUBSET Cancels, Ts \in SUBSET Ticks :
                 Stop(Rs, Cs, Ts)
           \/ UNCHANGED vars
<1>1. ASSUME NEW r \in Rides, RequestFails(r)
      PROVE  Stop({r}, {}, {}) /\ {r} \in SUBSET Rides
  BY <1>1 DEF RequestFails
<1>2. ASSUME NEW c \in Cancels, CancelFails(c)
      PROVE  Stop({}, {c}, {}) /\ {c} \in SUBSET Cancels
  BY <1>2 DEF CancelFails
<1>3. ASSUME NEW t \in Ticks, TickFails(t)
      PROVE  Stop({}, {}, {t}) /\ {t} \in SUBSET Ticks
  BY <1>3 DEF TickFails
<1>4. CASE Crash
  BY <1>4 DEF Crash
<1>5. {} \in SUBSET Rides /\ {} \in SUBSET Cancels /\ {} \in SUBSET Ticks
  OBVIOUS
<1> QED
  BY <1>1, <1>2, <1>3, <1>4, <1>5 DEF Next

\* Every step preserves it.
LEMMA StepTyped == RTypeOK /\ [Next]_vars => RTypeOK'
<1> SUFFICES ASSUME RTypeOK, [Next]_vars
             PROVE  RTypeOK'
  OBVIOUS
<1>1. CASE UNCHANGED vars
  BY <1>1 DEF vars, RTypeOK
<1> QED
  BY <1>1, StepCases, RequestTyped, CancelTyped, TickTyped, StopTyped

\* The rows of rides and drivers and every handler are well formed.
THEOREM RTypeCorrect == Spec => []RTypeOK
<1>1. Init => RTypeOK
  BY InitTyped
<1>2. RTypeOK /\ [Next]_vars => RTypeOK'
  BY StepTyped
<1> QED
  BY <1>1, <1>2, PTL DEF Spec

-----------------------------------------------------------------------------
(* A tourist's rides.                                                      *)

\* A step gives a ride its claim only by passing the check or by writing it
\* back, and never takes a ride out of raced or revived.
LEMMA ClaimsArise ==
    ASSUME RTypeOK, [Next]_vars
    PROVE  /\ raced \subseteq raced' /\ revived \subseteq revived'
           /\ \A r \in Rides : Claims(r)' =>
                 Claims(r) \/ r \in revived' \/ RequestCheck(r)
<1> USE RidesAssumption DEF Claims, InFlight, Active
<1>1. ASSUME NEW q \in Rides, Request(q), ~RequestFails(q)
      PROVE  /\ raced \subseteq raced' /\ revived \subseteq revived'
             /\ \A r \in Rides : Claims(r)' => Claims(r) \/ RequestCheck(r)
  BY <1>1 DEF Request, RequestCheck, PickDriver, NoDriverLeft, InsertRide,
              MarkBusy, RTypeOK
<1>2. ASSUME NEW c \in Cancels, Cancel(c), ~CancelFails(c)
      PROVE  /\ raced \subseteq raced' /\ revived \subseteq revived'
             /\ \A r \in Rides : Claims(r)' => Claims(r)
  <2>1. CASE CancelSave(c)
    <3>1. \A r \in Rides : ride'[r] = ride[r] \/ ride'[r].status = "CANCELLED"
      BY <2>1 DEF CancelSave, RTypeOK
    <3> QED
      BY <2>1, <3>1 DEF CancelSave, ACTIVE_STATUSES
  <2>2. UNCHANGED <<raced, revived, requesting>>
    BY <1>2 DEF Cancel, CancelLoad, CancelFree, CancelSave
  <2>3. ~CancelSave(c) => UNCHANGED ride
    BY <1>2 DEF Cancel, CancelLoad, CancelFree
  <2> QED
    BY <2>1, <2>2, <2>3
<1>3. ASSUME NEW t \in Ticks, Tick(t), ~TickFails(t)
      PROVE  /\ raced \subseteq raced' /\ revived \subseteq revived'
             /\ \A r \in Rides : Claims(r)' => Claims(r) \/ r \in revived'
  <2>1. ASSUME NEW q \in Rides, TickMove(t, q)
        PROVE  \A r \in Rides : Claims(r)' => Claims(r) \/ r \in revived'
    BY <2>1, <1>3 DEF TickMove, RTypeOK, Rows, RideStatus, ACTIVE_STATUSES, Final
  <2>2. CASE TickComplete(t)
    BY <2>2, <1>3 DEF TickComplete, RTypeOK, ACTIVE_STATUSES
  <2> QED
    BY <1>3, <2>1, <2>2 DEF Tick, TickLoad, TickStep, TickMove, TickFree, TickComplete
<1>4. ASSUME NEW Rs \in SUBSET Rides, NEW Cs \in SUBSET Cancels,
             NEW Ts \in SUBSET Ticks, Stop(Rs, Cs, Ts)
      PROVE  /\ raced \subseteq raced' /\ revived \subseteq revived'
             /\ \A r \in Rides : Claims(r)' => Claims(r)
  BY <1>4 DEF Stop
<1>5. CASE UNCHANGED vars
  BY <1>5 DEF vars
<1> QED
  BY <1>1, <1>2, <1>3, <1>4, <1>5, StepCases

\* Every step preserves ClaimsAreSingle.
LEMMA ClaimsStep == RTypeOK /\ ClaimsAreSingle /\ [Next]_vars => ClaimsAreSingle'
<1> SUFFICES ASSUME RTypeOK, ClaimsAreSingle, [Next]_vars,
                    NEW r \in Rides, NEW s \in Rides, r # s,
                    RiderOf[r] = RiderOf[s], Claims(r)', Claims(s)',
                    r \notin revived', s \notin revived'
             PROVE  r \in raced' \/ s \in raced'
  BY DEF ClaimsAreSingle
<1>1. CASE RequestCheck(r)
  \* s has no active ride, and s does not check in the same step.
  <2>1. ~Active(s) /\ (InFlight(s)' <=> InFlight(s)) /\ (Active(s)' <=> Active(s))
    BY <1>1 DEF RequestCheck, hasActiveRide, activeRides, InFlight, Active, RTypeOK
  <2>2. InFlight(s)
    BY <2>1 DEF Claims
  <2> QED
    BY <1>1, <2>2 DEF RequestCheck, InFlight
<1>2. CASE RequestCheck(s)
  <2>1. ~Active(r) /\ (InFlight(r)' <=> InFlight(r)) /\ (Active(r)' <=> Active(r))
    BY <1>2 DEF RequestCheck, hasActiveRide, activeRides, InFlight, Active, RTypeOK
  <2>2. InFlight(r)
    BY <2>1 DEF Claims
  <2> QED
    BY <1>2, <2>2 DEF RequestCheck, InFlight
<1>3. CASE ~RequestCheck(r) /\ ~RequestCheck(s)
  BY <1>3, ClaimsArise DEF ClaimsAreSingle
<1> QED
  BY <1>1, <1>2, <1>3

\* A tourist's claims on a ride are single, but for races and stale saves.
THEOREM ClaimsStaySingle == Spec => []ClaimsAreSingle
<1>1. Init => ClaimsAreSingle
  BY DEF Init, ClaimsAreSingle, Claims, InFlight, Active, NoRow, ACTIVE_STATUSES
<1>2. RTypeOK /\ ClaimsAreSingle /\ [Next]_vars => ClaimsAreSingle'
  BY ClaimsStep
<1> QED
  BY <1>1, <1>2, RTypeCorrect, PTL DEF Spec

\* A tourist has two active rides only after a race of two requests, or after a
\* tick wrote a cancelled ride back.
THEOREM OneRidePerTourist == Spec => []OneRideUnlessRaced
<1>1. ClaimsAreSingle => OneRideUnlessRaced
  BY DEF ClaimsAreSingle, OneRideUnlessRaced, Claims, Active, activeRides
<1> QED
  BY <1>1, ClaimsStaySingle, PTL

-----------------------------------------------------------------------------
(* Drivers.                                                                *)

\* What a step does to the rides that have let go of their driver.
LEMMA FreedStep == RTypeOK /\ FreedBeforeOver /\ [Next]_vars => FreedBeforeOver'
<1> SUFFICES ASSUME RTypeOK, FreedBeforeOver, [Next]_vars
             PROVE  FreedBeforeOver'
  OBVIOUS
<1> USE RidesAssumption DEF FreedBeforeOver
<1>1. ASSUME NEW r \in Rides, Request(r), ~RequestFails(r)
      PROVE  FreedBeforeOver'
  <2>1. CASE InsertRide(r)
    BY <2>1 DEF InsertRide, RTypeOK, NoRow, Final
  <2>2. CASE ~InsertRide(r)
    BY <1>1, <2>2 DEF Request, RequestCheck, PickDriver, NoDriverLeft, MarkBusy, RTypeOK
  <2> QED
    BY <2>1, <2>2
<1>2. ASSUME NEW c \in Cancels, Cancel(c), ~CancelFails(c)
      PROVE  FreedBeforeOver'
  <2>1. ASSUME NEW r \in Rides, CancelLoad(c, r)
        PROVE  FreedBeforeOver'
    BY <2>1 DEF CancelLoad, RTypeOK
  <2>2. CASE CancelFree(c)
    BY <2>2 DEF CancelFree, freeDriver, RTypeOK
  <2>3. CASE CancelSave(c)
    BY <2>3 DEF CancelSave, RTypeOK, NoCancel, NoRow
  <2> QED
    BY <1>2, <2>1, <2>2, <2>3 DEF Cancel
<1>3. ASSUME NEW t \in Ticks, Tick(t), ~TickFails(t)
      PROVE  FreedBeforeOver'
  <2>1. CASE TickLoad(t)
    BY <2>1 DEF TickLoad, RTypeOK, NoTick
  <2>2. ASSUME NEW r \in Rides, TickMove(t, r)
        PROVE  FreedBeforeOver'
    <3> DEFINE row == Stepped(r, ticking[t].rows[r])
    <3>0. row.status \notin Final /\ row # NoRow
      <4>1. ticking[t].rows[r] \in Rows /\ ticking[t].rows[r].status \in ACTIVE_STATUSES
        BY <2>2 DEF TickMove, RTypeOK
      <4>2. row.status \in ACTIVE_STATUSES \cup {"COMPLETED"} /\ row # NoRow
        BY <4>1, SteppedRow
      <4>3. row.status # "COMPLETED"
        BY <2>2 DEF TickMove
      <4> HIDE DEF row
      <4> QED
        BY <4>2, <4>3 DEF Final, ACTIVE_STATUSES
    <3>1. /\ ride'[r].status \notin Final /\ ride'[r] # NoRow
          /\ \A q \in Rides \ {r} : ride'[q] = ride[q]
      BY <2>2, <3>0 DEF TickMove, RTypeOK
    <3>2. /\ \A v \in Ticks : ticking'[v].completing \in {NoRide, ticking[v].completing}
          /\ UNCHANGED <<freed, overtaken, cancelling>>
      BY <2>2 DEF TickMove, Done, RTypeOK
    <3>3. freed \subseteq Rides /\ overtaken \subseteq Rides
      BY DEF RTypeOK
    <3> QED
      BY <3>1, <3>2, <3>3
  <2>3. ASSUME NEW r \in Rides, TickFree(t, r)
        PROVE  FreedBeforeOver'
    BY <2>3 DEF TickFree, freeDriver, RTypeOK
  <2>4. CASE TickComplete(t)
    <3> DEFINE r == ticking[t].completing
    <3>1. /\ r \in freed /\ r \in Rides
          /\ ride'[r] # NoRow
          /\ \A q \in Rides \ {r} : ride'[q] = ride[q]
      BY <2>4, SteppedRow DEF TickComplete, RTypeOK
    <3>2. /\ \A v \in Ticks : ticking'[v].completing \in {NoRide, ticking[v].completing}
          /\ UNCHANGED <<freed, overtaken, cancelling>>
      BY <2>4 DEF TickComplete, Done, RTypeOK
    <3> HIDE DEF r
    <3>3. freed \subseteq Rides /\ overtaken \subseteq Rides
      BY DEF RTypeOK
    <3> QED
      BY <3>1, <3>2, <3>3
  <2> QED
    BY <1>3, <2>1, <2>2, <2>3, <2>4 DEF Tick, TickStep
<1>4. ASSUME NEW Rs \in SUBSET Rides, NEW Cs \in SUBSET Cancels,
             NEW Ts \in SUBSET Ticks, Stop(Rs, Cs, Ts)
      PROVE  FreedBeforeOver'
  BY <1>4 DEF Stop, NoCancel, NoTick
<1>5. CASE UNCHANGED vars
  BY <1>5 DEF vars
<1> QED
  BY <1>1, <1>2, <1>3, <1>4, <1>5, StepCases

\* A ride is freed before it is over, by the handler that ends it.
THEOREM RidesFreeTheirDriver == Spec => []FreedBeforeOver
<1>1. Init => FreedBeforeOver
  BY DEF Init, FreedBeforeOver, NoRow, NoCancel, NoTick, Final
<1>2. RTypeOK /\ FreedBeforeOver /\ [Next]_vars => FreedBeforeOver'
  BY FreedStep
<1> QED
  BY <1>1, <1>2, RTypeCorrect, PTL DEF Spec

\* A ride that serves its driver goes on doing so until it frees the driver.
LEMMA ServingStays ==
    ASSUME RTypeOK, FreedBeforeOver, [Next]_vars, NEW r \in Rides, NEW d \in Drivers,
           r \in Serving(d), r \notin freed'
    PROVE  (r \in Serving(d))'
<1> USE RidesAssumption DEF Serving, activeRides, Active
<1>0. r \notin freed /\ ride[r].status \in ACTIVE_STATUSES /\ driverOf[r] = d /\ ride[r] # NoRow
  BY DEF NoRow, ACTIVE_STATUSES
<1>1. ASSUME NEW q \in Rides, Request(q), ~RequestFails(q)
      PROVE  (r \in Serving(d))'
  BY <1>0, <1>1 DEF Request, RequestCheck, PickDriver, NoDriverLeft, InsertRide,
                    MarkBusy, RTypeOK
<1>2. ASSUME NEW c \in Cancels, Cancel(c), ~CancelFails(c)
      PROVE  (r \in Serving(d))'
  BY <1>0, <1>2 DEF Cancel, CancelLoad, CancelFree, CancelSave, RTypeOK, FreedBeforeOver
<1>3. ASSUME NEW t \in Ticks, Tick(t), ~TickFails(t)
      PROVE  (r \in Serving(d))'
  <2>1. ASSUME NEW q \in Rides, TickMove(t, q)
        PROVE  (r \in Serving(d))'
    BY <1>0, <2>1, SteppedRow DEF TickMove, RTypeOK
  <2>2. CASE TickComplete(t)
    BY <1>0, <2>2 DEF TickComplete, RTypeOK, FreedBeforeOver
  <2> QED
    BY <1>0, <1>3, <2>1, <2>2 DEF Tick, TickLoad, TickStep, TickFree
<1>4. ASSUME NEW Rs \in SUBSET Rides, NEW Cs \in SUBSET Cancels,
             NEW Ts \in SUBSET Ticks, Stop(Rs, Cs, Ts)
      PROVE  (r \in Serving(d))'
  BY <1>0, <1>4 DEF Stop
<1>5. CASE UNCHANGED vars
  BY <1>0, <1>5 DEF vars
<1> QED
  BY <1>1, <1>2, <1>3, <1>4, <1>5, StepCases

\* Only freeDriver() puts a ride into freed, and it makes its driver available;
\* only MarkBusy takes a driver, for a ride that has been inserted.
LEMMA AvailableStep ==
    ASSUME RTypeOK, [Next]_vars
    PROVE  /\ overtaken \subseteq overtaken' /\ freed \subseteq freed'
           /\ \A r \in Rides : ride[r] # NoRow => driverOf'[r] = driverOf[r]
           /\ \A r \in freed' \ freed : available'[driverOf[r]]
           /\ \A d \in Drivers : available[d] /\ ~available'[d] =>
                 \E r \in Rides : MarkBusy(r) /\ driverOf[r] = d
<1> USE RidesAssumption DEF RTypeOK
<1> DEFINE Goal ==
      /\ overtaken \subseteq overtaken' /\ freed \subseteq freed'
      /\ \A r \in Rides : ride[r] # NoRow => driverOf'[r] = driverOf[r]
      /\ \A r \in freed' \ freed : available'[driverOf[r]]
      /\ \A d \in Drivers : available[d] /\ ~available'[d] =>
            \E r \in Rides : MarkBusy(r) /\ driverOf[r] = d
<1>1. ASSUME NEW q \in Rides, Request(q), ~RequestFails(q)
      PROVE  Goal
  <2>1. CASE MarkBusy(q)
    <3>1. \A d \in Drivers : available[d] /\ ~available'[d] => driverOf[q] = d
      BY <2>1 DEF MarkBusy
    <3>2. /\ overtaken \subseteq overtaken' /\ freed' = freed
          /\ driverOf' = driverOf
      BY <2>1 DEF MarkBusy
    <3> QED
      BY <2>1, <3>1, <3>2
  <2>2. CASE ~MarkBusy(q)
    BY <1>1, <2>2 DEF Request, RequestCheck, PickDriver, NoDriverLeft, InsertRide
  <2> QED
    BY <2>1, <2>2
<1>2. ASSUME NEW c \in Cancels, Cancel(c), ~CancelFails(c)
      PROVE  Goal
  BY <1>2 DEF Cancel, CancelLoad, CancelFree, CancelSave, freeDriver
<1>3. ASSUME NEW t \in Ticks, Tick(t), ~TickFails(t)
      PROVE  Goal
  BY <1>3 DEF Tick, TickLoad, TickStep, TickMove, TickFree, TickComplete, freeDriver
<1>4. ASSUME NEW Rs \in SUBSET Rides, NEW Cs \in SUBSET Cancels,
             NEW Ts \in SUBSET Ticks, Stop(Rs, Cs, Ts)
      PROVE  Goal
  BY <1>4 DEF Stop
<1>5. CASE UNCHANGED vars
  BY <1>5 DEF vars
<1> QED
  BY <1>1, <1>2, <1>3, <1>4, <1>5, StepCases

\* Every step preserves BusyDriversServe.
LEMMA BusyStep ==
    RTypeOK /\ FreedBeforeOver /\ BusyDriversServe /\ [Next]_vars => BusyDriversServe'
<1> SUFFICES ASSUME RTypeOK, FreedBeforeOver, BusyDriversServe, [Next]_vars,
                    NEW d \in Drivers, ~available'[d]
             PROVE  \/ (Serving(d) # {})'
                    \/ \E r \in overtaken' : driverOf'[r] = d
  BY DEF BusyDriversServe
<1>1. CASE available[d]
  <2>1. PICK r \in Rides : MarkBusy(r) /\ driverOf[r] = d
    BY <1>1, AvailableStep
  <2>2. CASE r \in freed
    BY <2>1, <2>2 DEF MarkBusy
  <2>3. CASE r \notin freed
    BY <2>1, <2>3 DEF MarkBusy, Serving, activeRides, Active, RTypeOK, FreedBeforeOver,
                      Rows, RideStatus, ACTIVE_STATUSES, Final
  <2> QED
    BY <2>2, <2>3
<1>2. CASE ~available[d]
  <2>1. CASE \E r \in overtaken : driverOf[r] = d
    BY <2>1, AvailableStep DEF FreedBeforeOver, RTypeOK
  <2>2. CASE Serving(d) # {}
    <3>1. PICK r \in Rides : r \in Serving(d)
      BY <2>2 DEF Serving, activeRides
    <3>2. r \notin freed'
      BY <3>1, AvailableStep DEF Serving
    <3> QED
      BY <3>1, <3>2, ServingStays
  <2> QED
    BY <1>2, <2>1, <2>2 DEF BusyDriversServe
<1> QED
  BY <1>1, <1>2

\* No driver is lost: one who is not available serves a ride, or was marked busy
\* for a ride that was over by then.
THEOREM NoDriverLost == Spec => []BusyDriversServe
<1>1. Init => BusyDriversServe
  BY DEF Init, BusyDriversServe
<1>2. RTypeOK /\ FreedBeforeOver /\ BusyDriversServe /\ [Next]_vars
        => BusyDriversServe'
  BY BusyStep
<1> QED
  BY <1>1, <1>2, RTypeCorrect, RidesFreeTheirDriver, PTL DEF Spec

\* A ride gets hold of a driver only by picking the driver: what a stale save
\* writes back has let go of it.
LEMMA HoldsArise ==
    ASSUME RTypeOK, FreedBeforeOver, [Next]_vars
    PROVE  /\ contested \subseteq contested'
           /\ \A r \in Rides, d \in Drivers :
                 Holds(r, d)' => Holds(r, d) \/ PickDriver(r, d)
<1> USE RidesAssumption DEF Holds, Taken, Active
<1> DEFINE Goal ==
      /\ contested \subseteq contested'
      /\ \A r \in Rides, d \in Drivers :
            Holds(r, d)' => Holds(r, d) \/ PickDriver(r, d)
<1>1. ASSUME NEW q \in Rides, Request(q), ~RequestFails(q)
      PROVE  Goal
  <2>1. ASSUME NEW e \in Drivers, PickDriver(q, e)
        PROVE  Goal
    <3>1. \A r \in Rides \ {q}, d \in Drivers : Holds(r, d)' => Holds(r, d)
      BY <2>1 DEF PickDriver, RTypeOK
    <3>2. \A d \in Drivers : Holds(q, d)' => d = e
      BY <2>1 DEF PickDriver, RTypeOK
    <3>3. contested \subseteq contested'
      BY <2>1 DEF PickDriver
    <3> HIDE DEF Holds
    <3> QED
      BY <2>1, <3>1, <3>2, <3>3
  <2>2. CASE \A e \in Drivers : ~PickDriver(q, e)
    BY <1>1, <2>2 DEF Request, RequestCheck, NoDriverLeft, InsertRide, MarkBusy, RTypeOK
  <2> QED
    BY <2>1, <2>2
<1>2. ASSUME NEW c \in Cancels, Cancel(c), ~CancelFails(c)
      PROVE  Goal
  BY <1>2 DEF Cancel, CancelLoad, CancelFree, CancelSave, freeDriver, RTypeOK,
              ACTIVE_STATUSES
<1>3. ASSUME NEW t \in Ticks, Tick(t), ~TickFails(t)
      PROVE  Goal
  <2>1. ASSUME NEW q \in Rides, TickMove(t, q)
        PROVE  Goal
    <3>1. q \in freed \/ Active(q)
      BY <2>1 DEF TickMove, FreedBeforeOver, RTypeOK, Rows, RideStatus, Final,
                  ACTIVE_STATUSES
    <3> QED
      BY <2>1, <3>1 DEF TickMove, RTypeOK
  <2>2. CASE TickComplete(t)
    BY <2>2 DEF TickComplete, RTypeOK, FreedBeforeOver
  <2> QED
    BY <1>3, <2>1, <2>2 DEF Tick, TickLoad, TickStep, TickFree, freeDriver
<1>4. ASSUME NEW Rs \in SUBSET Rides, NEW Cs \in SUBSET Cancels,
             NEW Ts \in SUBSET Ticks, Stop(Rs, Cs, Ts)
      PROVE  Goal
  BY <1>4 DEF Stop
<1>5. CASE UNCHANGED vars
  BY <1>5 DEF vars
<1> QED
  BY <1>1, <1>2, <1>3, <1>4, <1>5, StepCases

\* A driver becomes available only when a ride frees the driver; and a request
\* that has taken a driver gives the driver up only by marking the driver busy,
\* or by failing.
LEMMA TakenStep ==
    ASSUME RTypeOK, FreedBeforeOver, [Next]_vars,
           NEW d \in Drivers, d \notin contested', available'[d]
    PROVE  /\ ~available[d] => \E q \in Rides : Holds(q, d) /\ q \in freed'
           /\ \A r \in Rides : Holds(r, d) /\ Taken(r) /\ Holds(r, d)' => Taken(r)'
<1> USE RidesAssumption DEF Holds, Taken
<1> DEFINE Goal ==
      /\ ~available[d] => \E q \in Rides : Holds(q, d) /\ q \in freed'
      /\ \A r \in Rides : Holds(r, d) /\ Taken(r) /\ Holds(r, d)' => Taken(r)'
<1>1. ASSUME NEW q \in Rides, Request(q), ~RequestFails(q)
      PROVE  Goal
  BY <1>1 DEF Request, RequestCheck, PickDriver, NoDriverLeft, InsertRide, MarkBusy,
              RTypeOK
<1>2. ASSUME NEW q \in Rides, freeDriver(q), requesting' = requesting, ride[q] # NoRow
      PROVE  Goal
  <2>1. ~available[d] => driverOf[q] = d /\ q \notin freed
    BY <1>2 DEF freeDriver, RTypeOK
  <2>2. q \notin freed => Active(q)
    BY <1>2 DEF FreedBeforeOver, Active, RTypeOK, Rows, RideStatus, Final, ACTIVE_STATUSES
  <2> QED
    BY <1>2, <2>1, <2>2 DEF freeDriver
<1>3. ASSUME NEW c \in Cancels, Cancel(c), ~CancelFails(c)
      PROVE  Goal
  <2>1. CASE CancelFree(c)
    BY <1>2, <2>1 DEF CancelFree, RTypeOK
  <2> QED
    BY <1>3, <2>1 DEF Cancel, CancelLoad, CancelSave
<1>4. ASSUME NEW t \in Ticks, Tick(t), ~TickFails(t)
      PROVE  Goal
  <2>1. ASSUME NEW q \in Rides, TickFree(t, q)
        PROVE  Goal
    BY <1>2, <2>1 DEF TickFree, RTypeOK
  <2> QED
    BY <1>4, <2>1 DEF Tick, TickLoad, TickStep, TickMove, TickComplete
<1>5. ASSUME NEW Rs \in SUBSET Rides, NEW Cs \in SUBSET Cancels,
             NEW Ts \in SUBSET Ticks, Stop(Rs, Cs, Ts)
      PROVE  Goal
  BY <1>5 DEF Stop, RTypeOK
<1>6. CASE UNCHANGED vars
  BY <1>6 DEF vars
<1> QED
  BY <1>1, <1>3, <1>4, <1>5, <1>6, StepCases

\* Every step preserves HeldByOne.
LEMMA HeldStep ==
    RTypeOK /\ FreedBeforeOver /\ HeldByOne /\ [Next]_vars => HeldByOne'
<1> SUFFICES ASSUME RTypeOK, FreedBeforeOver, HeldByOne, [Next]_vars,
                    NEW d \in Drivers, d \notin contested'
             PROVE  /\ \A r, s \in Rides : Holds(r, d)' /\ Holds(s, d)' => r = s
                    /\ available'[d] => \A r \in Rides : Holds(r, d)' => Taken(r)'
  BY DEF HeldByOne
<1>0. /\ \A r, s \in Rides : Holds(r, d) /\ Holds(s, d) => r = s
      /\ available[d] => \A r \in Rides : Holds(r, d) => Taken(r)
  BY HoldsArise DEF HeldByOne
<1>1. ASSUME NEW r \in Rides, NEW s \in Rides, r # s, PickDriver(r, d), Holds(s, d)'
      PROVE  FALSE
  <2>1. Holds(s, d) /\ available[d]
    BY <1>1 DEF PickDriver, availableDrivers, Holds, Taken, Active, RTypeOK
  <2>2. Taken(s) /\ driverOf[s] = d
    BY <1>0, <2>1 DEF Holds
  <2> QED
    BY <1>1, <2>2 DEF PickDriver, Taken
<1>2. ASSUME NEW r \in Rides, NEW s \in Rides, Holds(r, d)', Holds(s, d)'
      PROVE  r = s
  BY <1>0, <1>1, <1>2, HoldsArise
<1>3. ASSUME available'[d], NEW r \in Rides, Holds(r, d)'
      PROVE  Taken(r)'
  <2>1. CASE PickDriver(r, d)
    BY <2>1 DEF PickDriver, Taken, RTypeOK
  <2>2. CASE ~PickDriver(r, d) /\ available[d]
    BY <1>0, <1>3, <2>2, HoldsArise, TakenStep
  <2>3. CASE ~PickDriver(r, d) /\ ~available[d]
    <3>1. PICK q \in Rides : Holds(q, d) /\ q \in freed'
      BY <1>3, <2>3, TakenStep
    <3>2. r = q
      BY <1>0, <1>3, <2>3, <3>1, HoldsArise
    <3> QED
      BY <1>3, <3>1, <3>2 DEF Holds
  <2> QED
    BY <2>1, <2>2, <2>3
<1> QED
  BY <1>2, <1>3

\* A driver who was never picked twice at once, freed twice or left available by
\* a lost save is held by one ride.
THEOREM DriversHeldByOne == Spec => []HeldByOne
<1>1. Init => HeldByOne
  BY DEF Init, HeldByOne, Holds, Taken, Active, NoRow, ACTIVE_STATUSES
<1>2. RTypeOK /\ FreedBeforeOver /\ HeldByOne /\ [Next]_vars => HeldByOne'
  BY HeldStep
<1> QED
  BY <1>1, <1>2, RTypeCorrect, RidesFreeTheirDriver, PTL DEF Spec

\* A driver serves one ride at a time, unless confused by one of these.
THEOREM OneRidePerDriver == Spec => []DriverServesOne
<1>1. HeldByOne => DriverServesOne
  BY DEF HeldByOne, DriverServesOne, Holds, Serving, activeRides
<1> QED
  BY <1>1, DriversHeldByOne, PTL

-----------------------------------------------------------------------------
(* The order of the states, with runs of the timer that do not overlap.    *)

\* Every step preserves RowsAreCurrent while runs of the timer do not overlap.
LEMMA CurrentStep ==
    ASSUME \A s, t \in Ticks : s = t
    PROVE  RTypeOK /\ RowsAreCurrent /\ [Next]_vars => RowsAreCurrent'
<1> SUFFICES ASSUME RTypeOK, RowsAreCurrent, [Next]_vars
             PROVE  RowsAreCurrent'
  OBVIOUS
<1> USE RidesAssumption DEF RowsAreCurrent
<1>1. ASSUME NEW q \in Rides, Request(q), ~RequestFails(q)
      PROVE  RowsAreCurrent'
  <2>1. CASE InsertRide(q)
    BY <2>1 DEF InsertRide, RTypeOK
  <2>2. CASE ~InsertRide(q)
    BY <1>1, <2>2 DEF Request, RequestCheck, PickDriver, NoDriverLeft, MarkBusy
  <2> QED
    BY <2>1, <2>2
<1>2. ASSUME NEW c \in Cancels, Cancel(c), ~CancelFails(c)
      PROVE  RowsAreCurrent'
  <2>1. CASE CancelSave(c)
    BY <2>1 DEF CancelSave, RTypeOK
  <2>2. CASE ~CancelSave(c)
    BY <1>2, <2>2 DEF Cancel, CancelLoad, CancelFree
  <2> QED
    BY <2>1, <2>2
<1>3. ASSUME NEW t \in Ticks, Tick(t), ~TickFails(t)
      PROVE  RowsAreCurrent'
  <2>1. CASE TickLoad(t)
    BY <2>1 DEF TickLoad, RTypeOK
  <2>2. ASSUME NEW q \in Rides, Done(t, q), \A r \in Rides \ {q} : ride'[r] = ride[r]
        PROVE  RowsAreCurrent'
    <3>1. /\ ticking'[t].rows[q] = NoRow
          /\ \A r \in Rides \ {q} : ticking'[t].rows[r] = ticking[t].rows[r]
      BY <2>2 DEF Done, RTypeOK
    <3> QED
      BY <2>2, <3>1
  <2>3. ASSUME NEW q \in Rides, TickMove(t, q)
        PROVE  RowsAreCurrent'
    BY <2>2, <2>3 DEF TickMove
  <2>4. ASSUME NEW q \in Rides, TickFree(t, q)
        PROVE  RowsAreCurrent'
    BY <2>4 DEF TickFree, RTypeOK
  <2>5. CASE TickComplete(t)
    <3>1. ticking[t].completing \in Rides
      BY <2>5 DEF TickComplete, RTypeOK
    <3> QED
      BY <2>2, <2>5, <3>1 DEF TickComplete
  <2> QED
    BY <1>3, <2>1, <2>3, <2>4, <2>5 DEF Tick, TickStep
<1>4. ASSUME NEW Rs \in SUBSET Rides, NEW Cs \in SUBSET Cancels,
             NEW Ts \in SUBSET Ticks, Stop(Rs, Cs, Ts)
      PROVE  RowsAreCurrent'
  BY <1>4 DEF Stop, NoTick
<1>5. CASE UNCHANGED vars
  BY <1>5 DEF vars
<1> QED
  BY <1>1, <1>2, <1>3, <1>4, <1>5, StepCases

\* One step of the simulation takes an active ride along an edge of the guide,
\* and a cancelled one along a stale edge.
LEMMA SteppedEdge ==
    ASSUME NEW r \in Rides, NEW row \in Rows, NEW now \in Rows,
           row.status \in ACTIVE_STATUSES, now = row \/ now.status = "CANCELLED",
           Stepped(r, row).status # now.status
    PROVE  <<now.status, Stepped(r, row).status>> \in DesignedEdges \cup StaleEdges
<1>1. /\ row.status = "DRIVER_ASSIGNED" => Stepped(r, row).status \in {"ARRIVING", "IN_PROGRESS"}
      /\ row.status = "ARRIVING" => Stepped(r, row).status \in {"ARRIVING", "IN_PROGRESS"}
      /\ row.status = "IN_PROGRESS" => Stepped(r, row).status \in {"IN_PROGRESS", "COMPLETED"}
  BY DEF Stepped, headingToDropoff
<1>2. row.status \in {"DRIVER_ASSIGNED", "ARRIVING", "IN_PROGRESS"}
  BY DEF ACTIVE_STATUSES
<1>3. now.status \in {row.status, "CANCELLED"}
  OBVIOUS
<1> QED
  BY <1>1, <1>2, <1>3 DEF DesignedEdges, StaleEdges

\* A ride that changes its status goes along an edge.
LEMMA EdgesStep ==
    ASSUME RTypeOK, RowsAreCurrent, [Next]_vars,
           NEW r \in Rides, ride'[r].status # ride[r].status
    PROVE  <<ride[r].status, ride'[r].status>> \in DesignedEdges \cup StaleEdges
<1> USE RidesAssumption
<1> DEFINE Goal == <<ride[r].status, ride'[r].status>> \in DesignedEdges \cup StaleEdges
<1>0. ride[r] \in Rows /\ ride[r].status \in RideStatus
  BY DEF RTypeOK, Rows
<1>1. ASSUME NEW q \in Rides, Request(q), ~RequestFails(q)
      PROVE  Goal
  <2>1. InsertRide(q)
    BY <1>1 DEF Request, RequestCheck, PickDriver, NoDriverLeft, MarkBusy
  <2>2. q = r /\ ride[r].status = "none" /\ ride'[r].status = "DRIVER_ASSIGNED"
    BY <2>1 DEF InsertRide, RTypeOK
  <2> QED
    BY <2>2 DEF DesignedEdges
<1>2. ASSUME NEW c \in Cancels, Cancel(c), ~CancelFails(c)
      PROVE  Goal
  <2>1. CancelSave(c)
    BY <1>2 DEF Cancel, CancelLoad, CancelFree
  <2>2. cancelling[c].ride = r /\ ride'[r].status = "CANCELLED" /\ ride[r].status # "none"
    BY <2>1 DEF CancelSave, RTypeOK
  <2>3. ride[r].status \in ACTIVE_STATUSES \cup {"COMPLETED"}
    BY <1>0, <2>2 DEF RideStatus, ACTIVE_STATUSES
  <2> QED
    BY <2>2, <2>3 DEF DesignedEdges, StaleEdges
<1>3. ASSUME NEW t \in Ticks, Tick(t), ~TickFails(t)
      PROVE  Goal
  <2>1. /\ ride'[r] = Stepped(r, ticking[t].rows[r])
        /\ ticking[t].rows[r] # NoRow
    BY <1>3 DEF Tick, TickLoad, TickStep, TickMove, TickFree, TickComplete, RTypeOK
  <2>2. /\ ticking[t].rows[r] \in Rows
        /\ ticking[t].rows[r].status \in ACTIVE_STATUSES
    BY <2>1 DEF RTypeOK
  <2>3. ride[r] = ticking[t].rows[r] \/ ride[r].status = "CANCELLED"
    BY <2>1 DEF RowsAreCurrent
  <2> QED
    BY <1>0, <2>1, <2>2, <2>3, SteppedEdge
<1>4. ASSUME NEW Rs \in SUBSET Rides, NEW Cs \in SUBSET Cancels,
             NEW Ts \in SUBSET Ticks, Stop(Rs, Cs, Ts)
      PROVE  FALSE
  BY <1>4 DEF Stop
<1>5. CASE UNCHANGED vars
  BY <1>5 DEF vars
<1> QED
  BY <1>1, <1>2, <1>3, <1>4, <1>5, StepCases

\* While no two runs of the timer overlap, what a run has loaded is still the
\* row of the ride, but for a cancellation that was saved in between.
THEOREM RowsStayCurrent ==
    ASSUME \A s, t \in Ticks : s = t
    PROVE  Spec => []RowsAreCurrent
<1>1. Init => RowsAreCurrent
  BY DEF Init, RowsAreCurrent, NoTick
<1>2. RTypeOK /\ RowsAreCurrent /\ [Next]_vars => RowsAreCurrent'
  BY CurrentStep
<1> QED
  BY <1>1, <1>2, RTypeCorrect, PTL DEF Spec

\* While no two runs of the timer overlap, a ride goes through its states in
\* the order of the guide, but for the ways out of CANCELLED and from COMPLETED
\* to it that stale saves add.
THEOREM RidesFollowEdges ==
    ASSUME \A s, t \in Ticks : s = t
    PROVE  Spec => StatusFollowsEdges
<1>1. RTypeOK /\ RowsAreCurrent /\ [Next]_vars =>
         [\A r \in Rides : ride'[r].status # ride[r].status =>
             <<ride[r].status, ride'[r].status>> \in DesignedEdges \cup StaleEdges]_vars
  BY EdgesStep
<1> QED
  BY <1>1, RTypeCorrect, RowsStayCurrent, PTL DEF Spec, StatusFollowsEdges
=============================================================================

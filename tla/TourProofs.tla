----------------------------- MODULE TourProofs -----------------------------
(***************************************************************************)
(* Theorems about TourBookings, for any number of bookings, departures and *)
(* concurrent requests, and about TourPayments: it implements the booking  *)
(* service, so what is proved of TourBookings holds with payments running  *)
(* beside it; and money and booking status agree.                          *)
(***************************************************************************)
EXTENDS TourPayments, FiniteSetTheorems, TLAPS

-----------------------------------------------------------------------------
(* Counting seats.                                                         *)

\* A set of bookings has a finite number of seats.
LEMMA SeatUnitsFinite ==
    ASSUME NEW S \in SUBSET Bookings
    PROVE  IsFiniteSet(SeatUnits(S)) /\ SeatsTaken(S) \in Nat
<1>1. IsFiniteSet(S)
  BY SeatsAssumption, FS_Subset
<1>2. IsFiniteSet(1..MaxSeats)
  BY SeatsAssumption, FS_Interval
<1>3. IsFiniteSet(S \X (1..MaxSeats))
  BY <1>1, <1>2, FS_Product
<1>4. SeatUnits(S) \in SUBSET (S \X (1..MaxSeats))
  BY DEF SeatUnits
<1>5. IsFiniteSet(SeatUnits(S))
  BY <1>3, <1>4, FS_Subset
<1> QED
  BY <1>5, FS_CardinalityType DEF SeatsTaken

\* Fewer bookings hold no more seats.
LEMMA SeatsMonotone ==
    ASSUME NEW T \in SUBSET Bookings, NEW S \in SUBSET T
    PROVE  SeatsTaken(S) <= SeatsTaken(T)
<1>1. SeatUnits(S) \in SUBSET SeatUnits(T)
  BY DEF SeatUnits
<1> QED
  BY <1>1, SeatUnitsFinite, FS_Subset DEF SeatsTaken

\* One booking takes at most the seats it asked for.
LEMMA SeatsOfOne ==
    ASSUME NEW b \in Bookings
    PROVE  SeatsTaken({b}) <= SeatsOf[b]
<1> DEFINE n == SeatsOf[b]
           f == [i \in 1..n |-> <<b, i>>]
<1>1. n \in Nat /\ n <= MaxSeats
  BY SeatsAssumption
<1>2. f \in [1..n -> SeatUnits({b})]
  BY <1>1, SeatsAssumption DEF SeatUnits
<1>3. \A u \in SeatUnits({b}) : \E i \in 1..n : f[i] = u
  <2> SUFFICES ASSUME NEW u \in SeatUnits({b})
               PROVE  \E i \in 1..n : f[i] = u
    OBVIOUS
  <2>1. u = <<b, u[2]>> /\ u[2] \in 1..MaxSeats /\ u[2] <= n
    BY DEF SeatUnits
  <2>2. u[2] \in 1..n
    BY <2>1, <1>1, SeatsAssumption
  <2>3. f[u[2]] = u
    BY <2>1, <2>2
  <2> QED
    BY <2>2, <2>3
<1>4. ExistsSurjection(1..n, SeatUnits({b}))
  BY <1>2, <1>3 DEF ExistsSurjection, Surjection
<1> QED
  BY <1>1, <1>4, FS_SurjCardinalityBound DEF SeatsTaken

\* Adding a booking adds at most the seats it asked for.
LEMMA SeatsAdd ==
    ASSUME NEW S \in SUBSET Bookings, NEW b \in Bookings
    PROVE  SeatsTaken(S \cup {b}) <= SeatsTaken(S) + SeatsOf[b]
<1>1. SeatUnits(S \cup {b}) = SeatUnits(S) \cup SeatUnits({b})
  BY DEF SeatUnits
<1>2. /\ IsFiniteSet(SeatUnits(S)) /\ SeatsTaken(S) \in Nat
      /\ IsFiniteSet(SeatUnits({b})) /\ SeatsTaken({b}) \in Nat
  BY SeatUnitsFinite
<1>3. Cardinality(SeatUnits(S \cup {b})) =
        Cardinality(SeatUnits(S)) + Cardinality(SeatUnits({b}))
          - Cardinality(SeatUnits(S) \cap SeatUnits({b}))
  BY <1>1, <1>2, FS_Union
<1>4. Cardinality(SeatUnits(S) \cap SeatUnits({b})) \in Nat
  BY <1>2, FS_Intersection, FS_CardinalityType
<1>5. SeatsTaken({b}) <= SeatsOf[b] /\ SeatsOf[b] \in Nat
  BY SeatsOfOne, SeatsAssumption
<1> QED
  BY <1>2, <1>3, <1>4, <1>5 DEF SeatsTaken

-----------------------------------------------------------------------------
(* Type correctness.                                                       *)

\* The type invariant holds at the start.
LEMMA InitTyped == Init => TypeOK
  BY HandlersAssumption DEF Init, TypeOK, Statuses, NoCancel, NoConfirm

\* Every step of the service keeps every handler at one of its steps.
LEMMA StepTyped == TypeOK /\ [Next]_vars => TypeOK'
<1> SUFFICES ASSUME TypeOK, [Next]_vars
             PROVE  TypeOK'
  OBVIOUS
<1> USE HandlersAssumption DEF Statuses
<1>1. ASSUME NEW b \in Bookings, Create(b)
      PROVE  TypeOK'
  BY <1>1 DEF TypeOK, Create, GrantSeats, InsertBooking, LoseReference
<1>2. ASSUME NEW c \in Cancels, Cancel(c)
      PROVE  TypeOK'
  <2>1. ASSUME NEW b \in Bookings, CancelLoad(c, b)
        PROVE  TypeOK'
    BY <2>1 DEF TypeOK, CancelLoad
  <2>2. CASE CancelLock(c)
    BY <2>2 DEF TypeOK, CancelLock
  <2>3. CASE CancelTooLate(c)
    BY <2>3 DEF TypeOK, CancelTooLate, NoCancel
  <2>4. CASE CancelCommit(c)
    BY <2>4 DEF TypeOK, CancelCommit
  <2>5. CASE EmitCancelled(c)
    BY <2>5 DEF TypeOK, EmitCancelled, NoCancel
  <2> QED
    BY <1>2, <2>1, <2>2, <2>3, <2>4, <2>5 DEF Cancel
<1>3. ASSUME NEW w \in Settlements, ConfirmPaid(w)
      PROVE  TypeOK'
  <2>1. ASSUME NEW b \in Bookings, ConfirmLoad(w, b)
        PROVE  TypeOK'
    BY <2>1 DEF TypeOK, ConfirmLoad, Inserted
  <2>2. CASE ConfirmCommit(w)
    BY <2>2 DEF TypeOK, ConfirmCommit, NoConfirm
  <2> QED
    BY <1>3, <2>1, <2>2 DEF ConfirmPaid
<1>4. CASE Sweep
  <2>1. CASE ExpireLoad
    BY <2>1 DEF TypeOK, ExpireLoad, findExpiredPending
  <2>2. CASE ExpireCommit
    BY <2>2 DEF TypeOK, ExpireCommit
  <2>3. CASE CompleteLoad
    BY <2>3 DEF TypeOK, CompleteLoad, findConfirmedForDepartures
  <2>4. CASE CompleteCommit
    BY <2>4 DEF TypeOK, CompleteCommit
  <2> QED
    BY <1>4, <2>1, <2>2, <2>3, <2>4 DEF Sweep
<1>5. CASE Clock
  BY <1>5 DEF TypeOK, Clock, HoldLapses, WindowCloses, Departs
<1>6. CASE Crash
  BY <1>6 DEF TypeOK, Crash, NoCancel, NoConfirm
<1>7. CASE UNCHANGED vars
  BY <1>7 DEF TypeOK, vars
<1> QED
  BY <1>1, <1>2, <1>3, <1>4, <1>5, <1>6, <1>7 DEF Next

\* Handlers and rows are always well formed (TypeOK).
THEOREM TypeCorrect == Spec => []TypeOK
  BY InitTyped, StepTyped, PTL DEF Spec

-----------------------------------------------------------------------------
(* Seats. Every step but the grant leaves the bookings that hold or are    *)
(* about to hold seats as they are, or takes some away.                    *)

Claims(d) == (LiveOn(d) \ revived) \cup Granted(d)

\* No seat is granted at the start.
LEMMA InitReserved == Init => SeatsReserved
<1> SUFFICES ASSUME Init, NEW d \in Departures
             PROVE  SeatsTaken(Claims(d)) <= Capacity[d] /\ Granted(d) = {}
  BY DEF SeatsReserved, Claims
<1>1. Claims(d) = {} /\ Granted(d) = {}
  BY DEF Init, Claims, LiveOn, Live, Granted, On
<1>2. SeatUnits({}) = {}
  BY DEF SeatUnits
<1>3. SeatsTaken({}) = 0
  BY <1>2, FS_EmptySet DEF SeatsTaken
<1>4. Capacity[d] \in Nat
  BY SeatsAssumption
<1> QED
  BY <1>1, <1>3, <1>4

\* A step that adds no claim and no grant keeps the seats reserved.
LEMMA FewerClaims ==
    ASSUME TypeOK, SeatsReserved,
           \A d \in Departures : /\ Claims(d)' \subseteq Claims(d)
                                 /\ Granted(d)' \subseteq Granted(d)
    PROVE  SeatsReserved'
<1> SUFFICES ASSUME NEW d \in Departures
             PROVE  /\ SeatsTaken(Claims(d)') <= Capacity[d]
                    /\ \A a, b \in Granted(d)' : a = b
  BY DEF SeatsReserved, Claims, SeatsTaken, SeatUnits
<1>1. Claims(d) \in SUBSET Bookings
  BY DEF Claims, LiveOn, Granted, On
<1>2. SeatsTaken(Claims(d)') <= SeatsTaken(Claims(d))
  BY <1>1, SeatsMonotone
<1>3. SeatsTaken(Claims(d)) \in Nat /\ SeatsTaken(Claims(d)') \in Nat
  BY <1>1, SeatUnitsFinite
<1> QED
  BY <1>2, <1>3, SeatsAssumption DEF SeatsReserved, Claims

\* A grant adds one claim that fits, and it is the only grant.
LEMMA GrantFits ==
    ASSUME TypeOK, SeatsReserved, NEW b \in Bookings, GrantSeats(b)
    PROVE  SeatsReserved'
<1> SUFFICES ASSUME NEW d \in Departures
             PROVE  /\ SeatsTaken(Claims(d)') <= Capacity[d]
                    /\ \A x, y \in Granted(d)' : x = y
  BY DEF SeatsReserved, Claims, SeatsTaken, SeatUnits
<1>1. CASE d # DepartureOf[b]
  <2>1. Claims(d)' = Claims(d) /\ Granted(d)' = Granted(d)
    BY <1>1 DEF GrantSeats, Claims, LiveOn, Granted, On, TypeOK
  <2> QED
    BY <2>1 DEF SeatsReserved, Claims
<1>2. CASE d = DepartureOf[b]
  <2>1. Granted(d) = {}
    BY <1>2 DEF GrantSeats, DepartureLockFree
  <2>2. Granted(d)' = {b}
    BY <1>2, <2>1 DEF GrantSeats, Granted, On, TypeOK
  <2>3. Claims(d)' \in SUBSET (LiveOn(d) \cup {b})
    BY <2>2 DEF Claims, LiveOn, On, GrantSeats
  <2>4. LiveOn(d) \in SUBSET Bookings /\ LiveOn(d) \cup {b} \in SUBSET Bookings
    BY DEF LiveOn, On
  <2>5. SeatsTaken(Claims(d)') <= SeatsTaken(LiveOn(d) \cup {b})
    BY <2>3, <2>4, SeatsMonotone
  <2>6. SeatsTaken(LiveOn(d) \cup {b}) <= SeatsTaken(LiveOn(d)) + SeatsOf[b]
    BY <2>4, SeatsAdd
  <2>7. SeatsTaken(LiveOn(d)) + SeatsOf[b] <= Capacity[d]
    BY <1>2 DEF GrantSeats, seatsConsumed
  <2>8. /\ SeatsTaken(Claims(d)') \in Nat
        /\ SeatsTaken(LiveOn(d) \cup {b}) \in Nat
        /\ SeatsTaken(LiveOn(d)) \in Nat
    BY <2>3, <2>4, SeatUnitsFinite
  <2> QED
    BY <2>2, <2>5, <2>6, <2>7, <2>8, SeatsAssumption
<1> QED
  BY <1>1, <1>2

\* No step of the service reserves seats that are not there.
LEMMA StepReserved == TypeOK /\ SeatsReserved /\ [Next]_vars => SeatsReserved'
<1> SUFFICES ASSUME TypeOK, SeatsReserved, [Next]_vars
             PROVE  SeatsReserved'
  OBVIOUS
<1> DEFINE Fewer == \A d \in Departures : /\ Claims(d)' \subseteq Claims(d)
                                          /\ Granted(d)' \subseteq Granted(d)
<1> USE DEF Claims, LiveOn, Live, Granted, On
<1>1. ASSUME NEW b \in Bookings, Create(b)
      PROVE  Fewer \/ GrantSeats(b)
  BY <1>1 DEF TypeOK, Create, InsertBooking, LoseReference
<1>2. ASSUME NEW c \in Cancels, Cancel(c)
      PROVE  Fewer
  <2>1. CASE CancelCommit(c)
    BY <2>1 DEF TypeOK, CancelCommit
  <2>2. CASE ~CancelCommit(c)
    BY <1>2, <2>2 DEF Cancel, CancelLoad, CancelLock, CancelTooLate, EmitCancelled
  <2> QED
    BY <2>1, <2>2
<1>3. ASSUME NEW w \in Settlements, ConfirmPaid(w)
      PROVE  Fewer
  BY <1>3 DEF TypeOK, ConfirmPaid, ConfirmLoad, ConfirmCommit
<1>4. ASSUME Sweep
      PROVE  Fewer
  BY <1>4 DEF TypeOK, Sweep, ExpireLoad, ExpireCommit, CompleteLoad, CompleteCommit
<1>5. ASSUME Clock
      PROVE  Fewer
  BY <1>5 DEF Clock, HoldLapses, WindowCloses, Departs
<1>6. ASSUME Crash
      PROVE  Fewer
  BY <1>6 DEF Crash
<1>7. ASSUME UNCHANGED vars
      PROVE  Fewer
  BY <1>7 DEF vars
<1>8. Fewer => SeatsReserved'
  BY FewerClaims
<1>9. ASSUME NEW b \in Bookings, GrantSeats(b)
      PROVE  SeatsReserved'
  BY <1>9, GrantFits
<1> HIDE DEF Fewer
<1> QED
  BY <1>1, <1>2, <1>3, <1>4, <1>5, <1>6, <1>7, <1>8, <1>9 DEF Next

\* Granted and held seats never exceed a departure's capacity (SeatsReserved).
THEOREM SeatsStayReserved == Spec => []SeatsReserved
  BY InitReserved, StepReserved, TypeCorrect, PTL DEF Spec

\* The live bookings of a departure fit its capacity, revived ones aside
\* (SeatsWithinCapacity).
THEOREM CapacityRespected == Spec => []SeatsWithinCapacity
<1>1. SeatsReserved => SeatsWithinCapacity
  <2> SUFFICES ASSUME SeatsReserved, NEW d \in Departures
               PROVE  SeatsTaken(LiveOn(d) \ revived) <= Capacity[d]
    BY DEF SeatsWithinCapacity
  <2>1. /\ Claims(d) \in SUBSET Bookings
        /\ LiveOn(d) \ revived \in SUBSET Claims(d)
        /\ LiveOn(d) \ revived \in SUBSET Bookings
    BY DEF Claims, LiveOn, Granted, On
  <2>2. SeatsTaken(LiveOn(d) \ revived) <= SeatsTaken(Claims(d))
    BY <2>1, SeatsMonotone
  <2>3. SeatsTaken(LiveOn(d) \ revived) \in Nat /\ SeatsTaken(Claims(d)) \in Nat
    BY <2>1, SeatUnitsFinite
  <2> QED
    BY <2>2, <2>3, SeatsAssumption DEF SeatsReserved, Claims
<1> QED
  BY <1>1, SeatsStayReserved, PTL

-----------------------------------------------------------------------------
(* Awards. The steps that write a status are looked at one by one.         *)

\* No point is awarded at the start.
LEMMA InitSettled == Init => AwardsSettled
  BY DEF Init, AwardsSettled, NoCancel, NoConfirm

\* No step lets a settlement confirm a booking that has earned its points.
LEMMA StepSettled == TypeOK /\ AwardsSettled /\ [Next]_vars => AwardsSettled'
<1> SUFFICES ASSUME TypeOK, AwardsSettled, [Next]_vars
             PROVE  AwardsSettled'
  OBVIOUS
<1> USE HandlersAssumption DEF TypeOK, AwardsSettled, Statuses
<1>1. ASSUME NEW b \in Bookings, Create(b)
      PROVE  AwardsSettled'
  <2>1. CASE GrantSeats(b)
    BY <2>1 DEF GrantSeats
  <2>2. CASE InsertBooking(b)
    BY <2>2 DEF InsertBooking
  <2>3. CASE LoseReference(b)
    BY <2>3 DEF LoseReference
  <2> QED
    BY <1>1, <2>1, <2>2, <2>3 DEF Create
<1>2. ASSUME NEW c \in Cancels, Cancel(c)
      PROVE  AwardsSettled'
  <2>1. ASSUME NEW b \in Bookings, CancelLoad(c, b)
        PROVE  AwardsSettled'
    BY <2>1 DEF CancelLoad, Live
  <2>2. CASE CancelLock(c)
    BY <2>2 DEF CancelLock
  <2>3. CASE CancelTooLate(c)
    BY <2>3 DEF CancelTooLate, NoCancel
  <2>4. CASE CancelCommit(c)
    BY <2>4 DEF CancelCommit
  <2>5. CASE EmitCancelled(c)
    BY <2>5 DEF EmitCancelled, NoCancel
  <2> QED
    BY <1>2, <2>1, <2>2, <2>3, <2>4, <2>5 DEF Cancel
<1>3. ASSUME NEW w \in Settlements, ConfirmPaid(w)
      PROVE  AwardsSettled'
  <2>1. ASSUME NEW b \in Bookings, ConfirmLoad(w, b)
        PROVE  AwardsSettled'
    BY <2>1 DEF ConfirmLoad, Inserted, PaymentRowFree
  <2>2. CASE ConfirmCommit(w)
    BY <2>2 DEF ConfirmCommit, NoConfirm
  <2> QED
    BY <1>3, <2>1, <2>2 DEF ConfirmPaid
<1>4. CASE Sweep
  <2>1. CASE ExpireLoad
    BY <2>1 DEF ExpireLoad, findExpiredPending
  <2>2. CASE ExpireCommit
    BY <2>2 DEF ExpireCommit
  <2>3. CASE CompleteLoad
    BY <2>3 DEF CompleteLoad, findConfirmedForDepartures
  <2>4. CASE CompleteCommit
    BY <2>4 DEF CompleteCommit
  <2> QED
    BY <1>4, <2>1, <2>2, <2>3, <2>4 DEF Sweep
<1>5. CASE Clock
  BY <1>5 DEF Clock, HoldLapses, WindowCloses, Departs
<1>6. CASE Crash
  BY <1>6 DEF Crash, NoCancel, NoConfirm
<1>7. CASE UNCHANGED vars
  BY <1>7 DEF vars
<1> QED
  BY <1>1, <1>2, <1>3, <1>4, <1>5, <1>6, <1>7 DEF Next

\* The reason awards are not repeated holds throughout (AwardsSettled).
THEOREM AwardsStaySettled == Spec => []AwardsSettled
  BY InitSettled, StepSettled, TypeCorrect, PTL DEF Spec

\* No booking earns its loyalty points twice (AwardedOnce).
THEOREM PointsAwardedOnce == Spec => []AwardedOnce
<1>1. AwardsSettled => AwardedOnce
  BY DEF AwardsSettled, AwardedOnce
<1> QED
  BY <1>1, AwardsStaySettled, PTL

-----------------------------------------------------------------------------
(* The service implements the seat ledger: an insert reserves the seats,   *)
(* every other step keeps Holding or takes bookings out of it.             *)

\* An insert reserves the seats that were granted, a step of the ledger.
LEMMA InsertReserves ==
    ASSUME TypeOK, SeatsReserved, NEW b \in Bookings, InsertBooking(b)
    PROVE  [Ledger!Next]_Holding
<1>1. Holding' = Holding \/ (b \notin Holding /\ Holding' = Holding \cup {b})
  BY DEF InsertBooking, Holding, Live, TypeOK
<1> DEFINE d == DepartureOf[b]
           S == (Holding \cap On(d)) \cup {b}
<1>2. Claims(d) \in SUBSET Bookings /\ d \in Departures
  BY SeatsAssumption DEF Claims, LiveOn, Granted, On
<1>3. S \in SUBSET Claims(d) /\ S \in SUBSET Bookings
  BY <1>2 DEF InsertBooking, Claims, LiveOn, Granted, On, Holding
<1>4. SeatsTaken(Claims(d)) <= Capacity[d]
  BY <1>2 DEF SeatsReserved, Claims
<1>5. SeatsTaken(S) <= SeatsTaken(Claims(d))
  BY <1>2, <1>3, SeatsMonotone
<1>6. /\ SeatsTaken(S) \in Nat /\ SeatsTaken(Claims(d)) \in Nat
      /\ Capacity[d] \in Nat
  BY <1>2, <1>3, SeatUnitsFinite, SeatsAssumption
<1>7. SeatsTaken(S) <= Capacity[d]
  BY <1>4, <1>5, <1>6
<1>8. ASSUME b \notin Holding, Holding' = Holding \cup {b}
      PROVE  Ledger!Reserve(b)
  BY <1>7, <1>8 DEF Ledger!Reserve
<1> QED
  BY <1>1, <1>8 DEF Ledger!Next

\* Giving seats back is a ledger step.
LEMMA ShrinkReleases ==
    ASSUME Holding' \subseteq Holding
    PROVE  Ledger!Next
<1>1. \E S \in SUBSET Holding : Holding' = Holding \ S
  <2>1. Holding' = Holding \ (Holding \ Holding')
    OBVIOUS
  <2> QED
    BY <2>1
<1> QED
  BY <1>1 DEF Ledger!Next, Ledger!Release

\* Every step of the service is a ledger step or leaves the ledger alone.
LEMMA StepOfLedger == TypeOK /\ SeatsReserved /\ [Next]_vars => [Ledger!Next]_Holding
<1> SUFFICES ASSUME TypeOK, SeatsReserved, [Next]_vars
             PROVE  [Ledger!Next]_Holding
  OBVIOUS
<1> USE DEF Holding, Live
<1>1. ASSUME NEW b \in Bookings, Create(b)
      PROVE  Holding' \subseteq Holding \/ InsertBooking(b)
  BY <1>1 DEF Create, GrantSeats, LoseReference
<1>2. ASSUME NEW c \in Cancels, Cancel(c)
      PROVE  Holding' \subseteq Holding
  <2>1. CASE CancelCommit(c)
    BY <2>1 DEF TypeOK, CancelCommit
  <2>2. CASE ~CancelCommit(c)
    BY <1>2, <2>2 DEF Cancel, CancelLoad, CancelLock, CancelTooLate, EmitCancelled
  <2> QED
    BY <2>1, <2>2
<1>3. ASSUME NEW w \in Settlements, ConfirmPaid(w)
      PROVE  Holding' \subseteq Holding
  BY <1>3 DEF TypeOK, ConfirmPaid, ConfirmLoad, ConfirmCommit
<1>4. ASSUME Sweep
      PROVE  Holding' \subseteq Holding
  BY <1>4 DEF TypeOK, Sweep, ExpireLoad, ExpireCommit, CompleteLoad, CompleteCommit
<1>5. ASSUME Clock \/ Crash \/ UNCHANGED vars
      PROVE  Holding' \subseteq Holding
  BY <1>5 DEF Clock, HoldLapses, WindowCloses, Departs, Crash, vars
<1>6. ASSUME NEW b \in Bookings, InsertBooking(b)
      PROVE  [Ledger!Next]_Holding
  BY <1>6, InsertReserves
<1> HIDE DEF Holding
<1> QED
  BY <1>1, <1>2, <1>3, <1>4, <1>5, <1>6, ShrinkReleases DEF Next

\* The booking service implements the abstract seat ledger (RefinesLedger).
THEOREM ImplementsLedger == Spec => RefinesLedger
<1>1. Init => Ledger!Init
  BY DEF Init, Ledger!Init, Holding, Live
<1> QED
  BY <1>1, StepOfLedger, TypeCorrect, SeatsStayReserved, PTL
     DEF Spec, RefinesLedger, Ledger!Spec

-----------------------------------------------------------------------------
(* The lifecycle: the edges a booking can take are those of the design and *)
(* the three that stale loads add, and no others.                          *)

CodedEdges == DesignedEdges \cup StaleEdges

Follows == \A b \in Bookings : status'[b] # status[b] =>
               <<status[b], status'[b]>> \in CodedEdges

\* Every step goes along the edges of the lifecycle.
LEMMA StepFollows == TypeOK /\ AwardsSettled /\ [Next]_vars => Follows
<1> SUFFICES ASSUME TypeOK, AwardsSettled, [Next]_vars
             PROVE  Follows
  OBVIOUS
<1> USE HandlersAssumption
    DEF Follows, CodedEdges, DesignedEdges, StaleEdges, TypeOK, AwardsSettled, Statuses
<1>1. ASSUME NEW b \in Bookings, Create(b)
      PROVE  Follows
  BY <1>1 DEF Create, GrantSeats, InsertBooking, LoseReference
<1>2. ASSUME NEW c \in Cancels, Cancel(c)
      PROVE  Follows
  <2>1. CASE CancelCommit(c)
    BY <2>1 DEF CancelCommit
  <2>2. CASE ~CancelCommit(c)
    BY <1>2, <2>2 DEF Cancel, CancelLoad, CancelLock, CancelTooLate, EmitCancelled
  <2> QED
    BY <2>1, <2>2
<1>3. ASSUME NEW w \in Settlements, ConfirmPaid(w)
      PROVE  Follows
  BY <1>3 DEF ConfirmPaid, ConfirmLoad, ConfirmCommit
<1>4. CASE Sweep
  BY <1>4 DEF Sweep, ExpireLoad, ExpireCommit, CompleteLoad, CompleteCommit
<1>5. CASE Clock \/ Crash \/ UNCHANGED vars
  BY <1>5 DEF Clock, HoldLapses, WindowCloses, Departs, Crash, vars
<1> QED
  BY <1>1, <1>2, <1>3, <1>4, <1>5 DEF Next

\* However requests and sweeps interleave, a booking moves only along the
\* coded edges (RefinesLifecycle).
THEOREM ImplementsLifecycle == Spec => RefinesLifecycle
<1>1. Init => Lifecycle!Init
  BY DEF Init, Lifecycle!Init
<1>2. TypeOK' /\ Follows => Lifecycle!Step
  BY DEF TypeOK, Follows, CodedEdges, Lifecycle!Step, Lifecycle!Statuses, Statuses
<1> QED
  BY <1>1, <1>2, StepTyped, StepFollows, TypeCorrect, AwardsStaySettled, PTL
     DEF Spec, RefinesLifecycle, Lifecycle!Spec

-----------------------------------------------------------------------------
(* Payments implement bookings.                                            *)

\* A step of the composition is a step of the booking service or leaves the
\* bookings alone.
LEMMA StepOfBookings == PTypeOK /\ [PNext]_allvars => [Next]_vars
<1> SUFFICES ASSUME PTypeOK, [PNext]_allvars
             PROVE  [Next]_vars
  OBVIOUS
<1>1. CASE BookingStep
  BY <1>1 DEF BookingStep, CancelRequest, Cancel, Next
<1>2. ASSUME NEW b \in Bookings, Initiate(b) \/ Charge(b)
      PROVE  UNCHANGED vars
  BY <1>2 DEF Initiate, InitiateCheck, InitiateOpen, InitiateDuplicate,
              InitiateSave, Charge
<1>3. ASSUME NEW w \in Settlements, Settle(w)
      PROVE  [Next]_vars
  <2>1. CASE SettleBegin(w)
    <3>1. settling[w].booking \in Bookings
      BY <2>1, HandlersAssumption DEF SettleBegin, PTypeOK, Handler
    <3> QED
      BY <2>1, <3>1 DEF SettleBegin, ConfirmPaid, Next
  <2>2. CASE SettleCommit(w)
    BY <2>2 DEF SettleCommit, ConfirmPaid, Next
  <2> QED
    BY <1>3, <2>1, <2>2 DEF Settle, HandleWebhook, VerifyLoad, VerifyAnswer
<1>4. ASSUME NEW c \in Cancels, HonourCancel(c) \/ StartRefund(c) \/ Refund(c)
      PROVE  [Next]_vars
  BY <1>4 DEF HonourCancel, StartRefund, Refund, RefundLoad, RefundAccepted,
              RefundRejected, RefundSave, Cancel, Next
<1>5. CASE Restart
  BY <1>5 DEF Restart, Next
<1>6. CASE UNCHANGED allvars
  BY <1>6 DEF allvars
<1> QED
  BY <1>1, <1>2, <1>3, <1>4, <1>5, <1>6 DEF PNext

\* The type invariant with payments holds at the start.
LEMMA PInitTyped == PInit => PTypeOK
<1>1. PInit => TypeOK
  BY InitTyped DEF PInit
<1> QED
  BY <1>1 DEF PInit, Init, PTypeOK, Handler, NoSettle, NoRefund, NoConfirm

\* Every step keeps the handlers of payments well formed, and a settlement in
\* its transaction exactly while confirmPaid() works for it.
LEMMA PStepTyped == PTypeOK /\ [PNext]_allvars => PTypeOK'
<1> SUFFICES ASSUME PTypeOK, [PNext]_allvars
             PROVE  PTypeOK'
  OBVIOUS
<1>0. TypeOK /\ TypeOK'
  BY StepOfBookings, StepTyped DEF PTypeOK
<1> USE HandlersAssumption DEF PTypeOK, Handler
<1>1. CASE BookingStep
  <2>1. UNCHANGED confirming
    BY <1>1 DEF BookingStep, Create, GrantSeats, InsertBooking, LoseReference,
                CancelRequest, CancelLoad, CancelLock, CancelTooLate,
                Sweep, ExpireLoad, ExpireCommit, CompleteLoad, CompleteCommit,
                Clock, HoldLapses, WindowCloses, Departs
  <2> QED
    BY <1>0, <1>1, <2>1 DEF BookingStep, pvars
<1>2. ASSUME NEW b \in Bookings, Initiate(b) \/ Charge(b)
      PROVE  PTypeOK'
  BY <1>0, <1>2 DEF Initiate, InitiateCheck, InitiateOpen, InitiateDuplicate,
                    InitiateSave, Charge, vars
<1>3. ASSUME NEW w \in Settlements, Settle(w)
      PROVE  PTypeOK'
  <2>1. ASSUME NEW b \in Bookings, HandleWebhook(w, b) \/ VerifyLoad(w, b)
        PROVE  PTypeOK'
    <3>1. CASE HandleWebhook(w, b)
      BY <1>0, <2>1, <3>1 DEF HandleWebhook, Unsettled, NoSettle, vars
    <3>2. CASE VerifyLoad(w, b)
      BY <1>0, <2>1, <3>2 DEF VerifyLoad, Unsettled, NoSettle, vars
    <3> QED
      BY <2>1, <3>1, <3>2
  <2>2. CASE VerifyAnswer(w)
    BY <1>0, <2>2 DEF VerifyAnswer, NoSettle, vars
  <2>3. CASE SettleBegin(w)
    BY <1>0, <2>3 DEF SettleBegin, ConfirmLoad, TypeOK
  <2>4. CASE SettleCommit(w)
    BY <1>0, <2>4 DEF SettleCommit, ConfirmCommit, NoSettle, NoConfirm, TypeOK
  <2> QED
    BY <1>3, <2>1, <2>2, <2>3, <2>4 DEF Settle
<1>4. ASSUME NEW c \in Cancels, HonourCancel(c) \/ StartRefund(c) \/ Refund(c)
      PROVE  PTypeOK'
  <2>1. CASE HonourCancel(c)
    BY <1>0, <2>1 DEF HonourCancel, CancelCommit, TypeOK
  <2>2. CASE StartRefund(c)
    BY <1>0, <2>2 DEF StartRefund, EmitCancelled, TypeOK
  <2>3. CASE Refund(c)
    BY <1>0, <2>3 DEF Refund, RefundLoad, RefundAccepted, RefundRejected,
                      RefundSave, NoRefund, vars
  <2> QED
    BY <1>4, <2>1, <2>2, <2>3
<1>5. CASE Restart
  BY <1>0, <1>5 DEF Restart, Crash, NoSettle, NoRefund, NoConfirm
<1>6. CASE UNCHANGED allvars
  BY <1>0, <1>6 DEF allvars, vars, pvars
<1> QED
  BY <1>1, <1>2, <1>3, <1>4, <1>5, <1>6 DEF PNext

\* Payments, requests and listeners are always well formed (PTypeOK).
THEOREM PTypeCorrect == PSpec => []PTypeOK
  BY PInitTyped, PStepTyped, PTL DEF PSpec

\* The service with payments implements the booking service.
THEOREM ImplementsBookings == PSpec => Spec
<1>1. PInit => Init
  BY DEF PInit
<1> QED
  BY <1>1, StepOfBookings, PTypeCorrect, PTL DEF PSpec, Spec

\* With payments running, live bookings fit and points are awarded once.
COROLLARY BookingSafety == PSpec => [](SeatsWithinCapacity /\ AwardedOnce)
  BY ImplementsBookings, CapacityRespected, PointsAwardedOnce, PTL

-----------------------------------------------------------------------------
(* Money taken. The status of a booking is written by the booking service  *)
(* and its payment by this one; PaymentsTracked ties the two together.     *)

\* No payment is settled at the start.
LEMMA InitTracked == PInit => PaymentsTracked
  BY DEF PInit, Init, PaymentsTracked, NoSettle, NoRefund

\* No step confirms or completes a booking that is not paid for.
LEMMA StepTracked == PTypeOK /\ PaymentsTracked /\ [PNext]_allvars => PaymentsTracked'
<1> SUFFICES ASSUME PTypeOK, PaymentsTracked, [PNext]_allvars
             PROVE  PaymentsTracked'
  OBVIOUS
<1> USE HandlersAssumption DEF PTypeOK, TypeOK, Handler, PaymentsTracked, Statuses
<1>1. CASE BookingStep
  <2>1. UNCHANGED pvars
    BY <1>1 DEF BookingStep
  <2>2. ASSUME NEW b \in Bookings, Create(b)
        PROVE  PaymentsTracked'
    BY <2>1, <2>2 DEF pvars, Create, GrantSeats, InsertBooking, LoseReference
  <2>3. ASSUME NEW c \in Cancels, CancelRequest(c)
        PROVE  PaymentsTracked'
    BY <2>1, <2>3 DEF pvars, CancelRequest, CancelLoad, CancelLock, CancelTooLate
  <2>4. CASE Sweep
    BY <2>1, <2>4 DEF pvars, Sweep, ExpireLoad, ExpireCommit, CompleteLoad,
                      CompleteCommit, findConfirmedForDepartures
  <2>5. CASE Clock
    BY <2>1, <2>5 DEF pvars, Clock, HoldLapses, WindowCloses, Departs
  <2> QED
    BY <1>1, <2>2, <2>3, <2>4, <2>5 DEF BookingStep
<1>2. ASSUME NEW b \in Bookings, Initiate(b) \/ Charge(b)
      PROVE  PaymentsTracked'
  BY <1>2 DEF Initiate, InitiateCheck, InitiateOpen, InitiateDuplicate,
              InitiateSave, Charge, vars
<1>3. ASSUME NEW w \in Settlements, Settle(w)
      PROVE  PaymentsTracked'
  <2>1. ASSUME NEW b \in Bookings, HandleWebhook(w, b) \/ VerifyLoad(w, b)
        PROVE  PaymentsTracked'
    <3>1. UNCHANGED <<status, completing, payment, initiating, refunding, opened, charged>>
      BY <2>1 DEF HandleWebhook, VerifyLoad, vars
    <3>2. CASE HandleWebhook(w, b)
      BY <2>1, <3>1, <3>2 DEF HandleWebhook
    <3>3. CASE VerifyLoad(w, b)
      BY <2>1, <3>1, <3>3 DEF VerifyLoad
    <3> QED
      BY <2>1, <3>2, <3>3
  <2>2. CASE VerifyAnswer(w)
    <3>1. UNCHANGED <<status, completing, payment, initiating, opened, charged>>
      BY <2>2 DEF VerifyAnswer, vars
    <3>2. settling[w].step = "asking" /\ settling[w].booking \in Bookings
      BY <2>2 DEF VerifyAnswer
    <3>3. CASE settling[w].booking \in charged
      BY <2>2, <3>1, <3>2, <3>3 DEF VerifyAnswer, Succeeded
    <3>4. CASE settling[w].booking \notin charged
      BY <2>2, <3>1, <3>4 DEF VerifyAnswer, Succeeded, NoSettle
    <3> QED
      BY <3>3, <3>4
  <2>3. CASE SettleBegin(w)
    BY <2>3 DEF SettleBegin, ConfirmLoad
  <2>4. CASE SettleCommit(w)
    BY <2>4 DEF SettleCommit, ConfirmCommit, NoSettle
  <2> QED
    BY <1>3, <2>1, <2>2, <2>3, <2>4 DEF Settle
<1>4. ASSUME NEW c \in Cancels, HonourCancel(c) \/ StartRefund(c) \/ Refund(c)
      PROVE  PaymentsTracked'
  <2>1. CASE HonourCancel(c)
    BY <2>1 DEF HonourCancel, CancelCommit
  <2>2. CASE StartRefund(c)
    BY <2>2 DEF StartRefund, EmitCancelled
  <2>3. CASE Refund(c)
    <3>1. UNCHANGED <<status, completing, initiating, settling, opened, charged>>
      BY <2>3 DEF Refund, RefundLoad, RefundAccepted, RefundRejected,
                  RefundSave, vars
    <3>2. CASE RefundLoad(c)
      BY <3>1, <3>2 DEF RefundLoad, Refundable, NoRefund
    <3>3. CASE RefundAccepted(c)
      BY <3>1, <3>3 DEF RefundAccepted
    <3>4. CASE RefundRejected(c)
      BY <3>1, <3>4 DEF RefundRejected, NoRefund
    <3>5. CASE RefundSave(c)
      BY <3>1, <3>5 DEF RefundSave, NoRefund
    <3> QED
      BY <2>3, <3>2, <3>3, <3>4, <3>5 DEF Refund
  <2> QED
    BY <1>4, <2>1, <2>2, <2>3
<1>5. CASE Restart
  BY <1>5 DEF Restart, Crash, NoSettle, NoRefund
<1>6. CASE UNCHANGED allvars
  BY <1>6 DEF allvars, vars, pvars
<1> QED
  BY <1>1, <1>2, <1>3, <1>4, <1>5, <1>6 DEF PNext

\* A confirmed or completed booking has been charged and its payment settled
\* (ConfirmedOnlyIfPaid).
THEOREM NoFreeTrips == PSpec => []ConfirmedOnlyIfPaid
<1>1. PaymentsTracked => ConfirmedOnlyIfPaid
  BY DEF PaymentsTracked, ConfirmedOnlyIfPaid
<1> QED
  BY <1>1, InitTracked, StepTracked, PTypeCorrect, PTL DEF PSpec

-----------------------------------------------------------------------------
(* Money given back.                                                       *)

\* No refund is made at the start.
LEMMA InitRefunds == PInit => RefundsTracked
  BY DEF PInit, Init, RefundsTracked, NoRefund, NoCancel

\* No step refunds a booking whose cancellation has not committed.
LEMMA StepRefunds == PTypeOK /\ RefundsTracked /\ [PNext]_allvars => RefundsTracked'
<1> SUFFICES ASSUME PTypeOK, RefundsTracked, [PNext]_allvars
             PROVE  RefundsTracked'
  OBVIOUS
<1> USE HandlersAssumption DEF PTypeOK, TypeOK, Handler, RefundsTracked
<1>1. CASE BookingStep
  <2>1. UNCHANGED pvars
    BY <1>1 DEF BookingStep
  <2>2. ASSUME NEW c \in Cancels, CancelRequest(c)
        PROVE  RefundsTracked'
    BY <2>1, <2>2 DEF pvars, CancelRequest, CancelLoad, CancelLock, CancelTooLate,
                      NoCancel
  <2>3. CASE UNCHANGED cancelling
    BY <2>1, <2>3 DEF pvars
  <2> QED
    BY <1>1, <2>2, <2>3 DEF BookingStep, Create, GrantSeats, InsertBooking,
       LoseReference, Sweep, ExpireLoad, ExpireCommit, CompleteLoad,
       CompleteCommit, Clock, HoldLapses, WindowCloses, Departs
<1>2. ASSUME NEW b \in Bookings, Initiate(b) \/ Charge(b)
      PROVE  RefundsTracked'
  BY <1>2 DEF Initiate, InitiateCheck, InitiateOpen, InitiateDuplicate,
              InitiateSave, Charge, vars
<1>3. ASSUME NEW w \in Settlements, Settle(w)
      PROVE  RefundsTracked'
  BY <1>3 DEF Settle, HandleWebhook, VerifyLoad, VerifyAnswer, SettleBegin,
              ConfirmLoad, SettleCommit, ConfirmCommit, vars
<1>4. ASSUME NEW c \in Cancels, HonourCancel(c) \/ StartRefund(c) \/ Refund(c)
      PROVE  RefundsTracked'
  <2>1. CASE HonourCancel(c)
    BY <2>1 DEF HonourCancel, CancelCommit
  <2>2. CASE StartRefund(c)
    BY <2>2 DEF StartRefund, EmitCancelled, NoCancel
  <2>3. CASE Refund(c)
    <3>1. UNCHANGED cancelling
      BY <2>3 DEF Refund, RefundLoad, RefundAccepted, RefundRejected,
                  RefundSave, vars
    <3>2. CASE RefundLoad(c)
      BY <3>1, <3>2 DEF RefundLoad, NoRefund
    <3>3. CASE RefundAccepted(c)
      BY <3>1, <3>3 DEF RefundAccepted
    <3>4. CASE RefundRejected(c)
      BY <3>1, <3>4 DEF RefundRejected, NoRefund
    <3>5. CASE RefundSave(c)
      BY <3>1, <3>5 DEF RefundSave, NoRefund
    <3> QED
      BY <2>3, <3>2, <3>3, <3>4, <3>5 DEF Refund
  <2> QED
    BY <1>4, <2>1, <2>2, <2>3
<1>5. CASE Restart
  BY <1>5 DEF Restart, Crash, NoRefund, NoCancel
<1>6. CASE UNCHANGED allvars
  BY <1>6 DEF allvars, vars, pvars
<1> QED
  BY <1>1, <1>2, <1>3, <1>4, <1>5, <1>6 DEF PNext

\* Money goes back only for a committed cancellation, and a payment is called
\* REFUNDED only if it did (RefundsJustified).
THEOREM NoUnjustifiedRefund == PSpec => []RefundsJustified
<1>1. RefundsTracked => RefundsJustified
  BY DEF RefundsTracked, RefundsJustified
<1> QED
  BY <1>1, InitRefunds, StepRefunds, PTypeCorrect, PTL DEF PSpec
=============================================================================

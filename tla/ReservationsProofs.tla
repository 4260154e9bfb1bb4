-------------------------- MODULE ReservationsProofs --------------------------
(***************************************************************************)
(* Theorems about Reservations, for any stays and tables, any number of    *)
(* cancel requests, settlements and restarts; and about References, which  *)
(* numbers them, for any requests, series and number of attempts, and      *)
(* however many years pass.                                                *)
(***************************************************************************)
EXTENDS Reservations, References, FiniteSetTheorems, TLAPS

-----------------------------------------------------------------------------
(* Type correctness.                                                       *)

\* The type invariant of reservations holds at the start.
LEMMA InitTyped == Init => VTypeOK
  BY ReservationsAssumption DEF Init, VTypeOK, Handler, Statuses, NoSettle, NoHandler

\* Reserving, paying and their payment row.
LEMMA PayTyped ==
    ASSUME VTypeOK, NEW v \in Reservations, Reserve(v) \/ Initiate(v) \/ Charge(v)
    PROVE  VTypeOK'
<1> USE ReservationsAssumption DEF VTypeOK, Handler, Statuses, paystack, history
<1>1. CASE Reserve(v)
  BY <1>1 DEF Reserve
<1>2. CASE Initiate(v)
  BY <1>2 DEF Initiate, InitiateCheck, InitiateOpen, InitiateSave
<1>3. CASE Charge(v)
  BY <1>3 DEF Charge
<1> QED
  BY <1>1, <1>2, <1>3

\* A settlement preserves it.
LEMMA SettleTyped ==
    ASSUME VTypeOK, NEW w \in Settlements, Settle(w)
    PROVE  VTypeOK'
<1> USE ReservationsAssumption DEF VTypeOK, Handler, Statuses, paystack, history
<1>1. ASSUME NEW v \in Reservations, HandleWebhook(w, v)
      PROVE  VTypeOK'
  BY <1>1 DEF HandleWebhook, Unsettled, NoSettle
<1>2. ASSUME NEW v \in Reservations, VerifyLoad(w, v)
      PROVE  VTypeOK'
  BY <1>2 DEF VerifyLoad, Unsettled, NoSettle
<1>3. CASE VerifyAnswer(w)
  BY <1>3 DEF VerifyAnswer, NoSettle
<1>4. CASE SettleBegin(w)
  <2>1. settling[w].of \in Reservations
    BY <1>4 DEF SettleBegin
  <2>2. status[settling[w].of] \in Statuses
    BY <2>1
  <2> DEFINE l == status[settling[w].of]
             r == [settling[w] EXCEPT !.step = "saved", !.loaded = l]
  <2>3. settling' = [settling EXCEPT ![w] = r]
    BY <1>4 DEF SettleBegin
  <2>4. l \in Statuses
    BY <2>2
  <2> HIDE DEF l
  <2>5. /\ r \in [step : {"idle", "asking", "decided", "saved"},
                 of : Reservations \cup {NoReservation}, loaded : Statuses]
        /\ r.step = "saved" /\ r.of = settling[w].of
    <3>1. settling[w] \in [step : {"idle", "asking", "decided", "saved"},
                           of : Reservations \cup {NoReservation}, loaded : Statuses]
      OBVIOUS
    <3> HIDE DEF VTypeOK, Statuses
    <3> QED
      BY <2>4, <3>1
  <2> HIDE DEF r
  <2> QED
    BY <1>4, <2>1, <2>3, <2>5 DEF SettleBegin
<1>5. CASE SettleCommit(w)
  BY <1>5 DEF SettleCommit, NoSettle
<1> QED
  BY <1>1, <1>2, <1>3, <1>4, <1>5 DEF Settle

\* A cancellation and a refund preserve it.
LEMMA CancelTyped ==
    ASSUME VTypeOK, NEW c \in Cancels, Cancel(c) \/ Refund(c)
    PROVE  VTypeOK'
<1> USE ReservationsAssumption DEF VTypeOK, Handler, Statuses, paystack, history
<1>1. ASSUME NEW v \in Reservations, CancelLoad(c, v)
      PROVE  VTypeOK'
  BY <1>1 DEF CancelLoad
<1>2. CASE CancelSave(c)
  BY <1>2 DEF CancelSave
<1>3. CASE StartRefund(c)
  BY <1>3 DEF StartRefund, NoHandler
<1>4. CASE RefundLoad(c)
  BY <1>4 DEF RefundLoad, NoHandler, Refundable
<1>5. CASE RefundCall(c)
  BY <1>5 DEF RefundCall, NoHandler
<1>6. CASE RefundSave(c)
  BY <1>6 DEF RefundSave, NoHandler
<1> QED
  BY <1>1, <1>2, <1>3, <1>4, <1>5, <1>6 DEF Cancel, Refund

\* Every step preserves it.
LEMMA StepTyped == VTypeOK /\ [Next]_vars => VTypeOK'
<1> SUFFICES ASSUME VTypeOK, [Next]_vars
             PROVE  VTypeOK'
  OBVIOUS
<1>1. CASE Crash
  BY <1>1, ReservationsAssumption
     DEF Crash, VTypeOK, Handler, Statuses, NoSettle, NoHandler, paystack, history
<1>2. CASE UNCHANGED vars
  BY <1>2 DEF vars, paystack, history, VTypeOK, Handler, Statuses
<1> QED
  BY <1>1, <1>2, PayTyped, SettleTyped, CancelTyped DEF Next

\* Reservations, payments and handlers are well formed.
THEOREM VTypeCorrect == Spec => []VTypeOK
<1>1. Init => VTypeOK
  BY InitTyped
<1>2. VTypeOK /\ [Next]_vars => VTypeOK'
  BY StepTyped
<1> QED
  BY <1>1, <1>2, PTL DEF Spec

-----------------------------------------------------------------------------
(* The inductive invariant: status and money of a reservation, and what    *)
(* the handlers under way may still write.                                 *)

MoneyInv == SettlementsTracked /\ PaidWhileConfirmed /\ CancelledStays

\* No money has moved at the start.
LEMMA InitMoney == Init => MoneyInv
  BY ReservationsAssumption DEF Init, MoneyInv, SettlementsTracked, PaidWhileConfirmed,
     CancelledStays, NoSettle, NoHandler, Reservations

\* A payment row is inserted once, before anybody can settle it.
LEMMA PayMoney ==
    ASSUME VTypeOK, MoneyInv, NEW v \in Reservations,
           Reserve(v) \/ Initiate(v) \/ Charge(v)
    PROVE  MoneyInv'
<1> USE ReservationsAssumption DEF VTypeOK, Statuses, MoneyInv, SettlementsTracked,
        PaidWhileConfirmed, CancelledStays, Reservations, paystack, history
<1>1. CASE Reserve(v)
  BY <1>1 DEF Reserve
<1>2. CASE InitiateCheck(v)
  BY <1>2 DEF InitiateCheck
<1>3. CASE InitiateOpen(v)
  BY <1>3 DEF InitiateOpen
<1>4. CASE InitiateSave(v)
  BY <1>4 DEF InitiateSave
<1>5. CASE Charge(v)
  BY <1>5 DEF Charge
<1> QED
  BY <1>1, <1>2, <1>3, <1>4, <1>5 DEF Initiate

\* Only a charged reservation is settled, and only one loaded PENDING confirmed.
LEMMA SettleMoney ==
    ASSUME VTypeOK, MoneyInv, NEW w \in Settlements, Settle(w)
    PROVE  MoneyInv'
<1> USE ReservationsAssumption DEF VTypeOK, Statuses, MoneyInv, SettlementsTracked,
        PaidWhileConfirmed, CancelledStays, Reservations, paystack, history
<1>1. ASSUME NEW v \in Reservations, HandleWebhook(w, v)
      PROVE  MoneyInv'
  BY <1>1 DEF HandleWebhook, NoSettle
<1>2. ASSUME NEW v \in Reservations, VerifyLoad(w, v)
      PROVE  MoneyInv'
  BY <1>2 DEF VerifyLoad, NoSettle
<1>3. CASE VerifyAnswer(w)
  BY <1>3 DEF VerifyAnswer, NoSettle, Succeeded
<1>4. CASE SettleBegin(w)
  BY <1>4 DEF SettleBegin
<1>5. CASE SettleCommit(w)
  BY <1>5 DEF SettleCommit, NoSettle, Confirmable
<1> QED
  BY <1>1, <1>2, <1>3, <1>4, <1>5 DEF Settle

\* A cancellation marks what it straddles; a refund follows a cancellation.
LEMMA CancelMoney ==
    ASSUME VTypeOK, MoneyInv, NEW c \in Cancels, Cancel(c) \/ Refund(c)
    PROVE  MoneyInv'
<1> USE ReservationsAssumption DEF VTypeOK, Statuses, Handler, MoneyInv,
        SettlementsTracked, PaidWhileConfirmed, CancelledStays, Reservations,
        paystack, history
<1>1. ASSUME NEW v \in Reservations, CancelLoad(c, v)
      PROVE  MoneyInv'
  BY <1>1 DEF CancelLoad, NoHandler
<1>2. CASE CancelSave(c)
  BY <1>2 DEF CancelSave, Straddles
<1>3. CASE StartRefund(c)
  BY <1>3 DEF StartRefund, NoHandler
<1>4. CASE RefundLoad(c)
  BY <1>4 DEF RefundLoad, NoHandler
<1>5. CASE RefundCall(c)
  BY <1>5 DEF RefundCall, NoHandler
<1>6. CASE RefundSave(c)
  BY <1>6 DEF RefundSave, NoHandler
<1> QED
  BY <1>1, <1>2, <1>3, <1>4, <1>5, <1>6 DEF Cancel, Refund

\* Every step preserves what is known of the money.
LEMMA StepMoney == VTypeOK /\ MoneyInv /\ [Next]_vars => MoneyInv'
<1> SUFFICES ASSUME VTypeOK, MoneyInv, [Next]_vars
             PROVE  MoneyInv'
  OBVIOUS
<1> USE DEF MoneyInv, SettlementsTracked, PaidWhileConfirmed, CancelledStays,
            paystack, history
<1>1. CASE Crash
  BY <1>1, ReservationsAssumption DEF Crash, NoSettle, NoHandler, Reservations
<1>2. CASE UNCHANGED vars
  BY <1>2 DEF vars
<1> QED
  BY <1>1, <1>2, PayMoney, SettleMoney, CancelMoney DEF Next

\* Status and money stay together.
THEOREM MoneyTracked == Spec => []MoneyInv
<1>1. Init => MoneyInv
  BY InitMoney
<1>2. VTypeOK /\ MoneyInv /\ [Next]_vars => MoneyInv'
  BY StepMoney
<1> QED
  BY <1>1, <1>2, VTypeCorrect, PTL DEF Spec

\* A confirmed stay is paid, and keeps its money unless its settlement was
\* straddled by a cancellation.
THEOREM NoFreeStays == Spec => []PaidWhileConfirmed
<1>1. MoneyInv => PaidWhileConfirmed
  BY DEF MoneyInv
<1> QED
  BY <1>1, MoneyTracked, PTL

\* A cancelled reservation stays cancelled unless it straddled a settlement.
THEOREM CancellationIsFinal == Spec => []CancelledStays
<1>1. MoneyInv => CancelledStays
  BY DEF MoneyInv
<1> QED
  BY <1>1, MoneyTracked, PTL

-----------------------------------------------------------------------------
(* Counting rows.                                                          *)

Counted(s, y) == {r \in Of(s) : rows[r].created = y}

\* A count is a number.
LEMMA CountIsNat ==
    ASSUME NEW s, NEW y
    PROVE  IsFiniteSet(Counted(s, y)) /\ countForYear(s, y) \in Nat
<1>1. Counted(s, y) \subseteq Requests /\ IsFiniteSet(Requests)
  BY RequestsAssumption DEF Counted, Of
<1>2. IsFiniteSet(Counted(s, y))
  BY <1>1, FS_Subset
<1> QED
  BY <1>2, FS_CardinalityType DEF Counted, countForYear

\* Rows are only added, and no step but Insert adds one.
LEMMA RowsKept ==
    ASSUME RefTypeOK, [RefNext]_refVars
    PROVE  /\ \A r \in Requests : Inserted(r) => rows'[r] = rows[r]
           /\ \A r \in Requests : Inserted(r)' => Inserted(r) \/ Insert(r)
           /\ UNCHANGED rows \/ \E r \in Requests : Insert(r)
<1>1. ASSUME NEW q \in Requests, Insert(q)
      PROVE  /\ ~Inserted(q)
             /\ \A r \in Requests : r # q => rows'[r] = rows[r]
  BY <1>1 DEF Insert, RefTypeOK
<1>2. UNCHANGED rows \/ \E q \in Requests : Insert(q)
  BY DEF RefNext, Create, Open, Begin, Count, Collide, Abort, NewYear, refVars
<1> QED
  BY <1>1, <1>2 DEF Inserted

\* So counts only grow, and a series out of step stays so.
LEMMA CountsGrow ==
    ASSUME RefTypeOK, [RefNext]_refVars, NEW s, NEW y
    PROVE  /\ countForYear(s, y) <= countForYear(s, y)'
           /\ countForYear(s, y)' \in Nat
           /\ InStep(s)' => InStep(s)
<1>1. \A r \in Of(s) : r \in Of(s)' /\ rows'[r] = rows[r]
  BY RowsKept DEF Of, Inserted
<1>2. Counted(s, y) \subseteq Counted(s, y)'
  BY <1>1 DEF Counted
<1>3. Counted(s, y)' \subseteq Requests /\ IsFiniteSet(Requests)
  BY RequestsAssumption DEF Counted, Of
<1>4. IsFiniteSet(Counted(s, y)')
  BY <1>3, FS_Subset
<1>5. Cardinality(Counted(s, y)) <= Cardinality(Counted(s, y)')
  BY <1>2, <1>4, FS_Subset
<1>6. Cardinality(Counted(s, y)') \in Nat
  BY <1>4, FS_CardinalityType
<1>7. InStep(s)' => InStep(s)
  BY <1>1 DEF InStep
<1> QED
  BY <1>5, <1>6, <1>7 DEF Counted, countForYear

-----------------------------------------------------------------------------
(* Type correctness.                                                       *)

Records == [step : Steps, year : Years, created : Years, seq : Nat, tries : Nat]

\* A step of a request that keeps rows and the clock.
LEMMA MovedTyped ==
    ASSUME RefTypeOK, NEW r \in Requests, NEW v \in Records,
           request' = [request EXCEPT ![r] = v],
           base' \in [Requests -> Nat], UNCHANGED <<clock, rows>>,
           ~Inserted(r) \/ v.step \in {"idle", "failed"},
           v.tries \in 0..Attempts(SeriesOf[r]),
           v.step \in {"opened", "begun", "counted"} => v.tries < Attempts(SeriesOf[r]),
           v.step = "idle" => v = Idle,
           v.step = "counted" => v.seq > 0,
           v.step = "failed" => v.tries = Attempts(SeriesOf[r])
    PROVE  RefTypeOK'
<1>1. /\ request' \in [Requests -> Records] /\ request'[r] = v
      /\ \A q \in Requests \ {r} : request'[q] = request[q]
  BY DEF RefTypeOK, Records
<1>2. \A q : Inserted(q)' <=> Inserted(q)
  BY DEF Inserted
<1> QED
  BY <1>1, <1>2 DEF RefTypeOK, Records

\* The steps of a create preserve the type invariant of references.
LEMMA CreateTyped ==
    ASSUME RefTypeOK, NEW r \in Requests, Create(r)
    PROVE  RefTypeOK'
<1>0. /\ request[r] \in Records /\ clock \in Years /\ base \in [Requests -> Nat]
      /\ Attempts(SeriesOf[r]) \in Nat \ {0}
      /\ request[r].tries \in 0..Attempts(SeriesOf[r])
  BY RequestsAssumption DEF RefTypeOK, Records, Attempts
<1>1. CASE Open(r)
  <2> DEFINE v == [Idle EXCEPT !.step = "opened", !.year = clock]
  <2>0. Idle \in Records /\ Idle.tries = 0
    BY <1>0, RequestsAssumption DEF Idle, Records, Steps, Years
  <2>1. v \in Records /\ v.step = "opened" /\ v.tries = 0
    BY <1>0, <2>0 DEF Records, Steps
  <2>2. request' = [request EXCEPT ![r] = v] /\ ~Inserted(r) /\ UNCHANGED <<clock, rows, base>>
    BY <1>1 DEF Open
  <2> HIDE DEF v
  <2>3. v.tries \in 0..Attempts(SeriesOf[r]) /\ v.tries < Attempts(SeriesOf[r])
    BY <1>0, <2>1
  <2> QED
    BY <1>0, <2>1, <2>2, <2>3, MovedTyped
<1>2. CASE Begin(r)
  <2> DEFINE v == [request[r] EXCEPT !.step = "begun", !.created = clock]
  <2>1. v \in Records /\ v.step = "begun" /\ v.tries = request[r].tries
    BY <1>0 DEF Records, Steps, Years
  <2>2. request' = [request EXCEPT ![r] = v] /\ UNCHANGED <<clock, rows, base>>
    BY <1>2 DEF Begin
  <2>3. ~Inserted(r) /\ request[r].tries < Attempts(SeriesOf[r])
    BY <1>0, <1>2 DEF Begin, RefTypeOK, Idle
  <2> HIDE DEF v
  <2> QED
    BY <1>0, <2>1, <2>2, <2>3, MovedTyped
<1>3. CASE Count(r)
  <2> DEFINE y == IF SeriesOf[r] \in Tours THEN clock ELSE request[r].year
             n == countForYear(SeriesOf[r], y)
             v == [request[r] EXCEPT !.step = "counted", !.year = y, !.seq = n + 1]
  <2>1. n \in Nat /\ y \in Years
    BY <1>0, CountIsNat DEF Records
  <2>2. /\ request' = [request EXCEPT ![r] = v] /\ request[r].step = "begun"
        /\ base' \in [Requests -> Nat] /\ UNCHANGED <<clock, rows>>
    BY <1>0, <1>3, <2>1 DEF Count
  <2>3. ~Inserted(r) /\ request[r].tries < Attempts(SeriesOf[r])
    BY <2>2 DEF RefTypeOK
  <2>4. n + 1 \in Nat /\ n + 1 > 0
    BY <2>1
  <2> HIDE DEF n, y
  <2>5. v \in Records /\ v.step = "counted" /\ v.seq > 0 /\ v.tries = request[r].tries
    BY <1>0, <2>1, <2>4 DEF Records, Steps
  <2> HIDE DEF v
  <2> QED
    BY <1>0, <2>2, <2>3, <2>5, MovedTyped
<1>4. CASE Insert(r)
  <2>1. request[r].seq \in Nat \ {0}
    BY <1>0, <1>4 DEF Insert, RefTypeOK
  <2>2. Idle \in Records /\ Idle.tries = 0
    BY <1>0, RequestsAssumption DEF Idle, Records, Steps, Years
  <2> QED
    BY <1>0, <1>4, <2>1, <2>2 DEF Insert, RefTypeOK, Records, Inserted, NoRow, Idle
<1>5. CASE Collide(r)
  <2> DEFINE k == request[r].tries + 1
             e == IF k < Attempts(SeriesOf[r]) THEN "opened" ELSE "failed"
             v == [request[r] EXCEPT !.step = e, !.tries = k]
  <2>1. /\ request' = [request EXCEPT ![r] = v] /\ request[r].step = "counted"
        /\ UNCHANGED <<clock, rows, base>>
    BY <1>5 DEF Collide
  <2>2. ~Inserted(r) /\ k \in Nat /\ k <= Attempts(SeriesOf[r])
    BY <1>0, <2>1 DEF RefTypeOK
  <2>3. e \in {"opened", "failed"} /\ (e = "opened" <=> k < Attempts(SeriesOf[r]))
    OBVIOUS
  <2> HIDE DEF k, e
  <2>4. v \in Records /\ v.step = e /\ v.tries = k
    BY <1>0, <2>2, <2>3 DEF Records, Steps
  <2> HIDE DEF v
  <2>5. /\ v.tries \in 0..Attempts(SeriesOf[r])
        /\ v.step = "opened" => v.tries < Attempts(SeriesOf[r])
        /\ v.step = "failed" => v.tries = Attempts(SeriesOf[r])
        /\ v.step \in {"opened", "failed"}
    BY <1>0, <2>2, <2>3, <2>4
  <2> QED
    BY <1>0, <2>1, <2>2, <2>4, <2>5, MovedTyped
<1>6. CASE Abort(r)
  <2>1. Idle \in Records /\ Idle.step = "idle" /\ Idle.tries = 0
    BY <1>0, RequestsAssumption DEF Idle, Records, Steps, Years
  <2>2. /\ request' = [request EXCEPT ![r] = Idle]
        /\ UNCHANGED <<clock, rows, base>>
    BY <1>6 DEF Abort
  <2>3. Idle.tries \in 0..Attempts(SeriesOf[r])
    BY <1>0, <2>1
  <2> QED
    BY <1>0, <2>1, <2>2, <2>3, MovedTyped
<1> QED
  BY <1>1, <1>2, <1>3, <1>4, <1>5, <1>6 DEF Create

\* Requests and rows are well formed.
THEOREM RefTypeCorrect == RefSpec => []RefTypeOK
<1>1. RefInit => RefTypeOK
  BY RequestsAssumption DEF RefInit, RefTypeOK, Years, Steps, Idle, Attempts, Inserted, NoRow
<1>2. RefTypeOK /\ [RefNext]_refVars => RefTypeOK'
  <2> SUFFICES ASSUME RefTypeOK, [RefNext]_refVars
               PROVE  RefTypeOK'
    OBVIOUS
  <2>1. CASE NewYear
    BY <2>1, RequestsAssumption DEF NewYear, RefTypeOK, Years, Inserted
  <2>2. CASE UNCHANGED refVars
    BY <2>2 DEF refVars, RefTypeOK, Inserted
  <2> QED
    BY <2>1, <2>2, CreateTyped DEF RefNext
<1> QED
  BY <1>1, <1>2, PTL DEF RefSpec

-----------------------------------------------------------------------------
(* The inductive invariant: numbers without gap, and requests whose number *)
(* follows the count.                                                      *)

NumbersInv == NumbersWithoutGap /\ NumbersFollowCounts

\* A row that does not straddle New Year takes the number after the last.
LEMMA InsertFillsNext ==
    ASSUME RefTypeOK, NumbersInv, NEW r \in Requests, Insert(r)
    PROVE  NumbersWithoutGap'
<1> DEFINE q == request[r].seq
           z == request[r].year
<1> SUFFICES ASSUME NEW s \in Series, NEW y \in Years, InStep(s)'
             PROVE  {rows'[x].seq : x \in Labelled(s, y)'} = 1..countForYear(s, y)'
  BY DEF NumbersWithoutGap
<1>1. /\ InStep(s)
      /\ {rows[x].seq : x \in Labelled(s, y)} = 1..countForYear(s, y)
      /\ countForYear(s, y) \in Nat
  BY CountsGrow, CountIsNat DEF NumbersInv, NumbersWithoutGap, RefNext, Create
<1>2. /\ ~Inserted(r) /\ Inserted(r)'
      /\ rows'[r] = [year |-> z, created |-> request[r].created, seq |-> q]
      /\ \A x \in Requests \ {r} : rows'[x] = rows[x]
      /\ q \in Nat \ {0}
  BY DEF Insert, RefTypeOK, Inserted, NoRow
<1>3. \A x \in Requests \ {r} : Inserted(x)' <=> Inserted(x)
  BY <1>2 DEF Inserted
<1>4. CASE SeriesOf[r] # s \/ z # y
  <2>1. SeriesOf[r] = s => request[r].created = z
    BY <1>2 DEF InStep, Of
  <2>2. Labelled(s, y)' = Labelled(s, y) /\ Counted(s, y)' = Counted(s, y)
    BY <1>2, <1>3, <1>4, <2>1 DEF Labelled, Counted, Of
  <2>3. \A x \in Labelled(s, y) : rows'[x] = rows[x]
    BY <1>2 DEF Labelled, Of
  <2> QED
    BY <1>1, <2>2, <2>3 DEF Counted, countForYear
<1>5. CASE SeriesOf[r] = s /\ z = y
  <2>1. request[r].created = y
    BY <1>2, <1>5 DEF InStep, Of
  <2>2. Counted(s, y)' = Counted(s, y) \cup {r} /\ r \notin Counted(s, y)
    BY <1>2, <1>3, <1>5, <2>1 DEF Counted, Of
  <2>3. countForYear(s, y)' = countForYear(s, y) + 1
    <3>1. Cardinality(Counted(s, y) \cup {r}) = Cardinality(Counted(s, y)) + 1
      BY <2>2, CountIsNat, FS_AddElement
    <3> QED
      BY <2>2, <3>1 DEF Counted, countForYear
  <2>4. q = countForYear(s, y) + 1
    <3>1. q <= countForYear(s, y) + 1
      BY <1>5 DEF NumbersInv, NumbersFollowCounts, Insert
    <3>2. q \notin {rows[x].seq : x \in Labelled(s, y)}
      BY <1>5 DEF Insert, Taken, Labelled
    <3> QED
      BY <1>1, <1>2, <3>1, <3>2
  <2>5. Labelled(s, y)' = Labelled(s, y) \cup {r}
    BY <1>2, <1>3, <1>5 DEF Labelled, Of
  <2>6. \A x \in Labelled(s, y) : rows'[x] = rows[x] /\ x # r
    BY <1>2 DEF Labelled, Of
  <2>7. {rows'[x].seq : x \in Labelled(s, y)'} = {rows[x].seq : x \in Labelled(s, y)} \cup {q}
    BY <1>2, <2>5, <2>6
  <2> QED
    BY <1>1, <2>3, <2>4, <2>7
<1> QED
  BY <1>4, <1>5

\* A number that is taken is one of those counted.
LEMMA TakenIsCounted ==
    ASSUME RefTypeOK, NumbersInv, NEW r \in Requests, Collide(r), InStep(SeriesOf[r])
    PROVE  request[r].seq <= countForYear(SeriesOf[r], request[r].year)
<1> DEFINE s == SeriesOf[r]
           y == request[r].year
<1>1. s \in Series /\ y \in Years
  BY RequestsAssumption DEF RefTypeOK
<1>2. {rows[x].seq : x \in Labelled(s, y)} = 1..countForYear(s, y)
  BY <1>1 DEF NumbersInv, NumbersWithoutGap
<1>3. request[r].seq \in {rows[x].seq : x \in Labelled(s, y)}
  BY DEF Collide, Taken, Labelled
<1> QED
  BY <1>2, <1>3, CountIsNat

\* Requests other than r are where they were, and their counts have not shrunk.
LEMMA FollowStep ==
    ASSUME RefTypeOK, NumbersInv, [RefNext]_refVars
    PROVE  NumbersFollowCounts'
<1> DEFINE Follows(r) ==
        LET n == countForYear(SeriesOf[r], request[r].year) IN
        /\ request[r].step = "counted" => request[r].seq <= n + 1
        /\ InStep(SeriesOf[r]) =>
              /\ request[r].step = "counted" => base[r] + request[r].tries < request[r].seq
              /\ request[r].step \in {"opened", "begun"} /\ request[r].tries > 0
                    => base[r] + request[r].tries <= n
              /\ request[r].step = "failed" => base[r] + request[r].tries <= n
<1> SUFFICES ASSUME NEW r \in Requests
             PROVE  Follows(r)'
  BY DEF NumbersFollowCounts
<1>1. Follows(r)
  BY DEF NumbersInv, NumbersFollowCounts
<1>2. \A y : /\ countForYear(SeriesOf[r], y) \in Nat
             /\ countForYear(SeriesOf[r], y)' \in Nat
             /\ countForYear(SeriesOf[r], y) <= countForYear(SeriesOf[r], y)'
  BY CountIsNat, CountsGrow
<1>3. InStep(SeriesOf[r])' => InStep(SeriesOf[r])
  BY CountsGrow
<1>4. /\ request[r].seq \in Nat /\ request[r].tries \in Nat /\ base[r] \in Nat
      /\ request \in [Requests -> [step : Steps, year : Years, created : Years,
                                   seq : Nat, tries : Nat]]
  BY DEF RefTypeOK
<1>5. CASE request'[r] = request[r] /\ base'[r] = base[r]
  BY <1>1, <1>2, <1>3, <1>4, <1>5
<1>6. CASE Open(r) \/ Insert(r) \/ Abort(r)
  <2>1. /\ Idle.step = "idle"
        /\ [Idle EXCEPT !.step = "opened", !.year = clock].step = "opened"
        /\ [Idle EXCEPT !.step = "opened", !.year = clock].tries = 0
    BY DEF Idle
  <2>2. /\ request'[r].step \in {"opened", "idle"}
        /\ request'[r].step = "opened" => request'[r].tries = 0
    BY <1>4, <1>6, <2>1 DEF Open, Insert, Abort
  <2> QED
    BY <2>2
<1>7. CASE Begin(r)
  <2>1. /\ request'[r].step = "begun" /\ base' = base
        /\ request'[r].tries = request[r].tries /\ request'[r].year = request[r].year
        /\ request[r].step = "opened" \/ request[r].step = "idle"
    BY <1>4, <1>7 DEF Begin
  <2>2. request[r].step = "idle" => request[r].tries = 0
    BY DEF RefTypeOK, Idle
  <2> QED
    BY <1>1, <1>2, <1>3, <1>4, <2>1, <2>2
<1>8. CASE Count(r)
  <2> DEFINE y == IF SeriesOf[r] \in Tours THEN clock ELSE request[r].year
             n == countForYear(SeriesOf[r], y)
  <2>1. /\ request[r].step = "begun"
        /\ request'[r].step = "counted" /\ request'[r].year = y
        /\ request'[r].seq = n + 1 /\ request'[r].tries = request[r].tries
        /\ base'[r] = IF request[r].tries = 0 THEN n ELSE base[r]
    BY <1>4, <1>8 DEF Count, RefTypeOK
  <2>2. request[r].tries > 0 => y = request[r].year
    BY <2>1 DEF RefTypeOK, Attempts
  <2> HIDE DEF y
  <2> QED
    BY <1>1, <1>2, <1>3, <1>4, <2>1, <2>2
<1>9. CASE Collide(r)
  <2>1. /\ request'[r].step \in {"opened", "failed"} /\ request[r].step = "counted"
        /\ request'[r].year = request[r].year
        /\ request'[r].tries = request[r].tries + 1
        /\ base' = base
    BY <1>4, <1>9 DEF Collide
  <2>2. InStep(SeriesOf[r]) => request[r].seq <= countForYear(SeriesOf[r], request[r].year)
    BY <1>9, TakenIsCounted
  <2> QED
    BY <1>1, <1>2, <1>3, <1>4, <2>1, <2>2
<1>10. ASSUME NEW q \in Requests, q # r, Create(q)
       PROVE  request'[r] = request[r] /\ base'[r] = base[r]
  BY <1>4, <1>10 DEF Create, Open, Begin, Count, Insert, Collide, Abort, RefTypeOK
<1>11. CASE NewYear \/ UNCHANGED refVars
  BY <1>5, <1>11 DEF NewYear, refVars
<1> QED
  BY <1>5, <1>6, <1>7, <1>8, <1>9, <1>10, <1>11 DEF RefNext, Create

\* Every step leaves the numbers without a gap.
LEMMA GapStep == RefTypeOK /\ NumbersInv /\ [RefNext]_refVars => NumbersWithoutGap'
<1> SUFFICES ASSUME RefTypeOK, NumbersInv, [RefNext]_refVars
             PROVE  NumbersWithoutGap'
  OBVIOUS
<1>1. CASE UNCHANGED rows
  BY <1>1 DEF NumbersInv, NumbersWithoutGap, InStep, Labelled, Of, Inserted, countForYear
<1> QED
  BY <1>1, RowsKept, InsertFillsNext

\* The numbers of a series are dense and requests follow the count.
THEOREM NumbersFollow == RefSpec => []NumbersInv
<1>1. RefInit => NumbersInv
  <2> SUFFICES ASSUME RefInit
               PROVE  NumbersInv
    OBVIOUS
  <2>1. \A s : Of(s) = {}
    BY DEF RefInit, Of, Inserted
  <2>2. \A s, y : countForYear(s, y) = 0 /\ Labelled(s, y) = {}
    BY <2>1, FS_EmptySet DEF countForYear, Labelled
  <2>3. NumbersWithoutGap
    BY <2>2 DEF NumbersWithoutGap
  <2>4. NumbersFollowCounts
    BY DEF RefInit, Idle, NumbersFollowCounts
  <2> QED
    BY <2>3, <2>4 DEF NumbersInv
<1>2. RefTypeOK /\ NumbersInv /\ [RefNext]_refVars => NumbersInv'
  BY GapStep, FollowStep DEF NumbersInv
<1> QED
  BY <1>1, <1>2, RefTypeCorrect, PTL DEF RefSpec

\* The numbers of a year are 1, 2, 3, ... unless a row straddled New Year.
THEOREM NumbersAreDense == RefSpec => []NumbersWithoutGap
<1>1. NumbersInv => NumbersWithoutGap
  BY DEF NumbersInv
<1> QED
  BY <1>1, NumbersFollow, PTL

\* A request fails only if others inserted a row during each of its attempts.
THEOREM FailuresHaveRivals == RefSpec => []FailureNeedsRivals
<1>1. RefTypeOK /\ NumbersInv => FailureNeedsRivals
  BY DEF RefTypeOK, NumbersInv, NumbersFollowCounts, FailureNeedsRivals
<1> QED
  BY <1>1, RefTypeCorrect, NumbersFollow, PTL
=============================================================================

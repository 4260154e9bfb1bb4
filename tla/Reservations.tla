---------------------------- MODULE Reservations ----------------------------
(***************************************************************************)
(* Reservations of stays, flights and tables, and the money for them. A    *)
(* stay or a flight is reserved PENDING and confirmed when its payment     *)
(* settles; a table is free and confirmed at once. Unlike the cancellation *)
(* of a tour booking, that of a reservation takes no lock: it loads the    *)
(* row, saves the whole of it, and then emits BOOKING_CANCELLED.           *)
(*                                                                         *)
(* Paystack is external, as in TourPayments. How a reservation gets its    *)
(* reference is in References.                                             *)
(***************************************************************************)
EXTENDS Integers, FiniteSets

CONSTANTS
    Stays,          \* reservations that have a price: stays and flights
    Tables,         \* reservations that are free
    Cancels,        \* cancel requests
    Settlements,    \* webhook and verify requests
    NoReservation,
    MaxCrashes      \* bound on restarts

Reservations == Stays \cup Tables

ASSUME ReservationsAssumption ==
    /\ Stays \cap Tables = {}
    /\ NoReservation \notin Reservations
    /\ MaxCrashes \in Nat

VARIABLES
    status,         \* "none" before the insert, then the status column
    payment,        \* "none", or the status of the reservation's payment row
    initiating,     \* where the reservation's POST /payments/initiate is
    settling,       \* webhook or verify request -> its step and what it loaded
    cancelling,     \* cancel request -> its step
    refunding,      \* the listener that a cancel request started
    opened,         \* reservations whose reference Paystack has a transaction for
    charged,        \* reservations Paystack took the money for
    refunded,       \* reservations Paystack gave the money back for
    refusing,       \* reservations Paystack will refuse to refund (never changes)
    honoured,       \* history: reservations that a cancel request has saved
    straddled,      \* history: those it saved while a settlement held them PENDING
    crashes

paystack == <<opened, charged, refunded, refusing>>
history == <<honoured, straddled>>
vars == <<status, payment, initiating, settling, cancelling, refunding,
          paystack, history, crashes>>

NoSettle == [step |-> "idle", of |-> NoReservation, loaded |-> "none"]
NoHandler == [step |-> "idle", of |-> NoReservation]

Init ==
    /\ status = [v \in Reservations |-> "none"]
    /\ payment = [v \in Reservations |-> "none"]
    /\ initiating = [v \in Reservations |-> "idle"]
    /\ settling = [w \in Settlements |-> NoSettle]
    /\ cancelling = [c \in Cancels |-> NoHandler]
    /\ refunding = [c \in Cancels |-> NoHandler]
    /\ opened = {} /\ charged = {} /\ refunded = {}
    /\ refusing \in SUBSET Reservations
    /\ honoured = {} /\ straddled = {}
    /\ crashes = 0

-----------------------------------------------------------------------------
\* create(): confirmImmediately for a table.
Reserve(v) ==
    /\ status[v] = "none"
    /\ status' = [status EXCEPT ![v] = IF v \in Tables THEN "CONFIRMED" ELSE "PENDING"]
    /\ UNCHANGED <<payment, initiating, settling, cancelling, refunding,
                   paystack, history, crashes>>

(* initiate(): the check, the call to Paystack, the insert of the payment. *)

InitiateCheck(v) ==
    /\ initiating[v] = "idle"
    /\ status[v] = "PENDING"
    /\ initiating' = [initiating EXCEPT ![v] = "checked"]
    /\ UNCHANGED <<status, payment, settling, cancelling, refunding,
                   paystack, history, crashes>>

\* Paystack refuses a reference that it has a transaction for.
InitiateOpen(v) ==
    /\ initiating[v] = "checked"
    /\ initiating' = [initiating EXCEPT ![v] = IF v \in opened THEN "idle" ELSE "opened"]
    /\ opened' = opened \cup {v}
    /\ UNCHANGED <<status, payment, settling, cancelling, refunding,
                   charged, refunded, refusing, history, crashes>>

InitiateSave(v) ==
    /\ initiating[v] = "opened"
    /\ initiating' = [initiating EXCEPT ![v] = "idle"]
    /\ payment' = [payment EXCEPT ![v] = "PENDING"]
    /\ UNCHANGED <<status, settling, cancelling, refunding, paystack, history, crashes>>

\* The user pays at the authorization URL, which only a saved payment has.
Charge(v) ==
    /\ payment[v] # "none"
    /\ v \notin charged
    /\ charged' = charged \cup {v}
    /\ UNCHANGED <<status, payment, initiating, settling, cancelling, refunding,
                   opened, refunded, refusing, history, crashes>>

-----------------------------------------------------------------------------
(* Settling: handleWebhook() or verify() decides, then the transaction of  *)
(* confirmAndNotify() writes the payment, loads the reservation and        *)
(* confirms it if it was PENDING (confirmPaid()).                          *)

AnyPayment(v) == payment[v] # "PAID"     \* fault: null is not looked for
Unsettled(v) == payment[v] \in {"PENDING", "REFUNDED"}    \* status # PAID

HandleWebhook(w, v) ==
    /\ settling[w] = NoSettle
    /\ v \in charged
    /\ Unsettled(v)
    /\ settling' = [settling EXCEPT ![w] = [@ EXCEPT !.step = "decided", !.of = v]]
    /\ UNCHANGED <<status, payment, initiating, cancelling, refunding,
                   paystack, history, crashes>>

VerifyLoad(w, v) ==
    /\ settling[w] = NoSettle
    /\ Unsettled(v)
    /\ settling' = [settling EXCEPT ![w] = [@ EXCEPT !.step = "asking", !.of = v]]
    /\ UNCHANGED <<status, payment, initiating, cancelling, refunding,
                   paystack, history, crashes>>

AnyAnswer(v) == TRUE            \* fault: Paystack's verdict is not looked at
Succeeded(v) == v \in charged

VerifyAnswer(w) ==
    /\ settling[w].step = "asking"
    /\ settling' = [settling EXCEPT ![w] =
                      IF Succeeded(@.of) THEN [@ EXCEPT !.step = "decided"]
                                         ELSE NoSettle]
    /\ UNCHANGED <<status, payment, initiating, cancelling, refunding,
                   paystack, history, crashes>>

\* No transaction has written the payment row, which the first statement of
\* confirmAndNotify() waits for.
PaymentRowFree(v) ==
    \A w \in Settlements : settling[w].step = "saved" => settling[w].of # v

SettleBegin(w) ==
    LET v == settling[w].of IN
    /\ settling[w].step = "decided"
    /\ PaymentRowFree(v)
    /\ settling' = [settling EXCEPT ![w] =
                      [@ EXCEPT !.step = "saved", !.loaded = status[v]]]
    /\ UNCHANGED <<status, payment, initiating, cancelling, refunding,
                   paystack, history, crashes>>

AnyLoaded(loaded) == TRUE       \* fault: confirmed whatever its status was
Confirmable(loaded) == loaded = "PENDING"

SettleCommit(w) ==
    LET v == settling[w].of IN
    /\ settling[w].step = "saved"
    /\ status' = IF Confirmable(settling[w].loaded)
                   THEN [status EXCEPT ![v] = "CONFIRMED"] ELSE status
    /\ payment' = [payment EXCEPT ![v] = "PAID"]
    /\ settling' = [settling EXCEPT ![w] = NoSettle]
    /\ UNCHANGED <<initiating, cancelling, refunding, paystack, history, crashes>>

-----------------------------------------------------------------------------
(* cancel(), and refundForBooking() as the listener of its event.          *)

CancelLoad(c, v) ==
    /\ cancelling[c] = NoHandler
    /\ status[v] \in {"PENDING", "CONFIRMED"}
    /\ cancelling' = [cancelling EXCEPT ![c] = [step |-> "loaded", of |-> v]]
    /\ UNCHANGED <<status, payment, initiating, settling, refunding,
                   paystack, history, crashes>>

\* A settlement's transaction has loaded v PENDING and will confirm it.
Straddles(v) ==
    \E w \in Settlements : /\ settling[w].step = "saved"
                           /\ settling[w].of = v
                           /\ settling[w].loaded = "PENDING"

CancelSave(c) ==
    LET v == cancelling[c].of IN
    /\ cancelling[c].step = "loaded"
    /\ cancelling' = [cancelling EXCEPT ![c].step = "saved"]
    /\ status' = [status EXCEPT ![v] = "CANCELLED"]
    /\ honoured' = honoured \cup {v}
    /\ straddled' = IF Straddles(v) THEN straddled \cup {v} ELSE straddled
    /\ UNCHANGED <<payment, initiating, settling, refunding, paystack, crashes>>

\* The event starts the listener, detached from the request.
StartRefund(c) ==
    /\ cancelling[c].step = "saved"
    /\ refunding[c] = NoHandler
    /\ cancelling' = [cancelling EXCEPT ![c] = NoHandler]
    /\ refunding' = [refunding EXCEPT ![c] = [step |-> "started", of |-> cancelling[c].of]]
    /\ UNCHANGED <<status, payment, initiating, settling, paystack, history, crashes>>

\* fault: a payment is looked for in the wrong state
AwaitingPayment(v) == payment[v] = "PENDING"
Refundable(v) == payment[v] = "PAID"

RefundLoad(c) ==
    /\ refunding[c].step = "started"
    /\ refunding' = [refunding EXCEPT ![c] =
                       IF Refundable(@.of) THEN [@ EXCEPT !.step = "loaded"] ELSE NoHandler]
    /\ UNCHANGED <<status, payment, initiating, settling, cancelling,
                   paystack, history, crashes>>

\* createRefund() throws when Paystack refuses, and the listener ends.
RefundCall(c) ==
    LET v == refunding[c].of IN
    /\ refunding[c].step = "loaded"
    /\ refunding' = [refunding EXCEPT ![c] =
                       IF v \in refusing THEN NoHandler ELSE [@ EXCEPT !.step = "called"]]
    /\ refunded' = IF v \in refusing THEN refunded ELSE refunded \cup {v}
    /\ UNCHANGED <<status, payment, initiating, settling, cancelling,
                   opened, charged, refusing, history, crashes>>

RefundSave(c) ==
    LET v == refunding[c].of IN
    /\ refunding[c].step = "called"
    /\ PaymentRowFree(v)
    /\ payment' = [payment EXCEPT ![v] = "REFUNDED"]
    /\ refunding' = [refunding EXCEPT ![c] = NoHandler]
    /\ UNCHANGED <<status, initiating, settling, cancelling, paystack, history, crashes>>

-----------------------------------------------------------------------------
\* A restart loses every handler; an open transaction rolls back.
Crash ==
    /\ crashes < MaxCrashes
    /\ crashes' = crashes + 1
    /\ initiating' = [v \in Reservations |-> "idle"]
    /\ settling' = [w \in Settlements |-> NoSettle]
    /\ cancelling' = [c \in Cancels |-> NoHandler]
    /\ refunding' = [c \in Cancels |-> NoHandler]
    /\ UNCHANGED <<status, payment, paystack, history>>

Initiate(v) == InitiateCheck(v) \/ InitiateOpen(v) \/ InitiateSave(v)

Settle(w) ==
    \/ \E v \in Reservations : HandleWebhook(w, v) \/ VerifyLoad(w, v)
    \/ VerifyAnswer(w) \/ SettleBegin(w) \/ SettleCommit(w)

Cancel(c) == (\E v \in Reservations : CancelLoad(c, v)) \/ CancelSave(c) \/ StartRefund(c)

Refund(c) == RefundLoad(c) \/ RefundCall(c) \/ RefundSave(c)

Next ==
    \/ \E v \in Reservations : Reserve(v) \/ Initiate(v) \/ Charge(v)
    \/ \E w \in Settlements : Settle(w)
    \/ \E c \in Cancels : Cancel(c) \/ Refund(c)
    \/ Crash

Spec == Init /\ [][Next]_vars

\* The listener is called and runs to its end, and a transaction that is open
\* commits. Users and Paystack's webhook owe nothing.
Fairness ==
    /\ \A c \in Cancels : WF_vars(StartRefund(c)) /\ WF_vars(Refund(c))
    /\ \A w \in Settlements : WF_vars(SettleCommit(w))

FairSpec == Spec /\ Fairness

-----------------------------------------------------------------------------
(* Type invariant: a handler that works on a payment works on one that     *)
(* exists.                                                                 *)
Handler(steps) == [step : {"idle"} \cup steps, of : Reservations \cup {NoReservation}]
Statuses == {"none", "PENDING", "CONFIRMED", "CANCELLED"}

VTypeOK ==
    /\ status \in [Reservations -> Statuses]
    /\ payment \in [Reservations -> {"none", "PENDING", "PAID", "REFUNDED"}]
    /\ initiating \in [Reservations -> {"idle", "checked", "opened"}]
    /\ settling \in [Settlements ->
          [step : {"idle", "asking", "decided", "saved"},
           of : Reservations \cup {NoReservation}, loaded : Statuses]]
    /\ cancelling \in [Cancels -> Handler({"loaded", "saved"})]
    /\ refunding \in [Cancels -> Handler({"started", "loaded", "called"})]
    /\ opened \subseteq Reservations /\ charged \subseteq Reservations
    /\ refunded \subseteq Reservations /\ refusing \subseteq Reservations
    /\ honoured \subseteq Reservations /\ straddled \subseteq Reservations
    /\ crashes \in 0..MaxCrashes
    /\ \A w \in Settlements :
          /\ settling[w].step = "idle" <=> settling[w].of = NoReservation
          /\ settling[w].step # "idle" => payment[settling[w].of] # "none"
    /\ \A c \in Cancels :
          /\ cancelling[c].step = "idle" <=> cancelling[c].of = NoReservation
          /\ refunding[c].step = "idle" <=> refunding[c].of = NoReservation
          /\ refunding[c].step \in {"loaded", "called"} => payment[refunding[c].of] # "none"

\* A confirmed stay has been paid for. The money is still there, unless a
\* cancellation came into the middle of its settlement (confirmPaid(), cancel(),
\* refundForBooking(): the row says CONFIRMED and the refund is under way).
PaidWhileConfirmed ==
    \A v \in Stays : status[v] = "CONFIRMED" =>
        /\ v \in charged
        /\ \/ payment[v] = "PAID" /\ v \notin refunded
           \/ v \in straddled

\* A reservation whose cancellation was saved stays CANCELLED, whatever is
\* settled, replayed or lost, unless a settlement had loaded it PENDING before.
CancelledStays == \A v \in honoured \ straddled : status[v] = "CANCELLED"

\* Why both hold.
SettlementsTracked ==
    /\ refunded \subseteq honoured
    /\ \A v \in Tables : status[v] # "PENDING" /\ initiating[v] = "idle" /\ payment[v] = "none"
    /\ \A v \in Reservations :
          /\ payment[v] # "none" => v \in opened
          /\ initiating[v] = "opened" => v \in opened /\ payment[v] = "none"
          /\ payment[v] = "REFUNDED" => v \in honoured
    /\ \A w \in Settlements :
          /\ settling[w].step \in {"decided", "saved"} => settling[w].of \in charged
          /\ settling[w].step = "saved" /\ settling[w].loaded = "PENDING" =>
                settling[w].of \notin honoured \ straddled
    /\ \A c \in Cancels :
          /\ cancelling[c].step = "saved" => cancelling[c].of \in honoured
          /\ refunding[c].step # "idle" => refunding[c].of \in honoured

\* The money for a stay that is paid when its cancellation is saved goes back,
\* if the process survives and Paystack does not refuse.
PaidStayRefunded ==
    \A c \in Cancels, v \in Stays :
        (/\ cancelling[c] = [step |-> "saved", of |-> v]
         /\ payment[v] = "PAID"
         /\ v \notin refusing) ~> (v \in refunded \/ crashes > 0)
=============================================================================

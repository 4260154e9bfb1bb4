---------------------------- MODULE TourPayments ----------------------------
(***************************************************************************)
(* PaymentsService on top of TourBookings: paying for a booking through    *)
(* Paystack, settling the charge by webhook or by verify, and refunding a  *)
(* cancelled booking from the BOOKING_CANCELLED listener. Every step of    *)
(* this module is a step of TourBookings or leaves the bookings alone.     *)
(*                                                                         *)
(* Paystack is external: it holds the transactions opened with a booking's *)
(* reference, charges them, calls the webhook any number of times, and     *)
(* accepts or refuses refunds.                                             *)
(***************************************************************************)
EXTENDS TourBookings

VARIABLES
    payment,        \* the booking's payment row: "none" or its status
    initiating,     \* where booking b's POST /payments/initiate is
    settling,       \* webhook or verify request -> its step and payment
    refunding,      \* listener started by cancel request c
    opened,         \* bookings whose reference Paystack has a transaction for
    charged,        \* bookings Paystack took the money for
    refunded,       \* bookings Paystack gave the money back for
    refusing,       \* bookings Paystack will refuse to refund (never changes)
    honoured        \* history: bookings with a committed cancel request

pvars == <<payment, initiating, settling, refunding,
           opened, charged, refunded, refusing, honoured>>

NoSettle == [step |-> "idle", booking |-> NoBooking]
NoRefund == [step |-> "idle", booking |-> NoBooking]

PInit ==
    /\ Init
    /\ payment = [b \in Bookings |-> "none"]
    /\ initiating = [b \in Bookings |-> "idle"]
    /\ settling = [w \in Settlements |-> NoSettle]
    /\ refunding = [c \in Cancels |-> NoRefund]
    /\ opened = {}
    /\ charged = {}
    /\ refunded = {}
    /\ refusing \in SUBSET Bookings
    /\ honoured = {}

-----------------------------------------------------------------------------
(* initiate(): the booking is checked to be PENDING, then Paystack is      *)
(* called, then the payment row is inserted.                               *)

InitiateCheck(b) ==
    /\ initiating[b] = "idle"
    /\ status[b] = "PENDING"
    /\ initiating' = [initiating EXCEPT ![b] = "checked"]
    /\ UNCHANGED <<vars, payment, settling, refunding,
                   opened, charged, refunded, refusing, honoured>>

InitiateOpen(b) ==
    /\ initiating[b] = "checked"
    /\ b \notin opened
    /\ initiating' = [initiating EXCEPT ![b] = "opened"]
    /\ opened' = opened \cup {b}
    /\ UNCHANGED <<vars, payment, settling, refunding,
                   charged, refunded, refusing, honoured>>

\* Paystack refuses a reference it has a transaction for.
InitiateDuplicate(b) ==
    /\ initiating[b] = "checked"
    /\ b \in opened
    /\ initiating' = [initiating EXCEPT ![b] = "idle"]
    /\ UNCHANGED <<vars, payment, settling, refunding,
                   opened, charged, refunded, refusing, honoured>>

InitiateSave(b) ==
    /\ initiating[b] = "opened"
    /\ initiating' = [initiating EXCEPT ![b] = "idle"]
    /\ payment' = [payment EXCEPT ![b] = "PENDING"]
    /\ UNCHANGED <<vars, settling, refunding, opened, charged, refunded, refusing, honoured>>

\* The tourist pays at the authorization URL, which only a saved payment has.
Charge(b) ==
    /\ payment[b] # "none"
    /\ b \notin charged
    /\ charged' = charged \cup {b}
    /\ UNCHANGED <<vars, payment, initiating, settling, refunding,
                   opened, refunded, refusing, honoured>>

-----------------------------------------------------------------------------
(* Settling: handleWebhook() and verify() load the payment, decide, and    *)
(* run confirmAndNotify()'s transaction.                                   *)

AnyPayment(b) == payment[b] # "PAID"     \* fault: null is not looked for
Unsettled(b) == payment[b] \in {"PENDING", "REFUNDED"}    \* status # PAID

HandleWebhook(w, b) ==
    /\ settling[w] = NoSettle
    /\ b \in charged
    /\ Unsettled(b)
    /\ settling' = [settling EXCEPT ![w] = [step |-> "decided", booking |-> b]]
    /\ UNCHANGED <<vars, payment, initiating, refunding,
                   opened, charged, refunded, refusing, honoured>>

VerifyLoad(w, b) ==
    /\ settling[w] = NoSettle
    /\ Unsettled(b)
    /\ settling' = [settling EXCEPT ![w] = [step |-> "asking", booking |-> b]]
    /\ UNCHANGED <<vars, payment, initiating, refunding,
                   opened, charged, refunded, refusing, honoured>>

AnyAnswer(b) == TRUE            \* fault: Paystack's verdict is not looked at
Succeeded(b) == b \in charged

VerifyAnswer(w) ==
    LET b == settling[w].booking IN
    /\ settling[w].step = "asking"
    /\ settling' = [settling EXCEPT ![w] =
                      IF Succeeded(b) THEN [@ EXCEPT !.step = "decided"]
                                      ELSE NoSettle]
    /\ UNCHANGED <<vars, payment, initiating, refunding,
                   opened, charged, refunded, refusing, honoured>>

\* The transaction writes the payment row (others wait for it from here on)
\* and loads the booking.
SettleBegin(w) ==
    /\ settling[w].step = "decided"
    /\ ConfirmLoad(w, settling[w].booking)
    /\ settling' = [settling EXCEPT ![w].step = "saved"]
    /\ UNCHANGED <<payment, initiating, refunding,
                   opened, charged, refunded, refusing, honoured>>

SettleCommit(w) ==
    /\ settling[w].step = "saved"
    /\ ConfirmCommit(w)
    /\ payment' = [payment EXCEPT ![settling[w].booking] = "PAID"]
    /\ settling' = [settling EXCEPT ![w] = NoSettle]
    /\ UNCHANGED <<initiating, refunding, opened, charged, refunded, refusing, honoured>>

-----------------------------------------------------------------------------
(* Cancelling, with refundForBooking() as the listener. It runs detached   *)
(* from the request, in no transaction, and what it throws is dropped.     *)

HonourCancel(c) ==
    /\ CancelCommit(c)
    /\ honoured' = honoured \cup {cancelling[c].booking}
    /\ UNCHANGED <<payment, initiating, settling, refunding,
                   opened, charged, refunded, refusing>>

\* fault: the event leaves inside the transaction
StartRefundInTransaction(c) ==
    /\ refunding[c] = NoRefund
    /\ cancelling[c].step = "locked"
    /\ refunding' = [refunding EXCEPT ![c] =
                       [step |-> "started", booking |-> cancelling[c].booking]]
    /\ UNCHANGED <<vars, payment, initiating, settling,
                   opened, charged, refunded, refusing, honoured>>

StartRefund(c) ==
    /\ refunding[c] = NoRefund
    /\ EmitCancelled(c)
    /\ refunding' = [refunding EXCEPT ![c] =
                       [step |-> "started", booking |-> cancelling[c].booking]]
    /\ UNCHANGED <<payment, initiating, settling,
                   opened, charged, refunded, refusing, honoured>>

\* fault: a payment is looked for in the wrong state
AwaitingPayment(b) == payment[b] = "PENDING"
Refundable(b) == payment[b] = "PAID"

RefundLoad(c) ==
    /\ refunding[c].step = "started"
    /\ refunding' = [refunding EXCEPT ![c] =
                       IF Refundable(@.booking) THEN [@ EXCEPT !.step = "loaded"]
                                                ELSE NoRefund]
    /\ UNCHANGED <<vars, payment, initiating, settling,
                   opened, charged, refunded, refusing, honoured>>

RefundAccepted(c) ==
    /\ refunding[c].step = "loaded"
    /\ refunding[c].booking \notin refusing
    /\ refunding' = [refunding EXCEPT ![c].step = "called"]
    /\ refunded' = refunded \cup {refunding[c].booking}
    /\ UNCHANGED <<vars, payment, initiating, settling,
                   opened, charged, refusing, honoured>>

RefundRejected(c) ==
    /\ refunding[c].step = "loaded"
    /\ refunding[c].booking \in refusing
    /\ refunding' = [refunding EXCEPT ![c] = NoRefund]
    /\ UNCHANGED <<vars, payment, initiating, settling,
                   opened, charged, refunded, refusing, honoured>>

RefundSave(c) ==
    LET b == refunding[c].booking IN
    /\ refunding[c].step = "called"
    /\ PaymentRowFree(b)
    /\ payment' = [payment EXCEPT ![b] = "REFUNDED"]
    /\ refunding' = [refunding EXCEPT ![c] = NoRefund]
    /\ UNCHANGED <<vars, initiating, settling, opened, charged, refunded, refusing, honoured>>

-----------------------------------------------------------------------------
\* Steps of the booking service that payments have no part in.
CancelRequest(c) ==
    (\E b \in Bookings : CancelLoad(c, b)) \/ CancelLock(c) \/ CancelTooLate(c)

BookingStep ==
    /\ \/ \E b \in Bookings : Create(b)
       \/ \E c \in Cancels : CancelRequest(c)
       \/ Sweep
       \/ Clock
    /\ UNCHANGED pvars

Restart ==
    /\ Crash
    /\ initiating' = [b \in Bookings |-> "idle"]
    /\ settling' = [w \in Settlements |-> NoSettle]
    /\ refunding' = [c \in Cancels |-> NoRefund]
    /\ UNCHANGED <<payment, opened, charged, refunded, refusing, honoured>>

Initiate(b) == InitiateCheck(b) \/ InitiateOpen(b) \/ InitiateDuplicate(b)
                 \/ InitiateSave(b)

Settle(w) ==
    \/ \E b \in Bookings : HandleWebhook(w, b) \/ VerifyLoad(w, b)
    \/ VerifyAnswer(w) \/ SettleBegin(w) \/ SettleCommit(w)

Refund(c) == RefundLoad(c) \/ RefundAccepted(c) \/ RefundRejected(c)
               \/ RefundSave(c)

PNext ==
    \/ BookingStep
    \/ \E b \in Bookings : Initiate(b) \/ Charge(b)
    \/ \E w \in Settlements : Settle(w)
    \/ \E c \in Cancels : HonourCancel(c) \/ StartRefund(c) \/ Refund(c)
    \/ Restart

allvars == <<vars, pvars>>

PSpec == PInit /\ [][PNext]_allvars

\* Handlers that the process keeps running get to their end, and the listener
\* is called. Tourists, Paystack's webhook and the clock owe nothing.
PFairness ==
    /\ \A c \in Cancels : WF_allvars(StartRefund(c)) /\ WF_allvars(Refund(c))
    /\ \A w \in Settlements : WF_allvars(SettleCommit(w))

PFairSpec == PSpec /\ PFairness

-----------------------------------------------------------------------------
(* Type invariant: a settlement works on an existing payment, and is in    *)
(* its transaction exactly while confirmPaid() works for it.               *)
Handler(steps) == [step : {"idle"} \cup steps, booking : Bookings \cup {NoBooking}]

PTypeOK ==
    /\ TypeOK
    /\ payment \in [Bookings -> {"none", "PENDING", "PAID", "REFUNDED"}]
    /\ initiating \in [Bookings -> {"idle", "checked", "opened"}]
    /\ settling \in [Settlements -> Handler({"asking", "decided", "saved"})]
    /\ \A w \in Settlements :
          /\ settling[w].step = "idle" <=> settling[w].booking = NoBooking
          /\ settling[w].step # "idle" => payment[settling[w].booking] # "none"
          /\ confirming[w].booking =
                IF settling[w].step = "saved" THEN settling[w].booking ELSE NoBooking
    /\ refunding \in [Cancels -> Handler({"started", "loaded", "called"})]
    /\ \A c \in Cancels : refunding[c].step = "idle" <=> refunding[c].booking = NoBooking
    /\ opened \subseteq Bookings
    /\ charged \subseteq Bookings
    /\ refunded \subseteq Bookings
    /\ refusing \subseteq Bookings
    /\ honoured \subseteq Bookings

\* A booking is confirmed or completed only with its money taken and its
\* payment settled, whatever is replayed, lost or rolled back.
ConfirmedOnlyIfPaid ==
    \A b \in Bookings : status[b] \in {"CONFIRMED", "COMPLETED"} =>
        b \in charged /\ payment[b] \in {"PAID", "REFUNDED"}

\* Why it holds: a settlement goes ahead only for a charged booking and writes
\* the payment with the booking; a payment row is inserted once.
PaymentsTracked ==
    /\ \A b \in Bookings :
          /\ payment[b] # "none" => b \in opened
          /\ initiating[b] = "opened" => b \in opened /\ payment[b] = "none"
          /\ (status[b] \in {"CONFIRMED", "COMPLETED"} \/ b \in completing) =>
                b \in charged /\ payment[b] \in {"PAID", "REFUNDED"}
    /\ \A w \in Settlements : settling[w].step \in {"decided", "saved"} =>
          settling[w].booking \in charged
    /\ \A c \in Cancels : refunding[c].step \in {"loaded", "called"} =>
          payment[refunding[c].booking] # "none"

\* Money goes back only after a cancellation has committed, and a payment is
\* called REFUNDED only if the money went back (cancel(), refundForBooking()).
RefundsJustified ==
    /\ refunded \subseteq honoured
    /\ \A b \in Bookings : payment[b] = "REFUNDED" => b \in refunded

\* Why it holds: the event leaves after the commit, and the payment row is
\* written after Paystack's answer.
RefundsTracked ==
    /\ \A b \in Bookings : payment[b] = "REFUNDED" => b \in refunded
    /\ refunded \subseteq honoured
    /\ \A c \in Cancels :
          /\ cancelling[c].step = "committed" => cancelling[c].booking \in honoured
          /\ refunding[c].step # "idle" => refunding[c].booking \in honoured
          /\ refunding[c].step = "called" => refunding[c].booking \in refunded

\* A cancellation that commits after the payment was settled gets the money
\* back, if the process survives and Paystack accepts.
PaidCancellationRefunded ==
    \A c \in Cancels, b \in Bookings :
        (/\ cancelling[c] = [step |-> "committed", booking |-> b]
         /\ payment[b] = "PAID"
         /\ b \notin refusing) ~> (b \in refunded \/ crashes > 0)

\* What the design document promises and the code does not keep.

\* The expiry sweep cancels unpaid bookings only.
ExpiresOnlyUnpaid ==
    [][ExpireCommit => \A b \in expiring : payment[b] # "PAID"]_allvars
=============================================================================

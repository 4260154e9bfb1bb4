-------------------------- MODULE BookingLifecycle --------------------------
(***************************************************************************)
(* The status of every booking as a reader of the booking table sees it:   *)
(* between two commits each booking keeps its status or follows an edge.   *)
(***************************************************************************)
CONSTANTS Bookings, Edges

VARIABLE status

Statuses == {"none", "PENDING", "CONFIRMED", "CANCELLED", "COMPLETED"}

Init == status = [b \in Bookings |-> "none"]

Step ==
    /\ status' \in [Bookings -> Statuses]
    /\ \A b \in Bookings :
          status'[b] # status[b] => <<status[b], status'[b]>> \in Edges

Spec == Init /\ [][Step]_status
=============================================================================

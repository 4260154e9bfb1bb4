---------------------------- MODULE OpeningHours ----------------------------
(***************************************************************************)
(* When a restaurant is open and which tables it offers: opening-hours.ts. *)
(* Times are in minutes of a UTC day; a week's hours are windows in the    *)
(* order they are stored.                                                  *)
(***************************************************************************)
EXTENDS Integers, Sequences

Days == 0..6
Minutes == 0..1439
Windows == [day : Days, opens : Minutes, closes : Minutes]

isOpenAt(hours, day, now) ==
    \E k \in DOMAIN hours :
        hours[k].day = day /\ now >= hours[k].opens /\ now < hours[k].closes

\* The first window of the day decides, and offers tables by the hour, the last
\* an hour before it closes.
SlotsOf(window) == {m \in {window.opens + 60 * k : k \in 0..23} : m <= window.closes - 60}
First(hours, day, k) == hours[k].day = day /\ \A j \in 1..(k - 1) : hours[j].day # day
availableSlots(hours, day) ==
    UNION {SlotsOf(hours[k]) : k \in {k \in DOMAIN hours : First(hours, day, k)}}
=============================================================================

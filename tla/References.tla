----------------------------- MODULE References -----------------------------
(***************************************************************************)
(* The human references of bookings and reservations, TUR-2026-0001 and    *)
(* the like: a series for each kind of row, numbered anew each year. The   *)
(* next number is one more than the rows created this year, counted before *)
(* the insert and without a lock that all requests of a series share; the  *)
(* unique index refuses a reference that another request was faster with.  *)
(*                                                                         *)
(* The year in the reference is the clock's. The year a row counts in is   *)
(* that of created_at, which PostgreSQL sets to the start of the           *)
(* transaction. A tour booking reads the clock inside its transaction, a   *)
(* reservation before it.                                                  *)
(***************************************************************************)
EXTENDS Integers, FiniteSets

CONSTANTS
    Requests,       \* requests that insert a row
    Series,         \* TUR, STY, FLT, TBL
    Tours,          \* the series of tour bookings
    SeriesOf,       \* request -> the series of its row
    MaxAttempts,    \* how often a reservation is tried
    LastYear        \* bound on the clock, which starts at 0

ASSUME RequestsAssumption ==
    /\ IsFiniteSet(Requests)
    /\ SeriesOf \in [Requests -> Series]
    /\ Tours \subseteq Series
    /\ MaxAttempts \in Nat \ {0}
    /\ LastYear \in Nat

VARIABLES
    clock,          \* the current year
    request,        \* request -> its step and what it has computed
    rows,           \* request -> the row it has committed
    base            \* history: rows of its year when request r first counted

refVars == <<clock, request, rows, base>>

Years == 0..LastYear

\* The loop ends after its last attempt; a tour booking is tried once.
Attempts(s) == IF s \in Tours THEN 1 ELSE MaxAttempts

NoRow == [year |-> -1, created |-> -1, seq |-> 0]
Idle == [step |-> "idle", year |-> 0, created |-> 0, seq |-> 0, tries |-> 0]

Inserted(r) == rows[r] # NoRow
Of(s) == {r \in Requests : SeriesOf[r] = s /\ Inserted(r)}

\* fault: the rows of the type that carry the year, not only those of this year
countAll(s, y) == Cardinality(Of(s))
countForYear(s, y) == Cardinality({r \in Of(s) : rows[r].created = y})

Taken(s, y, n) == \E r \in Of(s) : rows[r].year = y /\ rows[r].seq = n

RefInit ==
    /\ clock = 0
    /\ request = [r \in Requests |-> Idle]
    /\ rows = [r \in Requests |-> NoRow]
    /\ base = [r \in Requests |-> 0]

-----------------------------------------------------------------------------
\* A reservation reads the clock, once for all its attempts.
Open(r) ==
    /\ request[r].step = "idle"
    /\ ~Inserted(r)
    /\ SeriesOf[r] \notin Tours
    /\ request' = [request EXCEPT ![r] = [Idle EXCEPT !.step = "opened", !.year = clock]]
    /\ UNCHANGED <<clock, rows, base>>

\* The transaction starts. That of a tour booking may then wait for the row of
\* its departure.
Begin(r) ==
    /\ IF SeriesOf[r] \in Tours THEN request[r].step = "idle" /\ ~Inserted(r)
                               ELSE request[r].step = "opened"
    /\ request' = [request EXCEPT ![r] = [@ EXCEPT !.step = "begun", !.created = clock]]
    /\ UNCHANGED <<clock, rows, base>>

\* The rows of the year are counted: of this year, for a tour booking, which
\* reads the clock now.
Count(r) ==
    LET y == IF SeriesOf[r] \in Tours THEN clock ELSE request[r].year
        n == countForYear(SeriesOf[r], y)
    IN
    /\ request[r].step = "begun"
    /\ request' = [request EXCEPT ![r] =
                     [@ EXCEPT !.step = "counted", !.year = y, !.seq = n + 1]]
    /\ base' = IF request[r].tries = 0 THEN [base EXCEPT ![r] = n] ELSE base
    /\ UNCHANGED <<clock, rows>>

Insert(r) ==
    /\ request[r].step = "counted"
    /\ ~Taken(SeriesOf[r], request[r].year, request[r].seq)
    /\ request' = [request EXCEPT ![r] = Idle]
    /\ rows' = [rows EXCEPT ![r] = [year |-> request[r].year,
                                    created |-> request[r].created,
                                    seq |-> request[r].seq]]
    /\ UNCHANGED <<clock, base>>

\* fault: every collision is final
GiveUp(r) ==
    /\ request[r].step = "counted"
    /\ Taken(SeriesOf[r], request[r].year, request[r].seq)
    /\ request' = [request EXCEPT ![r] = [@ EXCEPT !.step = "failed", !.tries = @ + 1]]
    /\ UNCHANGED <<clock, rows, base>>

\* fault: one attempt too many
CollideOnceMore(r) ==
    LET k == request[r].tries + 1 IN
    /\ request[r].step = "counted"
    /\ Taken(SeriesOf[r], request[r].year, request[r].seq)
    /\ request' = [request EXCEPT ![r] =
                     [@ EXCEPT !.step = IF k <= Attempts(SeriesOf[r]) THEN "opened"
                                                                     ELSE "failed",
                               !.tries = k]]
    /\ UNCHANGED <<clock, rows, base>>

\* The unique index refuses the insert. A reservation counts again, for the
\* year it has read, until its attempts are used up.
Collide(r) ==
    LET k == request[r].tries + 1 IN
    /\ request[r].step = "counted"
    /\ Taken(SeriesOf[r], request[r].year, request[r].seq)
    /\ request' = [request EXCEPT ![r] =
                     [@ EXCEPT !.step = IF k < Attempts(SeriesOf[r]) THEN "opened"
                                                                    ELSE "failed",
                               !.tries = k]]
    /\ UNCHANGED <<clock, rows, base>>

\* The request ends for another reason, and its transaction with it.
Abort(r) ==
    /\ request[r].step \in {"opened", "begun", "counted"}
    /\ request' = [request EXCEPT ![r] = Idle]
    /\ UNCHANGED <<clock, rows, base>>

NewYear ==
    /\ clock < LastYear
    /\ clock' = clock + 1
    /\ UNCHANGED <<request, rows, base>>

Create(r) == Open(r) \/ Begin(r) \/ Count(r) \/ Insert(r) \/ Collide(r) \/ Abort(r)

RefNext == (\E r \in Requests : Create(r)) \/ NewYear

RefSpec == RefInit /\ [][RefNext]_refVars

-----------------------------------------------------------------------------
(* Type invariant: a request that has a row does nothing any more, and one *)
(* that may try again has an attempt left.                                 *)
Steps == {"idle", "opened", "begun", "counted", "failed"}

RefTypeOK ==
    /\ clock \in Years
    /\ request \in [Requests -> [step : Steps, year : Years, created : Years,
                                 seq : Nat, tries : Nat]]
    /\ \A r \in Requests :
          /\ request[r].tries \in 0..Attempts(SeriesOf[r])
          /\ request[r].step \in {"opened", "begun", "counted"} =>
                request[r].tries < Attempts(SeriesOf[r]) /\ ~Inserted(r)
          /\ request[r].step = "idle" => request[r] = Idle
          /\ request[r].step = "counted" => request[r].seq > 0
          /\ request[r].step = "failed" => request[r].tries = Attempts(SeriesOf[r])
    /\ rows \in [Requests -> [year : Years, created : Years, seq : Nat \ {0}] \cup {NoRow}]
    /\ base \in [Requests -> Nat]

\* No row of the series counts in another year than its reference says.
InStep(s) == \A r \in Of(s) : rows[r].year = rows[r].created

Labelled(s, y) == {r \in Of(s) : rows[r].year = y}

\* In a series without a row that straddled New Year, the numbers of a year are
\* 1, 2, 3, ... without a gap and without a repetition, whatever requests race,
\* collide, retry or end half-way (countForYear() + 1).
NumbersWithoutGap ==
    \A s \in Series, y \in Years : InStep(s) =>
        {rows[r].seq : r \in Labelled(s, y)} = 1..countForYear(s, y)

\* In such a series a request fails to find a number only if others inserted a
\* row at least once during each of its attempts.
FailureNeedsRivals ==
    \A r \in Requests : (request[r].step = "failed" /\ InStep(SeriesOf[r])) =>
        countForYear(SeriesOf[r], request[r].year) >= base[r] + Attempts(SeriesOf[r])

\* Why both hold: a request's number follows a count that only grows.
NumbersFollowCounts ==
    \A r \in Requests :
        LET n == countForYear(SeriesOf[r], request[r].year) IN
        /\ request[r].step = "counted" => request[r].seq <= n + 1
        /\ InStep(SeriesOf[r]) =>
              /\ request[r].step = "counted" => base[r] + request[r].tries < request[r].seq
              /\ request[r].step \in {"opened", "begun"} /\ request[r].tries > 0
                    => base[r] + request[r].tries <= n
              /\ request[r].step = "failed" => base[r] + request[r].tries <= n
=============================================================================

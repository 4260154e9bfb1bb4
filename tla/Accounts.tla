------------------------------ MODULE Accounts ------------------------------
(***************************************************************************)
(* The accounts and their tokens: users.service and auth.service. No call  *)
(* runs in a transaction; each statement commits by itself, and a call may *)
(* end between two of them.                                                *)
(*                                                                         *)
(* A profile or a password is saved through TypeORM: the row is loaded,    *)
(* one column of the object is set, save() reads the row again and updates *)
(* the columns in which the object differs from it - those included that   *)
(* somebody else has changed since the object was loaded. Points are added *)
(* by one UPDATE in the transaction that completes a booking.              *)
(*                                                                         *)
(* An expired token is refused as an unknown one, so expiry is a call that *)
(* nobody makes. Hashing, mail and the signing of access tokens change no  *)
(* state. The tokens of one session are those a login's token was rotated  *)
(* into.                                                                   *)
(***************************************************************************)
EXTENDS Naturals

CONSTANTS
    Users,          \* email addresses
    Calls,          \* requests being served
    RefreshIds,     \* rows of refresh_tokens
    ResetIds,       \* rows of password_reset_tokens
    Values,         \* profiles and password hashes, as numbers
    MaxPoints,      \* bound on the points awarded to a user
    None

ASSUME AccountsAssumption ==
    /\ Values \subseteq Nat
    /\ Values # {}
    /\ MaxPoints \in Nat
    /\ None \notin RefreshIds \cup ResetIds \cup Users

VARIABLES
    account,        \* user -> the row, or no row
    call,           \* call -> its step and what it holds
    session,        \* refresh token -> first token of its session, None if not issued
    revoked,        \* refresh tokens with revoked_at set
    resetFor,       \* reset token -> its user, None if not issued
    used,           \* reset tokens with used_at set
    expected,       \* history: the row the calls leave one after the other; a stale
                    \* save leaves what it wrote, and the points that were awarded
    overlapped,     \* history: users with a save that was stale when it read again
    raced,          \* history: sessions of which two calls held one token
    left,           \* history: sessions logged out of
    resets,         \* history: reset token -> passwords it has set, up to 2
    excused         \* history: reset tokens held by two calls, or left unmarked

accountVars == <<account, expected, overlapped>>
sessionVars == <<session, revoked, raced, left>>
resetVars == <<resetFor, used, resets, excused>>
vars == <<accountVars, sessionVars, resetVars, call>>

Columns == {"profile", "password", "points"}
NoRow == [k \in Columns |-> MaxPoints + 1]      \* no row has that many points
Rows == {row \in [Columns -> Nat] : row["points"] <= MaxPoints}

Exists(u) == account[u] # NoRow
Idle == [step |-> "idle"]

Init ==
    /\ account = [u \in Users |-> NoRow]
    /\ expected = [u \in Users |-> NoRow]
    /\ overlapped = {}
    /\ session = [t \in RefreshIds |-> None]
    /\ revoked = {}
    /\ raced = {}
    /\ left = {}
    /\ resetFor = [t \in ResetIds |-> None]
    /\ used = {}
    /\ resets = [t \in ResetIds |-> 0]
    /\ excused = {}
    /\ call = [c \in Calls |-> Idle]

Become(c, next) == call' = [call EXCEPT ![c] = next]
At(c, step) == call[c].step = step

-----------------------------------------------------------------------------
(* Saving a row.                                                           *)

Saving(u, column, value, t) ==
    [step |-> "loaded", user |-> u, column |-> column, changed |-> {},
     row |-> [account[u] EXCEPT ![column] = value], stale |-> FALSE, reset |-> t]

\* A row has changed under the calls that have loaded it and not read it again.
Staled(u, calls) ==
    [c \in Calls |-> IF calls[c].step = "loaded" /\ calls[c].user = u
                     THEN [calls[c] EXCEPT !.stale = TRUE] ELSE calls[c]]

UpdateProfile(c, u, value) ==
    /\ At(c, "idle")
    /\ Exists(u)
    /\ Become(c, Saving(u, "profile", value, None))
    /\ UNCHANGED <<accountVars, sessionVars, resetVars>>

SetPassword(c, value) ==
    /\ At(c, "resetting")
    /\ Become(c, Saving(call[c].user, "password", value, call[c].reset))
    /\ UNCHANGED <<accountVars, sessionVars, resetVars>>

After(c) == IF call[c].reset = None THEN Idle
            ELSE [step |-> "marking", reset |-> call[c].reset]

\* fault: save() updates every column of the object
ReadAllColumns(c) ==
    /\ At(c, "loaded")
    /\ Become(c, [call[c] EXCEPT !.step = "read", !.changed = Columns])
    /\ UNCHANGED <<accountVars, sessionVars, resetVars>>

\* save() reads the row and compares; it writes nothing if nothing differs. Of
\* the object only the columns it sets matter from here on.
ReadAgain(c) ==
    LET u == call[c].user
        changed == {k \in Columns : call[c].row[k] # account[u][k]}
    IN
    /\ At(c, "loaded")
    /\ Become(c, IF changed = {} THEN After(c)
                 ELSE [call[c] EXCEPT !.step = "read", !.changed = changed, !.row =
                         [k \in Columns |-> IF k \in changed THEN @[k] ELSE 0]])
    /\ UNCHANGED <<accountVars, sessionVars, resetVars>>

Again(n) == IF n < 2 THEN n + 1 ELSE n     \* once, or more than once

Write(c) ==
    LET u == call[c].user
        k == call[c].column
        t == call[c].reset
        row == [j \in Columns |-> IF j \in call[c].changed THEN call[c].row[j]
                                                         ELSE account[u][j]]
    IN
    /\ At(c, "read")
    /\ account' = [account EXCEPT ![u] = row]
    /\ call' = Staled(u, [call EXCEPT ![c] = After(c)])
    /\ expected' = [expected EXCEPT ![u] =
                      IF call[c].stale THEN [row EXCEPT !["points"] = expected[u]["points"]]
                                       ELSE [@ EXCEPT ![k] = call[c].row[k]]]
    /\ overlapped' = IF call[c].stale THEN overlapped \cup {u} ELSE overlapped
    /\ resets' = IF t = None THEN resets ELSE [resets EXCEPT ![t] = Again(@)]
    /\ UNCHANGED <<sessionVars, resetFor, used, excused>>

AddPoints(u) ==
    /\ Exists(u)
    /\ expected[u]["points"] < MaxPoints
    /\ account' = [account EXCEPT ![u]["points"] = @ + 1]
    /\ expected' = [expected EXCEPT ![u]["points"] = @ + 1]
    /\ call' = Staled(u, call)
    /\ UNCHANGED <<overlapped, sessionVars, resetVars>>

-----------------------------------------------------------------------------
(* Accounts and sessions.                                                  *)

Register(c, u, value) ==
    /\ At(c, "idle")
    /\ ~Exists(u)
    /\ Become(c, [step |-> "registering", user |-> u, password |-> value])
    /\ UNCHANGED <<accountVars, sessionVars, resetVars>>

\* The unique index on the address refuses the slower of two registrations.
CreateUser(c) ==
    LET u == call[c].user
        row == [k \in Columns |-> IF k = "points" THEN 0 ELSE call[c].password]
    IN
    /\ At(c, "registering")
    /\ Become(c, IF Exists(u) THEN Idle ELSE [step |-> "issuing", of |-> None])
    /\ account' = IF Exists(u) THEN account ELSE [account EXCEPT ![u] = row]
    /\ expected' = IF Exists(u) THEN expected ELSE [expected EXCEPT ![u] = row]
    /\ UNCHANGED <<overlapped, sessionVars, resetVars>>

Login(c, u) ==
    /\ At(c, "idle")
    /\ Exists(u)
    /\ Become(c, [step |-> "issuing", of |-> None])
    /\ UNCHANGED <<accountVars, sessionVars, resetVars>>

IssueTokens(c) ==
    /\ At(c, "issuing")
    /\ \E t \in RefreshIds :
          /\ session[t] = None
          /\ session' = [session EXCEPT ![t] = IF call[c].of = None THEN t ELSE call[c].of]
    /\ Become(c, Idle)
    /\ UNCHANGED <<accountVars, resetVars, revoked, raced, left>>

Holds(c, t) == call[c].step \in {"refreshing", "leaving"} /\ call[c].token = t

\* fault: a revoked token is found too
FindAny(c, t, step) ==
    /\ At(c, "idle")
    /\ session[t] # None
    /\ Become(c, [step |-> step, token |-> t])
    /\ raced' = IF \E d \in Calls : Holds(d, t) /\ "refreshing" \in {step, call[d].step}
                THEN raced \cup {session[t]} ELSE raced
    /\ UNCHANGED <<accountVars, resetVars, session, revoked, left>>

\* findActiveByHash(): the token is held by this call, and perhaps by others.
FindActive(c, t, step) ==
    /\ At(c, "idle")
    /\ session[t] # None
    /\ t \notin revoked
    /\ Become(c, [step |-> step, token |-> t])
    /\ raced' = IF \E d \in Calls : Holds(d, t) /\ "refreshing" \in {step, call[d].step}
                THEN raced \cup {session[t]} ELSE raced
    /\ UNCHANGED <<accountVars, resetVars, session, revoked, left>>

Refresh(c, t) == FindActive(c, t, "refreshing")
Logout(c, t) == FindActive(c, t, "leaving")

Rotate(c) ==
    /\ At(c, "refreshing")
    /\ revoked' = revoked \cup {call[c].token}
    /\ Become(c, [step |-> "issuing", of |-> session[call[c].token]])
    /\ UNCHANGED <<accountVars, resetVars, session, raced, left>>

Leave(c) ==
    /\ At(c, "leaving")
    /\ revoked' = revoked \cup {call[c].token}
    /\ left' = left \cup {session[call[c].token]}
    /\ Become(c, Idle)
    /\ UNCHANGED <<accountVars, resetVars, session, raced>>

-----------------------------------------------------------------------------
(* Forgotten passwords.                                                    *)

\* fault: a reset token is issued for an address that nobody registered
ForgotAnything(u) ==
    /\ \E t \in ResetIds :
          /\ resetFor[t] = None
          /\ resetFor' = [resetFor EXCEPT ![t] = u]
    /\ UNCHANGED <<accountVars, sessionVars, used, resets, excused, call>>

ForgotPassword(u) ==
    /\ Exists(u)
    /\ \E t \in ResetIds :
          /\ resetFor[t] = None
          /\ resetFor' = [resetFor EXCEPT ![t] = u]
    /\ UNCHANGED <<accountVars, sessionVars, used, resets, excused, call>>

Resetting(c, t) ==
    call[c].step \in {"resetting", "loaded", "read", "marking"} /\ call[c].reset = t

ResetPassword(c, t) ==
    /\ At(c, "idle")
    /\ resetFor[t] # None
    /\ t \notin used
    /\ Become(c, [step |-> "resetting", user |-> resetFor[t], reset |-> t])
    /\ excused' = IF \E d \in Calls : Resetting(d, t) THEN excused \cup {t} ELSE excused
    /\ UNCHANGED <<accountVars, sessionVars, resetFor, used, resets>>

\* fault: the token is not marked
MarkNothing(c) ==
    /\ At(c, "marking")
    /\ Become(c, Idle)
    /\ UNCHANGED <<accountVars, sessionVars, resetVars>>

MarkUsed(c) ==
    /\ At(c, "marking")
    /\ used' = used \cup {call[c].reset}
    /\ Become(c, Idle)
    /\ UNCHANGED <<accountVars, sessionVars, resetFor, resets, excused>>

\* The call ends where it is: a statement fails, or the service restarts.
End(c) ==
    /\ ~At(c, "idle")
    /\ excused' = IF At(c, "marking") THEN excused \cup {call[c].reset} ELSE excused
    /\ Become(c, Idle)
    /\ UNCHANGED <<accountVars, sessionVars, resetFor, used, resets>>

-----------------------------------------------------------------------------
Serve(c) ==
    \/ \E u \in Users, v \in Values : UpdateProfile(c, u, v) \/ Register(c, u, v)
    \/ \E v \in Values : SetPassword(c, v)
    \/ \E u \in Users : Login(c, u)
    \/ \E t \in RefreshIds : Refresh(c, t) \/ Logout(c, t)
    \/ \E t \in ResetIds : ResetPassword(c, t)
    \/ ReadAgain(c) \/ Write(c)
    \/ CreateUser(c) \/ IssueTokens(c) \/ Rotate(c) \/ Leave(c)
    \/ MarkUsed(c) \/ End(c)

Next ==
    \/ \E c \in Calls : Serve(c)
    \/ \E u \in Users : AddPoints(u) \/ ForgotPassword(u)

Spec == Init /\ [][Next]_vars

-----------------------------------------------------------------------------
(* Type invariant: what a call holds exists, and every session starts with *)
(* a token of its own.                                                     *)
Issued == {t \in RefreshIds : session[t] # None}
First == {t \in RefreshIds : session[t] = t}

CallSteps ==
    {Idle}
    \cup [step : {"loaded", "read"}, user : Users, column : {"profile", "password"},
          changed : SUBSET Columns, row : Rows, stale : BOOLEAN,
          reset : ResetIds \cup {None}]
    \cup [step : {"registering"}, user : Users, password : Values]
    \cup [step : {"issuing"}, of : RefreshIds \cup {None}]
    \cup [step : {"refreshing", "leaving"}, token : RefreshIds]
    \cup [step : {"resetting"}, user : Users, reset : ResetIds]
    \cup [step : {"marking"}, reset : ResetIds]

AccountsTypeOK ==
    /\ account \in [Users -> Rows \cup {NoRow}]
    /\ expected \in [Users -> Rows \cup {NoRow}]
    /\ \A u \in Users : expected[u] = NoRow <=> account[u] = NoRow
    /\ overlapped \subseteq Users
    /\ session \in [RefreshIds -> RefreshIds \cup {None}]
    /\ \A t \in Issued : session[t] \in First
    /\ revoked \subseteq Issued
    /\ raced \subseteq Issued /\ left \subseteq Issued
    /\ resetFor \in [ResetIds -> Users \cup {None}]
    /\ \A t \in ResetIds : resetFor[t] # None => Exists(resetFor[t])
    /\ used \subseteq ResetIds /\ excused \subseteq ResetIds
    /\ resets \in [ResetIds -> 0..2]
    /\ call \in [Calls -> CallSteps]
    /\ \A c \in Calls :
          /\ call[c].step \in {"refreshing", "leaving"} => call[c].token \in Issued
          /\ call[c].step = "issuing" => call[c].of \in First \cup {None}
          /\ call[c].step \in {"loaded", "read", "resetting"} => Exists(call[c].user)

\* A save changes nothing but its column, and loses no points, unless somebody
\* changed the row between its two reads; and even then a user never has more
\* points than were awarded (updateProfile(), setPassword(), addPoints()).
NothingLostWithoutOverlap ==
    \A u \in Users :
        /\ u \notin overlapped => account[u] = expected[u]
        /\ account[u] = [expected[u] EXCEPT !["points"] = account[u]["points"]]
        /\ account[u]["points"] <= expected[u]["points"]

\* Why: a save that nobody disturbed holds the row as it is but for its column,
\* and no object holds more points than were awarded.
HeldRowsFollow ==
    \A c \in Calls : call[c].step \in {"loaded", "read"} =>
        LET u == call[c].user
            k == call[c].column
        IN
        /\ call[c].row["points"] <= expected[u]["points"]
        /\ ~call[c].stale =>
              /\ At(c, "loaded") => \A j \in Columns \ {k} : call[c].row[j] = account[u][j]
              /\ At(c, "read") => call[c].changed = {k}

AtMostOne(S) == \A x, y \in S : x = y

Live(s) == {t \in Issued : session[t] = s /\ t \notin revoked}
Rotating(s) == {c \in Calls : At(c, "issuing") /\ call[c].of = s}

\* A session whose tokens are held by one call at a time has at most one token
\* that can be redeemed or is about to be, and none once it was logged out of
\* (refresh() and logout()).
SessionsFollowRotation ==
    \A s \in Issued \ raced :
        /\ AtMostOne(Live(s)) /\ AtMostOne(Rotating(s))
        /\ Live(s) = {} \/ Rotating(s) = {}
        /\ s \in left => Live(s) = {} /\ Rotating(s) = {}

\* Why: a token that one call holds is still live when that call revokes it.
HeldTokensLive ==
    \A c \in Calls :
        LET t == call[c].token
        IN  /\ At(c, "refreshing") /\ session[t] \notin raced =>
                  /\ t \notin revoked
                  /\ \A d \in Calls : Holds(d, t) => d = c
            /\ At(c, "leaving") /\ session[t] \notin raced =>
                  t \notin revoked \/ session[t] \in left

\* A reset token sets one password, unless two calls held it together or one of
\* them ended between the password and the mark (resetPassword()).
ResetOnce == \A t \in ResetIds \ excused : resets[t] <= 1

\* Why: the call that alone holds the token has not set the password before.
HeldResetsUnused ==
    \A t \in ResetIds \ excused :
        /\ AtMostOne({c \in Calls : Resetting(c, t)})
        /\ \A c \in Calls : Resetting(c, t) => t \notin used
        /\ t \notin used /\ (\A c \in Calls : ~(Resetting(c, t) /\ At(c, "marking")))
              => resets[t] = 0
=============================================================================

--------------------------- MODULE AccountsProofs ---------------------------
(***************************************************************************)
(* Theorems about Accounts, for any users, overlapping calls and tokens.   *)
(* The invariant has a part for the rows of the users, one for the         *)
(* sessions and one for the reset tokens; a step works on one of the three *)
(* and takes its call out of the others at most.                           *)
(***************************************************************************)
EXTENDS Accounts, TLAPS

Idles == {Idle}
Savings == [step : {"loaded", "read"}, user : Users, column : {"profile", "password"},
            changed : SUBSET Columns, row : Rows, stale : BOOLEAN,
            reset : ResetIds \cup {None}]
Registerings == [step : {"registering"}, user : Users, password : Values]
Issuings == [step : {"issuing"}, of : RefreshIds \cup {None}]
Holdings == [step : {"refreshing", "leaving"}, token : RefreshIds]
Resettings == [step : {"resetting"}, user : Users, reset : ResetIds]
Markings == [step : {"marking"}, reset : ResetIds]

RowsTyped ==
    /\ account \in [Users -> Rows \cup {NoRow}]
    /\ expected \in [Users -> Rows \cup {NoRow}]
    /\ \A u \in Users : expected[u] = NoRow <=> account[u] = NoRow
    /\ overlapped \subseteq Users
SessionsTyped ==
    /\ session \in [RefreshIds -> RefreshIds \cup {None}]
    /\ \A t \in Issued : session[t] \in First
    /\ revoked \subseteq Issued
    /\ raced \subseteq Issued /\ left \subseteq Issued
ResetsTyped ==
    /\ resetFor \in [ResetIds -> Users \cup {None}]
    /\ used \subseteq ResetIds /\ excused \subseteq ResetIds
    /\ resets \in [ResetIds -> 0..2]
HeldExists(r) ==
    /\ r.step \in {"refreshing", "leaving"} => r.token \in Issued
    /\ r.step = "issuing" => r.of \in First \cup {None}
    /\ r.step \in {"loaded", "read", "resetting"} => Exists(r.user)
ResetsExist == \A t \in ResetIds : resetFor[t] # None => Exists(resetFor[t])
CallsTyped ==
    /\ call \in [Calls -> CallSteps]
    /\ \A c \in Calls : HeldExists(call[c])

RowsInv == RowsTyped /\ NothingLostWithoutOverlap /\ HeldRowsFollow
SessionsInv == SessionsTyped /\ SessionsFollowRotation /\ HeldTokensLive
ResetsInv == ResetsTyped /\ ResetOnce /\ HeldResetsUnused
AccountsInv == CallsTyped /\ RowsInv /\ SessionsInv /\ ResetsInv

-----------------------------------------------------------------------------
(* Facts about records.                                                    *)

\* The type invariant, in parts that steps disturb separately.
LEMMA TypeParts ==
    AccountsTypeOK <=>
        CallsTyped /\ RowsTyped /\ SessionsTyped /\ ResetsTyped /\ ResetsExist
  BY DEF AccountsTypeOK, ResetsExist, CallsTyped, HeldExists, RowsTyped, SessionsTyped, ResetsTyped

\* The states of a call, by what it is about.
LEMMA Parts == CallSteps = Idles \cup Savings \cup Registerings \cup Issuings
                           \cup Holdings \cup Resettings \cup Markings
  BY DEF CallSteps, Idles, Savings, Registerings, Issuings, Holdings, Resettings, Markings

\* The step of a call tells what it holds.
LEMMA Kinds ==
    ASSUME NEW r \in CallSteps
    PROVE  /\ r.step \in {"loaded", "read"} => r \in Savings
           /\ r.step = "registering" => r \in Registerings
           /\ r.step = "issuing" => r \in Issuings
           /\ r.step \in {"refreshing", "leaving"} => r \in Holdings
           /\ r.step = "resetting" => r \in Resettings
           /\ r.step = "marking" => r \in Markings
           /\ r.step = "idle" => r = Idle
<1> USE Parts
<1>1. CASE r \in Idles
  BY <1>1 DEF Idles, Idle
<1>2. CASE r \in Savings
  BY <1>2 DEF Savings
<1>3. CASE r \in Registerings
  BY <1>3 DEF Registerings
<1>4. CASE r \in Issuings
  BY <1>4 DEF Issuings
<1>5. CASE r \in Holdings
  BY <1>5 DEF Holdings
<1>6. CASE r \in Resettings
  BY <1>6 DEF Resettings
<1>7. CASE r \in Markings
  BY <1>7 DEF Markings
<1> QED
  BY <1>1, <1>2, <1>3, <1>4, <1>5, <1>6, <1>7

\* The fields of a call that saves a row.
LEMMA Saving_ ==
    ASSUME NEW r \in Savings
    PROVE  /\ r.user \in Users /\ r.column \in {"profile", "password"}
           /\ r.changed \subseteq Columns /\ r.row \in Rows /\ r.stale \in BOOLEAN
           /\ r.reset \in ResetIds \cup {None} /\ r.step \in {"loaded", "read"}
  BY DEF Savings

\* Rows, with a column set.
LEMMA RowsAre ==
    ASSUME NEW row \in Rows
    PROVE  /\ row \in [Columns -> Nat] /\ row["points"] <= MaxPoints
           /\ row["points"] \in Nat /\ row # NoRow
  BY AccountsAssumption DEF Rows, NoRow, Columns

\* A row with one column set is a row.
LEMMA RowSet ==
    ASSUME NEW row \in Rows, NEW k \in Columns, NEW n \in Nat,
           k = "points" => n <= MaxPoints
    PROVE  [row EXCEPT ![k] = n] \in Rows
  BY AccountsAssumption DEF Rows, Columns

\* Setting columns of one row to those of another.
LEMMA RowMerged ==
    ASSUME NEW row \in Rows, NEW other \in Rows, NEW C \in SUBSET Columns
    PROVE  [j \in Columns |-> IF j \in C THEN other[j] ELSE row[j]] \in Rows
  BY AccountsAssumption DEF Rows, Columns

-----------------------------------------------------------------------------
(* Calls.                                                                  *)

\* What exists stays.
Grows ==
    /\ Issued \subseteq Issued' /\ First \subseteq First'
    /\ \A u \in Users : Exists(u) => Exists(u)'

\* The rows and tokens that a call refers to stay while none is removed.
LEMMA HeldStays ==
    ASSUME NEW r \in CallSteps, HeldExists(r), Grows
    PROVE  HeldExists(r)'
<1>1. r.step \in {"loaded", "read", "resetting"} => r.user \in Users
  BY Kinds DEF Savings, Resettings
<1> QED
  BY <1>1 DEF HeldExists, Grows

\* A call that moves to a state of its own keeps all calls typed.
LEMMA CallMoves ==
    ASSUME CallsTyped, Grows, NEW c \in Calls, NEW r \in CallSteps, HeldExists(r)',
           call' = [call EXCEPT ![c] = r]
    PROVE  CallsTyped'
<1>1. call' \in [Calls -> CallSteps]
  BY DEF CallsTyped
<1>2. ASSUME NEW d \in Calls PROVE HeldExists(call[d])'
  <2>1. CASE d = c
    <3>1. call'[d] = r
      BY <2>1 DEF CallsTyped
    <3> QED
      BY <3>1 DEF HeldExists, Exists, Issued, First
  <2>2. CASE d # c
    <3>1. call'[d] = call[d]
      BY <2>2 DEF CallsTyped
    <3>2. \A q \in CallSteps : HeldExists(q) => HeldExists(q)'
      BY HeldStays
    <3>3. call[d] \in CallSteps /\ HeldExists(call[d])
      BY DEF CallsTyped
    <3> QED
      BY <3>1, <3>2, <3>3 DEF HeldExists, Exists, Issued, First
  <2> QED
    BY <2>1, <2>2
<1> QED
  BY <1>1, <1>2 DEF CallsTyped

\* A call whose loaded object went stale is otherwise as it was.
WasLoaded(q, r, u) ==
    /\ r.step = "loaded" /\ r.user = u /\ r \in Savings
    /\ q.step = "loaded" /\ q.user = u /\ q \in Savings
    /\ q.column = r.column /\ q.row = r.row /\ q.reset = r.reset /\ q.stale = TRUE
SameCall(q, r, u) == q = r /\ ~(r.step = "loaded" /\ r.user = u)

\* Staled leaves a call as it is, or marks the save that it is in as outdated.
LEMMA StaledCalls ==
    ASSUME NEW calls \in [Calls -> CallSteps], NEW u, NEW next, next = Staled(u, calls)
    PROVE  /\ next \in [Calls -> CallSteps]
           /\ \A d \in Calls : SameCall(next[d], calls[d], u) \/ WasLoaded(next[d], calls[d], u)
<1>1. ASSUME NEW d \in Calls
      PROVE  /\ next[d] \in CallSteps
             /\ SameCall(next[d], calls[d], u) \/ WasLoaded(next[d], calls[d], u)
  <2>1. CASE calls[d].step = "loaded" /\ calls[d].user = u
    <3>1. next[d] = [calls[d] EXCEPT !.stale = TRUE]
      BY <2>1 DEF Staled
    <3>2. calls[d] \in Savings
      BY <2>1, Kinds
    <3> QED
      BY <2>1, <3>1, <3>2, Parts DEF Savings, WasLoaded
  <2>2. CASE ~(calls[d].step = "loaded" /\ calls[d].user = u)
    BY <2>2 DEF Staled, SameCall
  <2> QED
    BY <2>1, <2>2
<1>2. next = [d \in Calls |-> next[d]]
  BY DEF Staled
<1> QED
  BY <1>1, <1>2

\* Staled keeps all calls typed.
LEMMA StaledTyped ==
    ASSUME Grows, NEW calls \in [Calls -> CallSteps], NEW u,
           \A d \in Calls : HeldExists(calls[d])', call' = Staled(u, calls)
    PROVE  CallsTyped'
<1>1. /\ call' \in [Calls -> CallSteps]
      /\ \A d \in Calls : SameCall(call'[d], calls[d], u) \/ WasLoaded(call'[d], calls[d], u)
  BY StaledCalls
<1>2. ASSUME NEW d \in Calls PROVE HeldExists(call[d])'
  <2>1. call'[d] = calls[d] \/ (call'[d].step = "loaded" /\ calls[d].step = "loaded"
                               /\ call'[d].user = calls[d].user)
    BY <1>1 DEF SameCall, WasLoaded
  <2> QED
    BY <2>1 DEF HeldExists, Exists, Issued, First
<1> QED
  BY <1>1, <1>2 DEF CallsTyped

-----------------------------------------------------------------------------
(* What a step does not work on.                                           *)

Saves(r) == r.step \in {"loaded", "read"}

\* A step that changes no row, and begins no save, preserves the facts about rows.
LEMMA RowsFrame ==
    ASSUME RowsInv, UNCHANGED accountVars,
           \A c \in Calls : call'[c] = call[c] \/ ~Saves(call'[c])
    PROVE  RowsInv'
  BY DEF RowsInv, RowsTyped, NothingLostWithoutOverlap, HeldRowsFollow, accountVars, Saves, At

\* The call is about a session.
InSession(r) == r.step \in {"refreshing", "leaving"} \/ (r.step = "issuing" /\ r.of # None)

\* A step that changes no token preserves the facts about sessions.
LEMMA SessionsFrame ==
    ASSUME SessionsInv, UNCHANGED sessionVars,
           \A c \in Calls : call'[c] = call[c] \/ ~InSession(call'[c])
    PROVE  SessionsInv'
<1>1. SessionsTyped'
  BY DEF SessionsInv, SessionsTyped, sessionVars, Issued, First
<1>2. ASSUME NEW s \in Issued \ raced
      PROVE  Live(s)' = Live(s) /\ Rotating(s)' \subseteq Rotating(s)
  BY AccountsAssumption DEF sessionVars, Live, Issued, Rotating, At, InSession
<1>3. SessionsFollowRotation'
  BY <1>2 DEF SessionsInv, SessionsFollowRotation, AtMostOne, sessionVars, Issued
<1>4. HeldTokensLive'
  BY DEF SessionsInv, HeldTokensLive, sessionVars, At, Holds, InSession
<1> QED
  BY <1>1, <1>3, <1>4 DEF SessionsInv

\* The call is a reset with this token; its password is set.
InReset(r, t) == r.step \in {"resetting", "loaded", "read", "marking"} /\ r.reset = t
Marks(r, t) == r.step = "marking" /\ r.reset = t

ResetFact(t) ==
    /\ resets[t] <= 1
    /\ \A c, d \in Calls : InReset(call[c], t) /\ InReset(call[d], t) => c = d
    /\ \A c \in Calls : InReset(call[c], t) => t \notin used
    /\ t \notin used /\ (\A c \in Calls : ~Marks(call[c], t)) => resets[t] = 0

\* The facts about reset tokens, one token at a time.
LEMMA ResetFacts == ResetsInv <=> ResetsTyped /\ \A t \in ResetIds \ excused : ResetFact(t)
  BY DEF ResetsInv, ResetOnce, HeldResetsUnused, ResetFact, InReset, Marks, Resetting, At, AtMostOne

\* When the facts about one reset token survive a step.
LEMMA ResetKept ==
    ASSUME NEW t, ResetFact(t), resets'[t] = resets[t], t \in used' <=> t \in used,
           \A c \in Calls : InReset(call'[c], t) => InReset(call[c], t),
           \A c \in Calls : Marks(call[c], t) => Marks(call'[c], t)
    PROVE  ResetFact(t)'
  BY DEF ResetFact

\* A step that uses no reset token preserves the facts about them.
LEMMA ResetsFrame ==
    ASSUME ResetsInv, ResetsTyped', resets' = resets, used' = used, excused \subseteq excused',
           \A c \in Calls, t \in ResetIds \ excused' :
                /\ InReset(call'[c], t) => InReset(call[c], t)
                /\ Marks(call[c], t) => Marks(call'[c], t)
    PROVE  ResetsInv'
<1>1. ASSUME NEW t \in ResetIds \ excused' PROVE ResetFact(t)'
  BY ResetKept, ResetFacts
<1> QED
  BY <1>1, ResetFacts DEF ResetsTyped, ResetFact, ResetsInv, ResetOnce, HeldResetsUnused,
     InReset, Marks, Resetting, At, AtMostOne

-----------------------------------------------------------------------------
(* Steps on the rows of the users.                                         *)

\* A user that exists has a row, and an expected one.
LEMMA RowsThere ==
    ASSUME RowsTyped, NEW u \in Users, Exists(u)
    PROVE  account[u] \in Rows /\ expected[u] \in Rows
  BY DEF RowsTyped, Exists

\* A save that has just loaded differs from the row in its own column alone.
LEMMA SavingTyped ==
    ASSUME RowsTyped, NEW u \in Users, Exists(u), NEW k \in {"profile", "password"},
           NEW v \in Values, NEW t \in ResetIds \cup {None}, NEW r, r = Saving(u, k, v, t)
    PROVE  /\ r \in Savings /\ r \in CallSteps
           /\ r.step = "loaded" /\ r.user = u /\ r.column = k /\ ~r.stale /\ r.reset = t
           /\ r.row["points"] = account[u]["points"]
           /\ \A j \in Columns \ {k} : r.row[j] = account[u][j]
<1> DEFINE row == [account[u] EXCEPT ![k] = v]
<1>1. account[u] \in Rows
  BY RowsThere
<1>2. row \in Rows
  BY <1>1, RowSet, AccountsAssumption DEF Columns
<1>3. row["points"] = account[u]["points"] /\ \A j \in Columns \ {k} : row[j] = account[u][j]
  BY <1>1 DEF Rows, Columns
<1>4. r = [step |-> "loaded", user |-> u, column |-> k, changed |-> {},
           row |-> row, stale |-> FALSE, reset |-> t]
  BY DEF Saving
<1> HIDE DEF row
<1>5. r \in Savings
  BY <1>2, <1>4 DEF Savings
<1> QED
  BY <1>3, <1>4, <1>5, Parts

\* A save begins: a profile is set, or a password that is being reset.
LEMMA LoadRows ==
    ASSUME RowsInv, NEW c \in Calls, NEW u \in Users, Exists(u),
           NEW k \in {"profile", "password"}, NEW v \in Values, NEW t \in ResetIds \cup {None},
           UNCHANGED accountVars, call \in [Calls -> CallSteps],
           call' = [call EXCEPT ![c] = Saving(u, k, v, t)]
    PROVE  RowsInv'
<1> DEFINE r == Saving(u, k, v, t)
<1>1. /\ r.step = "loaded" /\ r.user = u /\ r.column = k /\ ~r.stale
      /\ r.row["points"] = account[u]["points"]
      /\ \A j \in Columns \ {k} : r.row[j] = account[u][j]
  BY SavingTyped DEF RowsInv
<1> HIDE DEF r
<1>2. \A d \in Calls : call'[d] = IF d = c THEN r ELSE call[d]
  BY DEF r
<1>3. account[u]["points"] <= expected[u]["points"]
  BY DEF RowsInv, NothingLostWithoutOverlap
<1>4. RowsTyped' /\ NothingLostWithoutOverlap'
  BY DEF RowsInv, RowsTyped, NothingLostWithoutOverlap, accountVars
<1>5. HeldRowsFollow'
  BY <1>1, <1>2, <1>3 DEF RowsInv, HeldRowsFollow, accountVars, At
<1> QED
  BY <1>4, <1>5 DEF RowsInv

\* save() reads the row and finds the columns that differ.
LEMMA ReadAgainRows ==
    ASSUME CallsTyped, RowsInv, NEW c \in Calls, ReadAgain(c)
    PROVE  /\ call'[c] \in CallSteps /\ call' = [call EXCEPT ![c] = call'[c]]
           /\ \/ call'[c] = Idle
              \/ call'[c] = [step |-> "marking", reset |-> call[c].reset]
              \/ /\ call'[c] \in Savings /\ call'[c].step = "read"
                 /\ call'[c].user = call[c].user /\ call'[c].reset = call[c].reset
           /\ call[c].reset = None => call'[c].step # "marking"
           /\ RowsInv'
<1>1. /\ call[c] \in Savings /\ call[c].step = "loaded" /\ call[c].user \in Users
      /\ Exists(call[c].user) /\ call[c].row \in Rows /\ call[c].reset \in ResetIds \cup {None}
      /\ call[c].stale \in BOOLEAN /\ call[c].column \in {"profile", "password"}
  BY Kinds DEF ReadAgain, At, CallsTyped, HeldExists, Savings
<1> DEFINE u == call[c].user
           k == call[c].column
           changed == {j \in Columns : call[c].row[j] # account[u][j]}
           row == [j \in Columns |-> IF j \in changed THEN call[c].row[j] ELSE 0]
           r == [call[c] EXCEPT !.step = "read", !.changed = changed, !.row = row]
<1>2. call' = [call EXCEPT ![c] = IF changed = {} THEN After(c) ELSE r]
  BY DEF ReadAgain, Become
<1>3. /\ row \in Rows
      /\ changed \subseteq Columns
      /\ row["points"] <= call[c].row["points"]
  BY <1>1, AccountsAssumption DEF Rows, Columns
<1>4. ~call[c].stale => changed = {} \/ changed = {k}
  BY <1>1 DEF RowsInv, HeldRowsFollow, At
<1>5. call[c].row["points"] <= expected[u]["points"]
  BY <1>1 DEF RowsInv, HeldRowsFollow
<1> HIDE DEF changed, row
<1>6. /\ r \in Savings /\ r.step = "read" /\ r.user = u /\ r.column = k /\ r.row = row
      /\ r.changed = changed /\ r.stale = call[c].stale /\ r.reset = call[c].reset
  BY <1>1, <1>3 DEF Savings
<1> HIDE DEF r
<1>7. /\ After(c) \in CallSteps /\ ~Saves(After(c))
      /\ After(c) = Idle \/ After(c) = [step |-> "marking", reset |-> call[c].reset]
      /\ call[c].reset = None => After(c).step # "marking"
      /\ After(c).step \in {"idle", "marking"}
  BY <1>1, Parts DEF After, Saves, Idles, Idle, Markings
<1>8. /\ \A d \in Calls \ {c} : call'[d] = call[d]
      /\ call'[c] = IF changed = {} THEN After(c) ELSE r
  BY <1>2 DEF CallsTyped
<1>9. UNCHANGED accountVars
  BY DEF ReadAgain
<1>10. RowsTyped' /\ NothingLostWithoutOverlap'
  BY <1>9 DEF RowsInv, RowsTyped, NothingLostWithoutOverlap, accountVars
<1>11. row["points"] <= expected[u]["points"]
  BY <1>1, <1>3, <1>5, RowsAre, RowsThere DEF RowsInv
<1>12. HeldRowsFollow'
  BY <1>4, <1>6, <1>7, <1>8, <1>9, <1>11 DEF RowsInv, HeldRowsFollow, accountVars, At, Saves
<1>13. RowsInv'
  BY <1>10, <1>12 DEF RowsInv
<1>14. call'[c] \in CallSteps
  BY <1>6, <1>7, <1>8, Parts
<1>15. call' = [call EXCEPT ![c] = call'[c]]
  BY <1>2, <1>8
<1> QED
  BY <1>6, <1>7, <1>8, <1>13, <1>14, <1>15

\* After a save comes the mark of the reset token, or the end of the call.
LEMMA AfterTyped ==
    ASSUME NEW c \in Calls, call[c].reset \in ResetIds \cup {None}
    PROVE  /\ After(c) \in CallSteps /\ ~Saves(After(c))
           /\ After(c) = Idle \/ After(c) = [step |-> "marking", reset |-> call[c].reset]
           /\ call[c].reset = None => After(c) = Idle
           /\ call[c].reset # None => After(c) = [step |-> "marking", reset |-> call[c].reset]
           /\ After(c).step \in {"idle", "marking"}
  BY Parts DEF After, Saves, Idles, Idle, Markings

\* The row is written, and the calls that have loaded it are out of date.
LEMMA WriteRows ==
    ASSUME CallsTyped, RowsInv, NEW c \in Calls, Write(c)
    PROVE  RowsInv' /\ \A v \in Users : Exists(v) => Exists(v)'
<1>1. /\ call[c] \in Savings /\ call[c].step = "read" /\ call[c].user \in Users
      /\ Exists(call[c].user) /\ call[c].row \in Rows /\ call[c].reset \in ResetIds \cup {None}
      /\ call[c].stale \in BOOLEAN /\ call[c].column \in {"profile", "password"}
      /\ call[c].changed \subseteq Columns
  BY Kinds DEF Write, At, CallsTyped, HeldExists, Savings
<1> DEFINE u == call[c].user
           k == call[c].column
           held == call[c].row
           row == [j \in Columns |-> IF j \in call[c].changed THEN held[j] ELSE account[u][j]]
           gone == [row EXCEPT !["points"] = expected[u]["points"]]
           kept == [expected[u] EXCEPT ![k] = held[k]]
           due == IF call[c].stale THEN gone ELSE kept
           calls == [call EXCEPT ![c] = After(c)]
<1>2. /\ account' = [account EXCEPT ![u] = row]
      /\ expected' = [expected EXCEPT ![u] = due]
      /\ overlapped' = IF call[c].stale THEN overlapped \cup {u} ELSE overlapped
      /\ call' = Staled(u, calls)
  BY DEF Write
<1>3. account[u] \in Rows /\ expected[u] \in Rows
  BY <1>1, RowsThere DEF RowsInv
<1>4. row \in Rows
  BY <1>1, <1>3, RowMerged
<1>5. gone \in Rows
  BY <1>3, <1>4, RowSet, RowsAre DEF Columns
<1>6. kept \in Rows
  BY <1>1, <1>3, RowSet, RowsAre DEF Columns
<1>7. due \in Rows
  BY <1>5, <1>6
<1>8. ~call[c].stale => call[c].changed = {k}
  BY <1>1 DEF RowsInv, HeldRowsFollow, At
<1>9. /\ held["points"] <= expected[u]["points"]
      /\ account[u]["points"] <= expected[u]["points"]
      /\ account[u] = [expected[u] EXCEPT !["points"] = account[u]["points"]]
      /\ u \notin overlapped => account[u] = expected[u]
  BY <1>1 DEF RowsInv, HeldRowsFollow, NothingLostWithoutOverlap
<1>10. due["points"] = expected[u]["points"] /\ row["points"] <= expected[u]["points"]
  BY <1>1, <1>3, <1>4, <1>9, RowsAre DEF Columns
<1>11. row = [due EXCEPT !["points"] = row["points"]]
  <2>1. CASE call[c].stale
    BY <1>4, <2>1, RowsAre DEF Columns
  <2>2. CASE ~call[c].stale
    <3>1. \A j \in Columns \ {"points"} : account[u][j] = expected[u][j]
      BY <1>3, <1>9, RowsAre DEF Columns
    <3>2. \A j \in Columns \ {"points"} : row[j] = kept[j]
      BY <1>3, <1>8, <3>1, RowsAre, <2>2
    <3>3. due = kept
      BY <2>2
    <3> QED
      BY <1>4, <1>6, <3>2, <3>3, RowsAre DEF Columns
  <2> QED
    BY <2>1, <2>2
<1>12. ~call[c].stale /\ u \notin overlapped => row = due
  <2> SUFFICES ASSUME ~call[c].stale, u \notin overlapped PROVE row = kept
    OBVIOUS
  <2>1. \A j \in Columns : row[j] = kept[j]
    BY <1>1, <1>3, <1>8, <1>9, RowsAre
  <2> QED
    BY <1>4, <1>6, <2>1, RowsAre
<1> HIDE DEF row, gone, kept, due, calls
<1>13. /\ \A v \in Users : account'[v] = IF v = u THEN row ELSE account[v]
       /\ \A v \in Users : expected'[v] = IF v = u THEN due ELSE expected[v]
  BY <1>2 DEF RowsInv, RowsTyped
<1>14. row # NoRow /\ due # NoRow
  BY <1>4, <1>7, RowsAre
<1>15. RowsTyped'
  BY <1>1, <1>2, <1>4, <1>7, <1>14 DEF RowsInv, RowsTyped
<1>16. NothingLostWithoutOverlap'
  BY <1>2, <1>10, <1>11, <1>12, <1>13 DEF RowsInv, NothingLostWithoutOverlap
<1>17. /\ calls \in [Calls -> CallSteps]
       /\ \A d \in Calls : calls[d] = IF d = c THEN After(c) ELSE call[d]
       /\ ~Saves(After(c))
  BY <1>1, AfterTyped DEF calls, CallsTyped
<1>18. \A d \in Calls : SameCall(call'[d], calls[d], u) \/ WasLoaded(call'[d], calls[d], u)
  BY <1>2, <1>17, StaledCalls
<1>19. ASSUME NEW d \in Calls, Saves(call'[d])
       PROVE  /\ d # c /\ Saves(call[d]) /\ call'[d].user = call[d].user
              /\ call'[d].row = call[d].row /\ call'[d].column = call[d].column
              /\ ~call'[d].stale => call'[d] = call[d]
                                    /\ (call[d].user = u => call[d].step = "read")
  BY <1>17, <1>18, <1>19 DEF SameCall, WasLoaded, Saves
<1>20. \A d \in Calls : Saves(call[d]) => call[d].user \in Users
  BY Kinds DEF CallsTyped, Saves, Savings
<1>21. HeldRowsFollow'
  BY <1>10, <1>13, <1>19, <1>20 DEF RowsInv, HeldRowsFollow, At, Saves
<1> QED
  BY <1>13, <1>14, <1>15, <1>16, <1>21 DEF RowsInv, Exists

\* Points are awarded to a row that calls may hold.
LEMMA AddRows ==
    ASSUME CallsTyped, RowsInv, NEW u \in Users, AddPoints(u)
    PROVE  RowsInv' /\ \A v \in Users : Exists(v) => Exists(v)'
<1> DEFINE row == [account[u] EXCEPT !["points"] = account[u]["points"] + 1]
           due == [expected[u] EXCEPT !["points"] = expected[u]["points"] + 1]
<1>1. /\ account' = [account EXCEPT ![u] = row]
      /\ expected' = [expected EXCEPT ![u] = due]
      /\ overlapped' = overlapped /\ call' = Staled(u, call)
  BY DEF AddPoints
<1>2. account[u] \in Rows /\ expected[u] \in Rows
  BY RowsThere DEF RowsInv, AddPoints
<1>3. /\ account[u]["points"] \in Nat /\ expected[u]["points"] \in Nat
      /\ account[u]["points"] <= expected[u]["points"]
      /\ expected[u]["points"] + 1 <= MaxPoints
  <2>1. account[u]["points"] \in Nat /\ expected[u]["points"] \in Nat
    BY <1>2, RowsAre
  <2>2. account[u]["points"] <= expected[u]["points"]
    BY DEF RowsInv, NothingLostWithoutOverlap
  <2>3. expected[u]["points"] < MaxPoints
    BY DEF AddPoints
  <2> QED
    BY <2>1, <2>2, <2>3, AccountsAssumption
<1>5. row \in Rows
  BY <1>2, <1>3, AccountsAssumption DEF Rows, Columns
<1>6. due \in Rows
  BY <1>2, <1>3, AccountsAssumption DEF Rows, Columns
<1>7. /\ row["points"] = account[u]["points"] + 1
      /\ due["points"] = expected[u]["points"] + 1
      /\ \A j \in Columns \ {"points"} : row[j] = account[u][j] /\ due[j] = expected[u][j]
  BY <1>2 DEF Rows, Columns
<1>8. /\ account[u] = [expected[u] EXCEPT !["points"] = account[u]["points"]]
      /\ u \notin overlapped => account[u] = expected[u]
  BY DEF RowsInv, NothingLostWithoutOverlap
<1>9. row = [due EXCEPT !["points"] = row["points"]]
  <2>1. \A j \in Columns \ {"points"} : account[u][j] = expected[u][j]
    BY <1>2, <1>8, RowsAre DEF Columns
  <2> QED
    BY <1>5, <1>6, <1>7, <2>1, RowsAre DEF Columns
<1>10. u \notin overlapped => row = due
  BY <1>8
<1> HIDE DEF row, due
<1>11. /\ \A v \in Users : account'[v] = IF v = u THEN row ELSE account[v]
       /\ \A v \in Users : expected'[v] = IF v = u THEN due ELSE expected[v]
  BY <1>1 DEF RowsInv, RowsTyped
<1>12. row # NoRow /\ due # NoRow
  BY <1>5, <1>6, RowsAre
<1>13. RowsTyped'
  BY <1>1, <1>5, <1>6, <1>12 DEF RowsInv, RowsTyped
<1>14. row["points"] <= due["points"]
  BY <1>3, <1>7
<1>15. NothingLostWithoutOverlap'
  BY <1>1, <1>9, <1>10, <1>11, <1>14 DEF RowsInv, NothingLostWithoutOverlap
<1>16. \A d \in Calls : SameCall(call'[d], call[d], u) \/ WasLoaded(call'[d], call[d], u)
  BY <1>1, StaledCalls DEF CallsTyped
<1>17. ASSUME NEW d \in Calls, Saves(call'[d])
       PROVE  /\ Saves(call[d]) /\ call'[d].user = call[d].user
              /\ call'[d].row = call[d].row /\ call'[d].column = call[d].column
              /\ ~call'[d].stale => call'[d] = call[d]
                                    /\ (call[d].user = u => call[d].step = "read")
  BY <1>16, <1>17 DEF SameCall, WasLoaded, Saves
<1>18. \A d \in Calls : Saves(call[d]) => call[d].user \in Users /\ call[d].row["points"] \in Nat
  BY Kinds, RowsAre DEF CallsTyped, Saves, Savings
<1>19. \A d \in Calls : Saves(call'[d]) => call'[d].row["points"] <= expected'[call'[d].user]["points"]
  BY <1>3, <1>7, <1>11, <1>17, <1>18 DEF RowsInv, HeldRowsFollow, Saves
<1>20. HeldRowsFollow'
  BY <1>11, <1>17, <1>18, <1>19 DEF RowsInv, HeldRowsFollow, At, Saves
<1> QED
  BY <1>11, <1>12, <1>13, <1>15, <1>20 DEF RowsInv, Exists

\* A row is inserted, unless somebody was faster; no call holds it yet.
LEMMA CreateRows ==
    ASSUME CallsTyped, RowsInv, NEW c \in Calls, CreateUser(c)
    PROVE  /\ RowsInv' /\ \A v \in Users : Exists(v) => Exists(v)'
           /\ \/ call' = [call EXCEPT ![c] = Idle]
              \/ call' = [call EXCEPT ![c] = [step |-> "issuing", of |-> None]]
<1> DEFINE u == call[c].user
           row == [j \in Columns |-> IF j = "points" THEN 0 ELSE call[c].password]
           r == IF Exists(u) THEN Idle ELSE [step |-> "issuing", of |-> None]
<1>1. u \in Users /\ call[c].password \in Values
  BY Kinds DEF CreateUser, At, CallsTyped, Registerings
<1>2. row \in Rows /\ row # NoRow
  <2>1. call[c].password \in Nat
    BY <1>1, AccountsAssumption
  <2> DEFINE p == call[c].password
  <2>2. [j \in Columns |-> IF j = "points" THEN 0 ELSE p] \in Rows
    <3> HIDE DEF p
    <3>1. p \in Nat
      BY <2>1 DEF p
    <3> QED
      BY <3>1, AccountsAssumption DEF Rows, Columns
  <2> QED
    BY <2>2, RowsAre
<1>3. call' = [call EXCEPT ![c] = r] /\ ~Saves(r)
  BY DEF CreateUser, Become, Saves, Idle
<1>4. \A d \in Calls : call'[d] = call[d] \/ ~Saves(call'[d])
  BY <1>3 DEF CallsTyped
<1>5. CASE Exists(u)
  <2>1. UNCHANGED accountVars
    BY <1>5 DEF CreateUser, accountVars
  <2> QED
    BY <1>3, <1>4, <1>5, <2>1, RowsFrame DEF accountVars, Exists
<1>6. CASE ~Exists(u)
  <2>1. /\ account' = [account EXCEPT ![u] = row] /\ expected' = [expected EXCEPT ![u] = row]
        /\ overlapped' = overlapped
    BY <1>6 DEF CreateUser
  <2> HIDE DEF row
  <2>2. /\ \A v \in Users : account'[v] = IF v = u THEN row ELSE account[v]
        /\ \A v \in Users : expected'[v] = IF v = u THEN row ELSE expected[v]
    BY <2>1 DEF RowsInv, RowsTyped
  <2>3. RowsTyped'
    BY <1>1, <1>2, <2>1 DEF RowsInv, RowsTyped
  <2>4. row = [row EXCEPT !["points"] = row["points"]] /\ row["points"] <= row["points"]
    BY <1>2, RowsAre
  <2>5. NothingLostWithoutOverlap'
    BY <2>1, <2>2, <2>4 DEF RowsInv, NothingLostWithoutOverlap
  <2>6. \A d \in Calls : Saves(call[d]) => call[d].user \in Users \ {u}
    BY <1>6, Kinds DEF CallsTyped, HeldExists, Saves, Savings
  <2>7. HeldRowsFollow'
    BY <1>4, <2>2, <2>6 DEF RowsInv, HeldRowsFollow, At, Saves
  <2> QED
    BY <1>2, <1>3, <1>6, <2>2, <2>3, <2>5, <2>7 DEF RowsInv, Exists
<1> QED
  BY <1>5, <1>6

-----------------------------------------------------------------------------
(* Steps on the sessions.                                                  *)

\* The first token of a session has been issued.
LEMMA FirstIssued == ASSUME NEW t \in First PROVE t \in Issued
  BY AccountsAssumption DEF First, Issued

\* The token that a call holds has been issued.
LEMMA InSessionCall ==
    ASSUME CallsTyped, NEW c \in Calls
    PROVE  /\ At(c, "issuing") => call[c].of \in First \cup {None}
           /\ call[c].step \in {"refreshing", "leaving"} => call[c].token \in Issued
  BY DEF CallsTyped, HeldExists, At

\* IssueTokens preserves the facts about sessions, and tokens only grow.
LEMMA IssueSessions ==
    ASSUME CallsTyped, SessionsInv, NEW c \in Calls, IssueTokens(c)
    PROVE  SessionsInv' /\ Issued \subseteq Issued' /\ First \subseteq First'
<1>1. PICK t \in RefreshIds :
        /\ session[t] = None
        /\ session' = [session EXCEPT ![t] = IF call[c].of = None THEN t ELSE call[c].of]
  BY DEF IssueTokens
<1> DEFINE s == IF call[c].of = None THEN t ELSE call[c].of
<1>2. /\ call[c].of \in First \cup {None} /\ At(c, "issuing")
      /\ UNCHANGED <<revoked, raced, left>>
      /\ \A d \in Calls : call'[d] = IF d = c THEN Idle ELSE call[d]
  BY InSessionCall DEF IssueTokens, Become, CallsTyped
<1>3. \A x \in RefreshIds : session'[x] = IF x = t THEN s ELSE session[x]
  BY <1>1 DEF SessionsInv, SessionsTyped
<1>4. /\ t \notin Issued /\ t # None /\ s # None
      /\ s = t \/ s \in First
  BY <1>1, <1>2, AccountsAssumption DEF Issued, First
<1>5. s = t <=> call[c].of = None
  BY <1>2, <1>4, FirstIssued
<1> HIDE DEF s
<1>6. Issued' = Issued \cup {t}
  BY <1>3, <1>4 DEF Issued
<1>7. First \subseteq First' /\ s \in First'
  BY <1>3, <1>4, FirstIssued DEF First
<1>8. session' \in [RefreshIds -> RefreshIds \cup {None}]
  BY <1>1, <1>4 DEF SessionsInv, SessionsTyped, First, s
<1>9. SessionsTyped'
  BY <1>2, <1>3, <1>6, <1>7, <1>8 DEF SessionsInv, SessionsTyped, Issued
<1>10. ASSUME NEW x \in Issued' \ raced'
       PROVE  /\ AtMostOne(Live(x)') /\ AtMostOne(Rotating(x)')
              /\ Live(x)' = {} \/ Rotating(x)' = {}
              /\ x \in left' => Live(x)' = {} /\ Rotating(x)' = {}
  <2>1. Rotating(x)' = Rotating(x) \ {c}
    BY <1>2 DEF Rotating, At, Idle
  <2>2. CASE x = t
    <3>1. Rotating(x) = {}
      BY <1>4, <2>2, InSessionCall, FirstIssued, AccountsAssumption DEF Rotating
    <3>2. Live(x)' \subseteq {t}
      <4>1. \A y \in Issued : session[y] \in Issued
        BY FirstIssued DEF SessionsInv, SessionsTyped
      <4> QED
        BY <1>3, <1>4, <1>6, <2>2, <4>1 DEF Live, Issued
    <3>3. x \notin left'
      BY <1>2, <1>4, <2>2 DEF SessionsInv, SessionsTyped
    <3> QED
      BY <2>1, <3>1, <3>2, <3>3 DEF AtMostOne
  <2>3. CASE x # t
    <3>1. x \in Issued \ raced
      BY <1>2, <1>6, <2>3
    <3>2. /\ AtMostOne(Live(x)) /\ AtMostOne(Rotating(x))
          /\ Live(x) = {} \/ Rotating(x) = {}
          /\ x \in left => Live(x) = {} /\ Rotating(x) = {}
      BY <3>1 DEF SessionsInv, SessionsFollowRotation
    <3>3. Live(x)' = IF x = s THEN Live(x) \cup {t} ELSE Live(x)
      BY <1>2, <1>3, <1>4, <1>6 DEF Live, SessionsInv, SessionsTyped, Issued
    <3>4. x = s => c \in Rotating(x)
      BY <1>2, <1>5, <2>3 DEF Rotating, s
    <3> QED
      BY <1>2, <2>1, <3>2, <3>3, <3>4 DEF AtMostOne
  <2> QED
    BY <2>2, <2>3
<1>11. SessionsFollowRotation'
  BY <1>10 DEF SessionsFollowRotation
<1>12. \A d \in Calls : call[d].step \in {"refreshing", "leaving"}
          => call[d].token \in RefreshIds /\ call[d].token # t
  BY <1>4, InSessionCall DEF Issued
<1>13. HeldTokensLive'
  BY <1>2, <1>3, <1>12 DEF SessionsInv, HeldTokensLive, At, Holds, Idle
<1> QED
  BY <1>6, <1>7, <1>9, <1>11, <1>13 DEF SessionsInv

\* A call finds a token, and is alone with it or races.
LEMMA FindSessions ==
    ASSUME CallsTyped, SessionsInv, NEW c \in Calls, NEW t \in RefreshIds,
           NEW step \in {"refreshing", "leaving"}, FindActive(c, t, step)
    PROVE  SessionsInv'
<1>1. /\ session[t] # None /\ t \notin revoked /\ UNCHANGED <<session, revoked, left>>
      /\ \A d \in Calls : call'[d] = IF d = c THEN [step |-> step, token |-> t] ELSE call[d]
      /\ raced \subseteq raced' /\ raced' \subseteq raced \cup {session[t]}
      /\ At(c, "idle")
  BY DEF FindActive, Become, CallsTyped
<1>2. t \in Issued /\ session[t] \in Issued
  BY <1>1, FirstIssued DEF SessionsInv, SessionsTyped, Issued
<1>3. SessionsTyped'
  BY <1>1, <1>2 DEF SessionsInv, SessionsTyped, Issued, First
<1>4. ASSUME NEW s \in Issued \ raced
      PROVE  Live(s)' = Live(s) /\ Rotating(s)' = Rotating(s)
  BY <1>1 DEF Live, Issued, Rotating, At
<1>5. SessionsFollowRotation'
  BY <1>1, <1>4 DEF SessionsInv, SessionsFollowRotation, AtMostOne, Issued
<1>6. \A d \in Calls : session[t] \notin raced' /\ Holds(d, t)
          => step = "leaving" /\ call[d].step = "leaving"
  BY DEF FindActive, Holds
<1>7. HeldTokensLive'
  <2> SUFFICES ASSUME NEW d \in Calls, session[call'[d].token] \notin raced'
               PROVE  /\ call'[d].step = "refreshing" =>
                            /\ call'[d].token \notin revoked
                            /\ \A e \in Calls : Holds(e, call[d].token)' => e = d
                      /\ call'[d].step = "leaving" =>
                            call'[d].token \notin revoked \/ session[call'[d].token] \in left
    BY <1>1 DEF HeldTokensLive, At
  <2>1. CASE d = c
    <3>1. call'[d].token = t /\ call'[d].step = step
      BY <1>1, <2>1
    <3>2. \A e \in Calls : e # c => (Holds(e, call[d].token)' <=> Holds(e, t))
      BY <1>1, <3>1 DEF Holds
    <3> QED
      BY <1>1, <1>6, <2>1, <3>1, <3>2
  <2>2. CASE d # c
    <3>1. call'[d] = call[d] /\ session[call[d].token] \notin raced
      BY <1>1, <2>2
    <3>2. Holds(c, call[d].token)' <=> call[d].token = t
      BY <1>1, <3>1 DEF Holds
    <3>3. \A e \in Calls : e # c => (Holds(e, call[d].token)' <=> Holds(e, call[d].token))
      BY <1>1, <3>1 DEF Holds
    <3>4. call[d].step = "refreshing" /\ call[d].token = t => FALSE
      BY <1>6, <3>1 DEF Holds
    <3> QED
      BY <3>1, <3>2, <3>3, <3>4 DEF SessionsInv, HeldTokensLive, At
  <2> QED
    BY <2>1, <2>2
<1> QED
  BY <1>3, <1>5, <1>7 DEF SessionsInv

\* The token is revoked, for another or for good.
LEMMA RevokeSessions ==
    ASSUME CallsTyped, SessionsInv, NEW c \in Calls, Rotate(c) \/ Leave(c)
    PROVE  SessionsInv' /\ session[call[c].token] \in First
<1> DEFINE t == call[c].token
           s == session[t]
           r == call'[c]
<1>1. /\ t \in Issued /\ s \in First /\ s \in Issued /\ s # None
  BY InSessionCall, FirstIssued DEF Rotate, Leave, At, SessionsInv, SessionsTyped, Issued
<1>2. /\ UNCHANGED <<session, raced>> /\ revoked' = revoked \cup {t}
      /\ \A d \in Calls \ {c} : call'[d] = call[d]
      /\ Holds(c, t)
  BY DEF Rotate, Leave, Become, CallsTyped, Holds, At
<1>3. \/ /\ At(c, "refreshing") /\ left' = left
         /\ call'[c] = [step |-> "issuing", of |-> s]
      \/ At(c, "leaving") /\ left' = left \cup {s} /\ call'[c] = Idle
  BY DEF Rotate, Leave, Become, CallsTyped
<1>4. SessionsTyped'
  BY <1>1, <1>2, <1>3 DEF SessionsInv, SessionsTyped, Issued, First
<1> HIDE DEF t
<1>5. t \notin revoked => t \in Live(s)
  BY <1>1 DEF Live
<1>6. ASSUME NEW x \in Issued \ raced
      PROVE  /\ AtMostOne(Live(x)') /\ AtMostOne(Rotating(x)')
             /\ Live(x)' = {} \/ Rotating(x)' = {}
             /\ x \in left' => Live(x)' = {} /\ Rotating(x)' = {}
  <2>1. /\ AtMostOne(Live(x)) /\ AtMostOne(Rotating(x))
        /\ Live(x) = {} \/ Rotating(x) = {}
        /\ x \in left => Live(x) = {} /\ Rotating(x) = {}
    BY DEF SessionsInv, SessionsFollowRotation
  <2>2. Live(x)' = Live(x) \ {t}
    BY <1>2 DEF Live, Issued
  <2>3. c \notin Rotating(x)
    BY <1>3 DEF Rotating, At
  <2>4. Rotating(x)' = IF x = s /\ At(c, "refreshing") THEN Rotating(x) \cup {c} ELSE Rotating(x)
    BY <1>2, <1>3, <2>3 DEF Rotating, At, Idle
  <2>5. CASE x = s
    <3>1. /\ At(c, "refreshing") => t \notin revoked
          /\ At(c, "leaving") => t \notin revoked \/ s \in left
      BY <2>5 DEF SessionsInv, HeldTokensLive, t
    <3>2. At(c, "refreshing") => s \notin left'
      BY <1>3, <1>5, <2>1, <2>5, <3>1 DEF At
    <3> QED
      BY <1>3, <1>5, <2>1, <2>2, <2>4, <2>5, <3>1, <3>2 DEF AtMostOne, At
  <2>6. CASE x # s
    BY <1>3, <2>1, <2>2, <2>4, <2>6 DEF AtMostOne
  <2> QED
    BY <2>5, <2>6
<1>7. SessionsFollowRotation'
  <2>1. Issued' = Issued
    BY <1>2 DEF Issued
  <2> QED
    BY <1>2, <1>6, <2>1 DEF SessionsFollowRotation
<1>8. HeldTokensLive'
  <2> SUFFICES ASSUME NEW d \in Calls, session[call'[d].token] \notin raced, d # c
               PROVE  /\ call[d].step = "refreshing" =>
                            /\ call[d].token \notin revoked'
                            /\ \A e \in Calls : Holds(e, call[d].token)' => e = d
                      /\ call[d].step = "leaving" =>
                            call[d].token \notin revoked' \/ session[call[d].token] \in left'
    BY <1>2, <1>3 DEF HeldTokensLive, At, Idle
  <2>1. call'[d] = call[d]
    BY <1>2
  <2>2. \A e \in Calls : Holds(e, call[d].token)' => Holds(e, call[d].token)
    BY <1>2, <1>3, <2>1 DEF Holds, Idle
  <2>3. call[d].step \in {"refreshing", "leaving"} /\ call[d].token = t => Holds(d, t)
    BY DEF Holds
  <2>4. At(c, "refreshing") /\ session[t] \notin raced => \A e \in Calls : Holds(e, t) => e = c
    BY DEF SessionsInv, HeldTokensLive, t
  <2>5. CASE call[d].token = t
    BY <1>2, <1>3, <2>1, <2>2, <2>3, <2>4, <2>5 DEF SessionsInv, HeldTokensLive, At
  <2>6. CASE call[d].token # t
    BY <1>2, <1>3, <2>1, <2>2, <2>6 DEF SessionsInv, HeldTokensLive, At
  <2> QED
    BY <2>5, <2>6
<1> QED
  BY <1>1, <1>4, <1>7, <1>8 DEF SessionsInv, t

-----------------------------------------------------------------------------
(* Steps on the reset tokens.                                              *)

\* What to show of a step for the facts about reset tokens.
LEMMA ResetFactsThen ==
    ASSUME ResetsTyped', \A t \in ResetIds \ excused' : ResetFact(t)'
    PROVE  ResetsInv'
  BY DEF ResetsTyped, ResetFact, ResetsInv, ResetOnce, HeldResetsUnused,
     InReset, Marks, Resetting, At, AtMostOne

\* The token is found unused.
LEMMA FindResets ==
    ASSUME CallsTyped, ResetsInv, NEW c \in Calls, NEW t \in ResetIds, ResetPassword(c, t)
    PROVE  ResetsInv'
<1> DEFINE r == [step |-> "resetting", user |-> resetFor[t], reset |-> t]
<1>1. /\ At(c, "idle") /\ t \notin used /\ UNCHANGED <<resetFor, used, resets>>
      /\ \A d \in Calls : call'[d] = IF d = c THEN r ELSE call[d]
      /\ excused' = IF \E d \in Calls : InReset(call[d], t) THEN excused \cup {t} ELSE excused
  BY DEF ResetPassword, Become, CallsTyped, Resetting, InReset
<1>2. /\ \A x \in ResetIds : InReset(r, x) <=> x = t
      /\ \A x \in ResetIds : ~Marks(r, x) /\ ~InReset(call[c], x) /\ ~Marks(call[c], x)
  BY <1>1 DEF InReset, Marks, At
<1> HIDE DEF r
<1>3. ASSUME NEW x \in ResetIds \ excused' PROVE ResetFact(x)'
  <2>1. ResetFact(x)
    BY <1>1, ResetFacts
  <2>2. CASE x = t
    <3>1. \A d \in Calls : ~InReset(call[d], t) /\ ~Marks(call[d], t)
      BY <1>1, <2>2 DEF Marks, InReset
    <3>2. \A d \in Calls : InReset(call'[d], t) => d = c
      BY <1>1, <3>1
    <3>3. resets[t] = 0
      BY <1>1, <2>1, <2>2, <3>1 DEF ResetFact
    <3> QED
      BY <1>1, <2>2, <3>2, <3>3 DEF ResetFact
  <2>3. CASE x # t
    BY <1>1, <1>2, <2>1, <2>3, ResetKept
  <2> QED
    BY <2>2, <2>3
<1>4. ResetsTyped'
  BY <1>1 DEF ResetsInv, ResetsTyped
<1> QED
  BY <1>3, <1>4, ResetFactsThen

\* The reset token of a call is one, or none.
LEMMA ResetOfCall ==
    ASSUME CallsTyped, NEW c \in Calls
    PROVE  /\ call[c].step \in {"loaded", "read"} => call[c].reset \in ResetIds \cup {None}
           /\ call[c].step \in {"resetting", "marking"} => call[c].reset \in ResetIds
  BY Kinds DEF CallsTyped, Savings, Resettings, Markings

\* The password is written, which counts for the token.
LEMMA WriteResets ==
    ASSUME CallsTyped, ResetsInv, NEW c \in Calls, Write(c)
    PROVE  ResetsInv'
<1> DEFINE t == call[c].reset
           calls == [call EXCEPT ![c] = After(c)]
<1>1. /\ At(c, "read") /\ t \in ResetIds \cup {None} /\ UNCHANGED <<resetFor, used, excused>>
      /\ call' = Staled(call[c].user, calls)
      /\ resets' = IF t = None THEN resets ELSE [resets EXCEPT ![t] = Again(resets[t])]
  BY ResetOfCall DEF Write, At
<1>2. /\ calls \in [Calls -> CallSteps]
      /\ \A d \in Calls : calls[d] = IF d = c THEN After(c) ELSE call[d]
  BY <1>1, AfterTyped DEF CallsTyped
<1>3. \A d \in Calls : SameCall(call'[d], calls[d], call[c].user)
                       \/ WasLoaded(call'[d], calls[d], call[c].user)
  BY <1>1, <1>2, StaledCalls
<1> HIDE DEF calls
<1>4. \A d \in Calls : \A x \in ResetIds :
        /\ InReset(call'[d], x) <=> InReset(calls[d], x)
        /\ Marks(call'[d], x) <=> Marks(calls[d], x)
  BY <1>3 DEF SameCall, WasLoaded, InReset, Marks
<1>5. After(c) = IF t = None THEN Idle ELSE [step |-> "marking", reset |-> t]
  BY DEF After
<1>6. \A x \in ResetIds : /\ InReset(call[c], x) <=> x = t
                          /\ InReset(After(c), x) <=> x = t
                          /\ Marks(After(c), x) <=> x = t
                          /\ ~Marks(call[c], x)
  BY <1>1, <1>5, AccountsAssumption DEF InReset, Marks, At, Idle
<1>7. resets \in [ResetIds -> 0..2]
  BY DEF ResetsInv, ResetsTyped
<1>8. ResetsTyped'
  BY <1>1, <1>7 DEF ResetsInv, ResetsTyped, Again
<1> HIDE DEF t
<1>9. ASSUME NEW x \in ResetIds \ excused' PROVE ResetFact(x)'
  <2>1. ResetFact(x)
    BY <1>1, ResetFacts
  <2>2. CASE x = t
    <3>1. \A d \in Calls : InReset(call[d], x) => d = c
      BY <1>6, <2>1, <2>2 DEF ResetFact
    <3>2. \A d \in Calls : ~Marks(call[d], x)
      BY <1>6, <2>2, <3>1 DEF Marks, InReset
    <3>3. x \notin used /\ resets[x] = 0
      BY <1>6, <2>1, <2>2, <3>2 DEF ResetFact
    <3>4. resets'[x] = 1
      BY <1>1, <1>7, <2>2, <3>3, AccountsAssumption DEF Again
    <3>5. \A d \in Calls : InReset(call'[d], x) => d = c
      BY <1>2, <1>4, <3>1
    <3>6. Marks(call'[c], x)
      BY <1>2, <1>4, <1>6, <2>2
    <3> QED
      BY <1>1, <3>3, <3>4, <3>5, <3>6 DEF ResetFact
  <2>3. CASE x # t
    <3>1. resets'[x] = resets[x]
      BY <1>1, <1>7, <2>3
    <3> QED
      BY <1>1, <1>2, <1>4, <1>6, <2>1, <2>3, <3>1, ResetKept
  <2> QED
    BY <2>2, <2>3
<1> QED
  BY <1>8, <1>9, ResetFactsThen

\* MarkUsed preserves the facts about reset tokens.
LEMMA MarkResets ==
    ASSUME CallsTyped, ResetsInv, NEW c \in Calls, MarkUsed(c)
    PROVE  ResetsInv'
<1> DEFINE t == call[c].reset
<1>1. /\ At(c, "marking") /\ t \in ResetIds /\ UNCHANGED <<resetFor, resets, excused>>
      /\ used' = used \cup {t}
      /\ \A d \in Calls : call'[d] = IF d = c THEN Idle ELSE call[d]
  BY ResetOfCall DEF MarkUsed, Become, CallsTyped, At
<1>2. \A x \in ResetIds : /\ ~InReset(Idle, x) /\ ~Marks(Idle, x)
                          /\ InReset(call[c], x) <=> x = t
                          /\ Marks(call[c], x) <=> x = t
  BY <1>1 DEF InReset, Marks, Idle, At
<1> HIDE DEF t
<1>3. ASSUME NEW x \in ResetIds \ excused' PROVE ResetFact(x)'
  <2>1. ResetFact(x)
    BY <1>1, ResetFacts
  <2>2. CASE x = t
    BY <1>1, <1>2, <2>1, <2>2 DEF ResetFact
  <2>3. CASE x # t
    BY <1>1, <1>2, <2>1, <2>3, ResetKept
  <2> QED
    BY <2>2, <2>3
<1>4. ResetsTyped'
  BY <1>1 DEF ResetsInv, ResetsTyped
<1> QED
  BY <1>3, <1>4, ResetFactsThen

-----------------------------------------------------------------------------
(* All steps.                                                              *)

\* A call moves on, and leaves alone what its new state is not about.
LEMMA Quiet ==
    ASSUME AccountsInv, NEW c \in Calls, NEW r \in CallSteps, call' = [call EXCEPT ![c] = r]
    PROVE  /\ UNCHANGED accountVars /\ ~Saves(r) => RowsInv'
           /\ UNCHANGED sessionVars /\ ~InSession(r) => SessionsInv'
           /\ /\ UNCHANGED <<resetFor, used, resets>> /\ excused \subseteq excused'
              /\ excused' \subseteq ResetIds
              /\ \A t \in ResetIds \ excused' : /\ InReset(r, t) => InReset(call[c], t)
                                                /\ Marks(call[c], t) => Marks(r, t)
              => ResetsInv'
<1>1. \A d \in Calls : call'[d] = IF d = c THEN r ELSE call[d]
  BY DEF AccountsInv, CallsTyped
<1>2. UNCHANGED accountVars /\ ~Saves(r) => RowsInv'
  BY <1>1, RowsFrame DEF AccountsInv
<1>3. UNCHANGED sessionVars /\ ~InSession(r) => SessionsInv'
  BY <1>1, SessionsFrame DEF AccountsInv
<1>4. ASSUME UNCHANGED <<resetFor, used, resets>>, excused \subseteq excused',
             excused' \subseteq ResetIds,
             \A t \in ResetIds \ excused' : /\ InReset(r, t) => InReset(call[c], t)
                                            /\ Marks(call[c], t) => Marks(r, t)
      PROVE  ResetsInv'
  <2>1. ResetsTyped'
    BY <1>4 DEF AccountsInv, ResetsInv, ResetsTyped
  <2>2. ASSUME NEW d \in Calls, NEW t \in ResetIds \ excused'
        PROVE  /\ InReset(call'[d], t) => InReset(call[d], t)
               /\ Marks(call[d], t) => Marks(call'[d], t)
    <3>1. CASE d = c
      <4>1. call'[d] = r /\ call[d] = call[c]
        BY <1>1, <3>1
      <4>2. (InReset(r, t) => InReset(call[c], t)) /\ (Marks(call[c], t) => Marks(r, t))
        BY <1>4
      <4> QED
        BY <4>1, <4>2
    <3>2. CASE d # c
      BY <1>1, <3>2
    <3> QED
      BY <3>1, <3>2
  <2> QED
    BY <1>4, <2>1, <2>2, ResetsFrame DEF AccountsInv
<1> QED
  BY <1>2, <1>3, <1>4

\* A step that changes no row removes no user, one that changes no token no session.
LEMMA GrowsAlone ==
    /\ UNCHANGED account => \A u \in Users : Exists(u) => Exists(u)'
    /\ UNCHANGED session => Issued \subseteq Issued' /\ First \subseteq First'
  BY DEF Exists, Issued, First

\* The states in which calls begin are states of a call.
LEMMA NewCalls ==
    /\ Idle \in CallSteps /\ HeldExists(Idle)
    /\ \A u \in Users, v \in Values :
          [step |-> "registering", user |-> u, password |-> v] \in CallSteps
    /\ \A t \in RefreshIds \cup {None} : [step |-> "issuing", of |-> t] \in CallSteps
    /\ \A step \in {"refreshing", "leaving"}, t \in RefreshIds :
          [step |-> step, token |-> t] \in CallSteps
    /\ \A u \in Users, t \in ResetIds :
          [step |-> "resetting", user |-> u, reset |-> t] \in CallSteps
<1>1. Idle \in CallSteps /\ HeldExists(Idle)
  BY Parts DEF Idle, Idles, HeldExists
<1>2. \A u \in Users, v \in Values :
          [step |-> "registering", user |-> u, password |-> v] \in CallSteps
  BY Parts DEF Registerings
<1>3. \A t \in RefreshIds \cup {None} : [step |-> "issuing", of |-> t] \in CallSteps
  BY Parts DEF Issuings
<1>4. \A step \in {"refreshing", "leaving"}, t \in RefreshIds :
          [step |-> step, token |-> t] \in CallSteps
  BY Parts DEF Holdings
<1>5. \A u \in Users, t \in ResetIds :
          [step |-> "resetting", user |-> u, reset |-> t] \in CallSteps
  BY Parts DEF Resettings
<1> QED
  BY <1>1, <1>2, <1>3, <1>4, <1>5

\* The steps that load, read and save rows preserve the invariant.
LEMMA RowSteps ==
    ASSUME AccountsInv, NEW c \in Calls,
           \/ \E u \in Users, v \in Values : UpdateProfile(c, u, v) \/ Register(c, u, v)
           \/ \E v \in Values : SetPassword(c, v)
           \/ ReadAgain(c) \/ Write(c) \/ CreateUser(c)
    PROVE  AccountsInv'
<1> USE DEF accountVars, sessionVars, resetVars
<1>0. call \in [Calls -> CallSteps] /\ RowsInv /\ RowsTyped
  BY DEF AccountsInv, CallsTyped, RowsInv
<1>1. ASSUME NEW u \in Users, NEW v \in Values, UpdateProfile(c, u, v)
      PROVE  AccountsInv'
  <2>0. PICK r : r = Saving(u, "profile", v, None)
    OBVIOUS
  <2>1. /\ Exists(u) /\ call' = [call EXCEPT ![c] = r]
        /\ UNCHANGED <<accountVars, sessionVars, resetVars>>
    BY <1>1, <2>0 DEF UpdateProfile, Become
  <2>2. r \in CallSteps /\ r.step = "loaded" /\ r.user = u /\ r.reset = None
    BY <1>0, <2>0, <2>1, SavingTyped
  <2>3. RowsInv'
    BY <1>0, <2>0, <2>1, LoadRows
  <2>4. HeldExists(r)' /\ Grows
    BY <2>1, <2>2, GrowsAlone DEF HeldExists, Grows, Exists
  <2>5. CallsTyped'
    BY <2>1, <2>2, <2>4, CallMoves DEF AccountsInv
  <2>6. /\ ~InSession(r)
        /\ \A t \in ResetIds : ~InReset(r, t) /\ (At(c, "idle") => ~Marks(call[c], t))
    BY <2>2, AccountsAssumption DEF InSession, InReset, Marks, At
  <2>7. At(c, "idle") /\ excused' \subseteq ResetIds
    BY <1>1, <2>1 DEF UpdateProfile, AccountsInv, ResetsInv, ResetsTyped
  <2> QED
    BY <2>1, <2>2, <2>3, <2>5, <2>6, <2>7, Quiet DEF AccountsInv
<1>2. ASSUME NEW u \in Users, NEW v \in Values, Register(c, u, v)
      PROVE  AccountsInv'
  <2> DEFINE r == [step |-> "registering", user |-> u, password |-> v]
  <2>1. /\ call' = [call EXCEPT ![c] = r] /\ At(c, "idle")
        /\ UNCHANGED <<accountVars, sessionVars, resetVars>>
    BY <1>2 DEF Register, Become
  <2>2. r \in CallSteps /\ r.step = "registering"
    BY NewCalls
  <2> HIDE DEF r
  <2>3. HeldExists(r)' /\ Grows
    BY <2>1, <2>2, GrowsAlone DEF HeldExists, Grows
  <2>4. CallsTyped'
    BY <2>1, <2>2, <2>3, CallMoves DEF AccountsInv
  <2>5. /\ ~InSession(r) /\ ~Saves(r) /\ excused' \subseteq ResetIds
        /\ \A t \in ResetIds : ~InReset(r, t) /\ ~Marks(call[c], t)
    BY <2>1, <2>2 DEF InSession, InReset, Marks, At, Saves, AccountsInv, ResetsInv, ResetsTyped
  <2> QED
    BY <2>1, <2>2, <2>4, <2>5, Quiet DEF AccountsInv
<1>3. ASSUME NEW v \in Values, SetPassword(c, v)
      PROVE  AccountsInv'
  <2> DEFINE u == call[c].user
             t == call[c].reset
  <2>0. PICK r : r = Saving(u, "password", v, t)
    OBVIOUS
  <2>1. /\ call' = [call EXCEPT ![c] = r] /\ At(c, "resetting")
        /\ UNCHANGED <<accountVars, sessionVars, resetVars>>
    BY <1>3, <2>0 DEF SetPassword, Become
  <2>2. u \in Users /\ t \in ResetIds /\ Exists(u)
    BY <2>1, Kinds DEF AccountsInv, CallsTyped, HeldExists, Resettings, At
  <2>3. r \in CallSteps /\ r.step = "loaded" /\ r.user = u /\ r.reset = t
    BY <1>0, <2>0, <2>2, SavingTyped
  <2>4. RowsInv'
    BY <1>0, <2>0, <2>1, <2>2, LoadRows
  <2>5. HeldExists(r)' /\ Grows
    BY <2>1, <2>2, <2>3, GrowsAlone DEF HeldExists, Grows, Exists
  <2>6. CallsTyped'
    BY <2>1, <2>3, <2>5, CallMoves DEF AccountsInv
  <2>7. /\ ~InSession(r) /\ excused' \subseteq ResetIds
        /\ \A x \in ResetIds : (InReset(r, x) => InReset(call[c], x)) /\ ~Marks(call[c], x)
    BY <2>1, <2>3 DEF InSession, InReset, Marks, At, AccountsInv, ResetsInv, ResetsTyped
  <2> QED
    BY <2>1, <2>3, <2>4, <2>6, <2>7, Quiet DEF AccountsInv
<1>4. CASE ReadAgain(c)
  <2>0. PICK r : r = call'[c]
    OBVIOUS
  <2>1. /\ r \in CallSteps /\ call' = [call EXCEPT ![c] = r] /\ RowsInv'
        /\ \/ r = Idle
           \/ r = [step |-> "marking", reset |-> call[c].reset]
           \/ r.step = "read" /\ r.user = call[c].user /\ r.reset = call[c].reset
    BY <1>0, <1>4, <2>0, ReadAgainRows DEF AccountsInv
  <2>2. At(c, "loaded") /\ UNCHANGED <<accountVars, sessionVars, resetVars>>
    BY <1>4 DEF ReadAgain
  <2>3. Exists(call[c].user)
    BY <2>2 DEF AccountsInv, CallsTyped, HeldExists, At
  <2>4. HeldExists(r)' /\ Grows
    BY <2>1, <2>2, <2>3, GrowsAlone DEF HeldExists, Grows, Exists, Idle
  <2>5. CallsTyped'
    BY <2>1, <2>4, CallMoves DEF AccountsInv
  <2>6. /\ ~InSession(r) /\ excused' \subseteq ResetIds
        /\ \A x \in ResetIds : (InReset(r, x) => InReset(call[c], x)) /\ ~Marks(call[c], x)
    BY <2>1, <2>2 DEF InSession, InReset, Marks, At, Idle, AccountsInv, ResetsInv, ResetsTyped
  <2> QED
    BY <2>1, <2>2, <2>5, <2>6, Quiet DEF AccountsInv
<1>5. CASE Write(c)
  <2> DEFINE calls == [call EXCEPT ![c] = After(c)]
             u == call[c].user
  <2>1. /\ call' = Staled(u, calls) /\ At(c, "read") /\ UNCHANGED sessionVars
    BY <1>5 DEF Write
  <2>2. RowsInv' /\ Grows
    BY <1>0, <1>5, <2>1, WriteRows, GrowsAlone DEF AccountsInv, Grows
  <2>3. /\ calls \in [Calls -> CallSteps]
        /\ \A d \in Calls : calls[d] = IF d = c THEN After(c) ELSE call[d]
        /\ After(c).step \in {"idle", "marking"}
    BY <1>0, <2>1, ResetOfCall, AfterTyped DEF AccountsInv, At
  <2>4. PICK held : held = calls
    OBVIOUS
  <2> HIDE DEF calls
  <2>5. ASSUME NEW d \in Calls PROVE HeldExists(held[d])'
    <3>1. \A q \in CallSteps : HeldExists(q) => HeldExists(q)'
      BY <2>2, HeldStays
    <3>2. held[d] \in CallSteps /\ HeldExists(held[d])
      BY <2>3, <2>4 DEF HeldExists, AccountsInv, CallsTyped
    <3> QED
      BY <3>1, <3>2
  <2>6. CallsTyped'
    BY <2>1, <2>2, <2>3, <2>4, <2>5, StaledTyped
  <2>7. \A d \in Calls : call'[d] = call[d] \/ ~InSession(call'[d])
    <3>1. \A d \in Calls : SameCall(call'[d], calls[d], u) \/ WasLoaded(call'[d], calls[d], u)
      BY <2>1, <2>3, StaledCalls
    <3> QED
      BY <2>3, <3>1 DEF SameCall, WasLoaded, InSession
  <2>8. SessionsInv'
    BY <2>1, <2>7, SessionsFrame DEF AccountsInv
  <2>9. ResetsInv'
    BY <1>5, WriteResets DEF AccountsInv
  <2> QED
    BY <2>2, <2>6, <2>8, <2>9 DEF AccountsInv
<1>6. CASE CreateUser(c)
  <2>1. PICK r \in CallSteps : call' = [call EXCEPT ![c] = r]
                              /\ (r = Idle \/ r = [step |-> "issuing", of |-> None])
    BY <1>0, <1>6, CreateRows, NewCalls DEF AccountsInv
  <2>2. /\ RowsInv' /\ Grows /\ UNCHANGED <<sessionVars, resetVars>>
    BY <1>0, <1>6, CreateRows, GrowsAlone DEF AccountsInv, Grows, CreateUser
  <2>3. HeldExists(r)' /\ ~InSession(r)
    BY <2>1 DEF HeldExists, InSession, Idle
  <2>4. CallsTyped'
    BY <2>1, <2>2, <2>3, CallMoves DEF AccountsInv
  <2>5. /\ At(c, "registering") /\ excused' \subseteq ResetIds
        /\ \A x \in ResetIds : ~InReset(r, x) /\ ~Marks(call[c], x)
    BY <1>6, <2>1, <2>2 DEF CreateUser, InReset, Marks, At, Idle, AccountsInv, ResetsInv, ResetsTyped
  <2> QED
    BY <2>1, <2>2, <2>3, <2>4, <2>5, Quiet DEF AccountsInv
<1> QED
  BY <1>1, <1>2, <1>3, <1>4, <1>5, <1>6

\* The steps of logins, refreshes and logouts preserve it.
LEMMA SessionSteps ==
    ASSUME AccountsInv, NEW c \in Calls,
           \/ \E u \in Users : Login(c, u)
           \/ \E t \in RefreshIds : Refresh(c, t) \/ Logout(c, t)
           \/ IssueTokens(c) \/ Rotate(c) \/ Leave(c)
    PROVE  AccountsInv'
<1>1. PICK r \in CallSteps :
        /\ call' = [call EXCEPT ![c] = r] /\ HeldExists(r)' /\ ~Saves(r)
        /\ \A t \in ResetIds : ~InReset(r, t) /\ ~Marks(call[c], t)
        /\ UNCHANGED <<accountVars, resetVars>>
        /\ SessionsInv' /\ Issued \subseteq Issued' /\ First \subseteq First'
  <2> USE DEF Become
  <2>1. ASSUME NEW u \in Users, Login(c, u)
        PROVE  \E r \in CallSteps :
                 /\ call' = [call EXCEPT ![c] = r] /\ HeldExists(r)' /\ ~Saves(r)
                 /\ \A t \in ResetIds : ~InReset(r, t) /\ ~Marks(call[c], t)
                 /\ UNCHANGED <<accountVars, resetVars>>
                 /\ SessionsInv' /\ Issued \subseteq Issued' /\ First \subseteq First'
    <3> DEFINE r == [step |-> "issuing", of |-> None]
    <3>1. r \in CallSteps /\ HeldExists(r)' /\ ~InSession(r)
      BY NewCalls DEF HeldExists, InSession
    <3>2. /\ call' = [call EXCEPT ![c] = r] /\ At(c, "idle")
          /\ UNCHANGED <<accountVars, sessionVars, resetVars>>
      BY <2>1 DEF Login
    <3>3. SessionsInv'
      BY <3>1, <3>2, Quiet
    <3>4. ~Saves(r) /\ \A t \in ResetIds : ~InReset(r, t) /\ ~Marks(call[c], t)
      BY <3>2 DEF Saves, InReset, Marks, At
    <3> HIDE DEF r
    <3> QED
      BY <3>1, <3>2, <3>3, <3>4, GrowsAlone DEF sessionVars
  <2>2. ASSUME NEW t \in RefreshIds, NEW step \in {"refreshing", "leaving"}, FindActive(c, t, step)
        PROVE  \E r \in CallSteps :
                 /\ call' = [call EXCEPT ![c] = r] /\ HeldExists(r)' /\ ~Saves(r)
                 /\ \A x \in ResetIds : ~InReset(r, x) /\ ~Marks(call[c], x)
                 /\ UNCHANGED <<accountVars, resetVars>>
                 /\ SessionsInv' /\ Issued \subseteq Issued' /\ First \subseteq First'
    <3> DEFINE r == [step |-> step, token |-> t]
    <3>1. r \in CallSteps /\ ~Saves(r) /\ \A x \in ResetIds : ~InReset(r, x)
      BY NewCalls DEF Saves, InReset
    <3>2. /\ call' = [call EXCEPT ![c] = r] /\ At(c, "idle") /\ session[t] # None
          /\ UNCHANGED <<accountVars, resetVars, session>>
      BY <2>2 DEF FindActive
    <3>3. HeldExists(r)'
      BY <3>2 DEF HeldExists, Issued
    <3>4. SessionsInv'
      BY <2>2, FindSessions DEF AccountsInv
    <3>5. \A x \in ResetIds : ~Marks(call[c], x)
      BY <3>2 DEF Marks, At
    <3> HIDE DEF r
    <3> QED
      BY <3>1, <3>2, <3>3, <3>4, <3>5, GrowsAlone
  <2>3. CASE IssueTokens(c)
    <3>1. Idle \in CallSteps /\ HeldExists(Idle)' /\ ~Saves(Idle)
          /\ \A x \in ResetIds : ~InReset(Idle, x)
      BY NewCalls DEF Saves, InReset, Idle, HeldExists
    <3>2. /\ call' = [call EXCEPT ![c] = Idle] /\ At(c, "issuing")
          /\ UNCHANGED <<accountVars, resetVars>>
      BY <2>3 DEF IssueTokens
    <3>3. SessionsInv' /\ Issued \subseteq Issued' /\ First \subseteq First'
      BY <2>3, IssueSessions DEF AccountsInv
    <3>4. \A x \in ResetIds : ~Marks(call[c], x)
      BY <3>2 DEF Marks, At
    <3> QED
      BY <3>1, <3>2, <3>3, <3>4
  <2>4. CASE Rotate(c) \/ Leave(c)
    <3>1. SessionsInv' /\ session[call[c].token] \in First
      BY <2>4, RevokeSessions DEF AccountsInv
    <3>2. PICK r : r = IF Rotate(c) THEN [step |-> "issuing", of |-> session[call[c].token]]
                       ELSE Idle
      OBVIOUS
    <3>3. /\ call' = [call EXCEPT ![c] = r] /\ call[c].step \in {"refreshing", "leaving"}
          /\ UNCHANGED <<accountVars, resetVars, session>>
      BY <2>4, <3>2 DEF Rotate, Leave, At
    <3>4. r \in CallSteps
      BY <3>1, <3>2, NewCalls DEF First
    <3>5. HeldExists(r)'
      BY <3>1, <3>2, <3>3 DEF HeldExists, Idle, First
    <3>6. ~Saves(r) /\ \A x \in ResetIds : ~InReset(r, x) /\ ~Marks(call[c], x)
      BY <3>2, <3>3 DEF Saves, InReset, Marks, Idle
    <3> QED
      BY <3>1, <3>3, <3>4, <3>5, <3>6, GrowsAlone
  <2> QED
    BY <2>1, <2>2, <2>3, <2>4 DEF Refresh, Logout
<1>2. Grows
  BY <1>1, GrowsAlone DEF Grows, accountVars
<1>3. CallsTyped'
  BY <1>1, <1>2, CallMoves DEF AccountsInv
<1>4. excused' \subseteq ResetIds
  BY <1>1 DEF AccountsInv, ResetsInv, ResetsTyped, resetVars
<1> QED
  BY <1>1, <1>3, <1>4, Quiet DEF AccountsInv, resetVars

\* The steps that use a reset token, and the end of a call, preserve it.
LEMMA ResetSteps ==
    ASSUME AccountsInv, ResetsExist, NEW c \in Calls,
           (\E t \in ResetIds : ResetPassword(c, t)) \/ MarkUsed(c) \/ End(c)
    PROVE  AccountsInv'
<1>1. PICK r \in CallSteps :
        /\ call' = [call EXCEPT ![c] = r] /\ HeldExists(r)' /\ ~Saves(r) /\ ~InSession(r)
        /\ UNCHANGED <<accountVars, sessionVars>>
        /\ ResetsInv'
  <2>1. ASSUME NEW t \in ResetIds, ResetPassword(c, t)
        PROVE  \E r \in CallSteps :
                 /\ call' = [call EXCEPT ![c] = r] /\ HeldExists(r)' /\ ~Saves(r) /\ ~InSession(r)
                 /\ UNCHANGED <<accountVars, sessionVars>>
                 /\ ResetsInv'
    <3>1. PICK r : r = [step |-> "resetting", user |-> resetFor[t], reset |-> t]
      OBVIOUS
    <3>2. /\ call' = [call EXCEPT ![c] = r] /\ resetFor[t] # None
          /\ UNCHANGED <<accountVars, sessionVars>>
      BY <2>1, <3>1 DEF ResetPassword, Become
    <3>3. resetFor[t] \in Users
      BY <3>2 DEF AccountsInv, ResetsInv, ResetsTyped
    <3>4. r \in CallSteps /\ ~Saves(r) /\ ~InSession(r)
      BY <3>1, <3>3, NewCalls DEF Saves, InSession
    <3>5. Exists(resetFor[t])
      BY <3>2 DEF ResetsExist
    <3>6. HeldExists(r)'
      BY <3>1, <3>2, <3>3, <3>5 DEF HeldExists, Exists, accountVars
    <3>7. ResetsInv'
      BY <2>1, FindResets DEF AccountsInv
    <3> QED
      BY <3>2, <3>4, <3>6, <3>7
  <2>2. CASE MarkUsed(c) \/ End(c)
    <3>1. /\ Idle \in CallSteps /\ HeldExists(Idle)' /\ ~Saves(Idle) /\ ~InSession(Idle)
          /\ \A x \in ResetIds : ~InReset(Idle, x)
      BY NewCalls DEF Saves, InSession, InReset, Idle, HeldExists
    <3>2. call' = [call EXCEPT ![c] = Idle] /\ UNCHANGED <<accountVars, sessionVars>>
      BY <2>2 DEF MarkUsed, End, Become
    <3>3. CASE MarkUsed(c)
      BY <3>1, <3>2, <3>3, MarkResets DEF AccountsInv
    <3>4. CASE End(c)
      <4>1. /\ UNCHANGED <<resetFor, used, resets>> /\ excused \subseteq excused'
            /\ excused' = IF At(c, "marking") THEN excused \cup {call[c].reset} ELSE excused
        BY <3>4 DEF End
      <4>2. excused' \subseteq ResetIds
        BY <4>1, ResetOfCall DEF AccountsInv, ResetsInv, ResetsTyped, At
      <4>3. \A x \in ResetIds \ excused' : ~Marks(call[c], x)
        BY <4>1 DEF Marks, At
      <4> QED
        BY <3>1, <3>2, <4>1, <4>2, <4>3, Quiet
    <3> QED
      BY <2>2, <3>3, <3>4
  <2> QED
    BY <2>1, <2>2
<1>2. Grows
  BY <1>1, GrowsAlone DEF Grows, accountVars, sessionVars
<1>3. CallsTyped'
  BY <1>1, <1>2, CallMoves DEF AccountsInv
<1> QED
  BY <1>1, <1>3, Quiet DEF AccountsInv

\* The steps that no call takes.
LEMMA OtherSteps ==
    ASSUME AccountsInv, NEW u \in Users, AddPoints(u) \/ ForgotPassword(u)
    PROVE  AccountsInv'
<1>1. CASE AddPoints(u)
  <2>1. RowsInv' /\ Grows
    BY <1>1, AddRows, GrowsAlone DEF AccountsInv, Grows, AddPoints, sessionVars
  <2>2. call \in [Calls -> CallSteps] /\ call' = Staled(u, call)
    BY <1>1 DEF AccountsInv, CallsTyped, AddPoints
  <2>3. PICK held : held = call
    OBVIOUS
  <2>4. ASSUME NEW d \in Calls PROVE HeldExists(held[d])'
    <3>1. \A q \in CallSteps : HeldExists(q) => HeldExists(q)'
      BY <2>1, HeldStays
    <3>2. held[d] \in CallSteps /\ HeldExists(held[d])
      BY <2>3 DEF AccountsInv, CallsTyped
    <3> QED
      BY <3>1, <3>2
  <2>5. CallsTyped'
    BY <2>1, <2>2, <2>3, <2>4, StaledTyped
  <2>6. \A d \in Calls : SameCall(call'[d], call[d], u) \/ WasLoaded(call'[d], call[d], u)
    BY <2>2, StaledCalls
  <2>7. SessionsInv'
    <3>1. \A d \in Calls : call'[d] = call[d] \/ ~InSession(call'[d])
      BY <2>6 DEF SameCall, WasLoaded, InSession
    <3> QED
      BY <1>1, <3>1, SessionsFrame DEF AccountsInv, AddPoints
  <2>8. ResetsInv'
    <3>1. ResetsTyped' /\ resets' = resets /\ used' = used /\ excused' = excused
      BY <1>1 DEF AccountsInv, ResetsInv, ResetsTyped, AddPoints, resetVars
    <3>2. \A d \in Calls, t \in ResetIds \ excused' :
             /\ InReset(call'[d], t) => InReset(call[d], t)
             /\ Marks(call[d], t) => Marks(call'[d], t)
      BY <2>6 DEF SameCall, WasLoaded, InReset, Marks
    <3> QED
      BY <3>1, <3>2, ResetsFrame DEF AccountsInv
  <2> QED
    BY <2>1, <2>5, <2>7, <2>8 DEF AccountsInv
<1>2. CASE ForgotPassword(u)
  <2>1. /\ UNCHANGED <<accountVars, sessionVars, used, resets, excused, call>>
        /\ resetFor' \in [ResetIds -> Users \cup {None}]
    BY <1>2 DEF ForgotPassword, AccountsInv, ResetsInv, ResetsTyped
  <2>2. CallsTyped'
    BY <2>1 DEF AccountsInv, CallsTyped, HeldExists, Exists, Issued, First, accountVars, sessionVars
  <2>3. RowsInv' /\ SessionsInv'
    BY <2>1, RowsFrame, SessionsFrame DEF AccountsInv
  <2>4. ResetsInv'
    BY <2>1, ResetsFrame DEF AccountsInv, ResetsInv, ResetsTyped
  <2> QED
    BY <2>2, <2>3, <2>4 DEF AccountsInv
<1> QED
  BY <1>1, <1>2

\* Rows are not deleted, and a reset token is issued only for one that is there.
LEMMA ExistsStep ==
    ASSUME AccountsInv, ResetsExist, Next
    PROVE  ResetsExist'
<1> USE DEF accountVars, resetVars
<1>1. \A u \in Users : Exists(u) => Exists(u)'
  <2>1. ASSUME NEW c \in Calls, Write(c) \/ CreateUser(c)
        PROVE  \A u \in Users : Exists(u) => Exists(u)'
    BY <2>1, WriteRows, CreateRows DEF AccountsInv
  <2>2. ASSUME NEW u \in Users, AddPoints(u)
        PROVE  \A v \in Users : Exists(v) => Exists(v)'
    BY <2>2, AddRows DEF AccountsInv
  <2>3. \/ \E c \in Calls : Write(c) \/ CreateUser(c)
        \/ \E u \in Users : AddPoints(u)
        \/ UNCHANGED account
    BY DEF Next, Serve, UpdateProfile, SetPassword, Register, Login, Refresh, Logout, FindActive,
       ResetPassword, ReadAgain, IssueTokens, Rotate, Leave, MarkUsed, End, ForgotPassword
  <2> QED
    BY <2>1, <2>2, <2>3, GrowsAlone
<1>2. \A t \in ResetIds : resetFor'[t] # None =>
         resetFor'[t] = resetFor[t] \/ (resetFor'[t] \in Users /\ Exists(resetFor'[t]))
  <2>1. ASSUME NEW u \in Users, ForgotPassword(u)
        PROVE  \A t \in ResetIds : resetFor'[t] = resetFor[t] \/ (resetFor'[t] = u /\ Exists(u))
    BY <2>1 DEF ForgotPassword, AccountsInv, ResetsInv, ResetsTyped
  <2>2. (\E u \in Users : ForgotPassword(u)) \/ UNCHANGED resetFor
    BY DEF Next, Serve, UpdateProfile, SetPassword, Register, Login, Refresh, Logout, FindActive,
       ResetPassword, ReadAgain, Write, CreateUser, IssueTokens, Rotate, Leave, MarkUsed, End,
       AddPoints
  <2> QED
    BY <2>1, <2>2
<1>3. \A t \in ResetIds : resetFor[t] # None => resetFor[t] \in Users
  BY DEF AccountsInv, ResetsInv, ResetsTyped
<1> QED
  BY <1>1, <1>2, <1>3 DEF ResetsExist, Exists

\* The invariant holds at the start.
LEMMA InitAccounts == Init => AccountsInv /\ ResetsExist
<1> SUFFICES ASSUME Init PROVE AccountsInv /\ ResetsExist
  OBVIOUS
<1> USE AccountsAssumption DEF Init
<1>1. CallsTyped
  BY NewCalls DEF CallsTyped, HeldExists, Idle
<1>2. RowsTyped /\ NothingLostWithoutOverlap
  <2>1. NoRow["points"] = MaxPoints + 1 /\ NoRow = [NoRow EXCEPT !["points"] = NoRow["points"]]
    BY DEF NoRow, Columns
  <2> QED
    BY <2>1 DEF RowsTyped, NothingLostWithoutOverlap
<1>3. HeldRowsFollow /\ HeldTokensLive
  BY DEF HeldRowsFollow, HeldTokensLive, At, Idle
<1>4. SessionsTyped /\ SessionsFollowRotation
  BY DEF SessionsTyped, SessionsFollowRotation, Issued, First
<1>5. ResetsTyped /\ ResetsExist
  BY DEF ResetsTyped, ResetsExist
<1>6. ResetOnce /\ HeldResetsUnused
  BY DEF ResetOnce, HeldResetsUnused, Resetting, At, Idle, AtMostOne
<1> QED
  BY <1>1, <1>2, <1>3, <1>4, <1>5, <1>6 DEF AccountsInv, RowsInv, SessionsInv, ResetsInv

\* Every step preserves it.
LEMMA StepAccounts ==
    ASSUME AccountsInv, ResetsExist, [Next]_vars
    PROVE  AccountsInv' /\ ResetsExist'
<1>1. CASE Next
  <2>1. AccountsInv'
    BY <1>1, RowSteps, SessionSteps, ResetSteps, OtherSteps DEF Next, Serve
  <2> QED
    BY <1>1, <2>1, ExistsStep
<1>2. CASE UNCHANGED vars
  <2>1. UNCHANGED <<accountVars, sessionVars, resetVars, call>>
    BY <1>2 DEF vars
  <2>2. CallsTyped' /\ ResetsExist'
    BY <2>1 DEF AccountsInv, CallsTyped, HeldExists, Exists, Issued, First, ResetsExist,
       accountVars, sessionVars, resetVars
  <2>3. RowsInv' /\ SessionsInv'
    BY <2>1, RowsFrame, SessionsFrame DEF AccountsInv
  <2>4. ResetsInv'
    BY <2>1, ResetsFrame DEF AccountsInv, ResetsInv, ResetsTyped, resetVars
  <2> QED
    BY <2>2, <2>3, <2>4 DEF AccountsInv
<1> QED
  BY <1>1, <1>2

-----------------------------------------------------------------------------
(* The invariant and what follows from it.                                 *)

\* Rows, sessions and reset tokens fit the calls that hold them, whatever calls
\* overlap and wherever they end (users.service, auth.service).
THEOREM AccountsHold == Spec => [](AccountsInv /\ ResetsExist)
<1>1. AccountsInv /\ ResetsExist /\ [Next]_vars => (AccountsInv /\ ResetsExist)'
  BY StepAccounts
<1> QED
  BY InitAccounts, <1>1, PTL DEF Spec

\* Every call is at one of its steps and holds a user or a token that exists.
THEOREM AccountsTypeCorrect == Spec => []AccountsTypeOK
<1>1. AccountsInv /\ ResetsExist => AccountsTypeOK
  BY TypeParts DEF AccountsInv, RowsInv, SessionsInv, ResetsInv
<1> QED
  BY AccountsHold, <1>1, PTL

\* A save loses nothing but what somebody changed between its two reads, and a
\* user never has more points than were awarded (updateProfile(), setPassword()).
THEOREM NothingLost == Spec => []NothingLostWithoutOverlap
<1>1. AccountsInv => NothingLostWithoutOverlap
  BY DEF AccountsInv, RowsInv
<1> QED
  BY AccountsHold, <1>1, PTL

\* A session has one token that can be redeemed, and none after a logout, unless
\* two calls held one of its tokens together (refresh(), logout()).
THEOREM RotationHolds == Spec => []SessionsFollowRotation
<1>1. AccountsInv => SessionsFollowRotation
  BY DEF AccountsInv, SessionsInv
<1> QED
  BY AccountsHold, <1>1, PTL

\* A reset token sets one password, unless two calls held it together or one
\* ended between the password and the mark (resetPassword()).
THEOREM ResetsAreSingle == Spec => []ResetOnce
<1>1. AccountsInv => ResetOnce
  BY DEF AccountsInv, ResetsInv
<1> QED
  BY AccountsHold, <1>1, PTL
=============================================================================

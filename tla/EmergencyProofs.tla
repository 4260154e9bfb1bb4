--------------------------- MODULE EmergencyProofs ---------------------------
(***************************************************************************)
(* Theorems about Emergency, for any alerts, contacts and taps.            *)
(***************************************************************************)
EXTENDS Emergency, FiniteSetTheorems, TLAPS

EmergencyInv == EmergencyTypeOK /\ SosSentOnce /\ TapsFollow

States == [step : {"idle", "checked", "loaded", "mailed"},
           alert : Alerts \cup {NoAlert}, told : SUBSET Contacts]
AlertRows == [status : {"NONE", "ACTIVE", "CANCELLED"}, notified : Nat]

\* The invariant holds at the start.
LEMMA InitEmergency == Init => EmergencyInv
<1> SUFFICES ASSUME Init PROVE EmergencyInv
  OBVIOUS
<1> USE EmergencyAssumption DEF Init
<1>1. EmergencyTypeOK
  BY DEF EmergencyTypeOK, NoRow, Resting, TapAt
<1>2. \A a \in Alerts : Mailed(a) = {}
  BY DEF Mailed
<1>3. \A c \in Taps : tap[c].step = "idle"
  BY DEF Resting
<1>4. \A a \in Alerts : alert[a].notified <= Cardinality(Mailed(a))
  BY <1>2, FS_EmptySet DEF NoRow
<1>5. SosSentOnce
  BY <1>2, <1>4 DEF SosSentOnce
<1>6. TapsFollow
  BY <1>2, <1>3 DEF TapsFollow, Holds, TapAt, Recorded
<1> QED
  BY <1>1, <1>5, <1>6 DEF EmergencyInv

-----------------------------------------------------------------------------
(* A tap moves on: what its new state must fit.                            *)

\* The facts about one alert.
AlertFact(a) ==
    /\ a \notin excused => \A p \in Contacts : mails[a][p] <= 1
    /\ a \notin excused /\ Mailed(a) # {} =>
          Recorded(a) \/ \E c \in Taps : Holds(c, a) /\ TapAt(c, "mailed")
    /\ brevo => alert[a].notified <= Cardinality(Mailed(a))
    /\ a \notin excused =>
          /\ \A c, d \in Taps : Holds(c, a) /\ Holds(d, a) => c = d
          /\ \A c \in Taps : Holds(c, a) =>
                ~Recorded(a) /\ (~TapAt(c, "mailed") => Mailed(a) = {})
ToldFact(c) ==
    /\ TapAt(c, "checked") => tap[c].told = {}
    /\ brevo /\ TapAt(c, "mailed") => tap[c].told \subseteq Mailed(tap[c].alert)

\* SosSentOnce and TapsFollow, one alert and one tap at a time.
LEMMA Facts ==
    SosSentOnce /\ TapsFollow <=>
        /\ \A a \in Alerts : AlertFact(a)
        /\ \A c \in Taps : ToldFact(c)
        /\ cancelling # NoAlert => Recorded(cancelling)
  BY DEF SosSentOnce, TapsFollow, AlertFact, ToldFact

\* What the type invariant says of the functions.
LEMMA Typed ==
    EmergencyTypeOK =>
        /\ tap \in [Taps -> States] /\ alert \in [Alerts -> AlertRows]
        /\ mails \in [Alerts -> [Contacts -> 0..2]]
        /\ \A c \in Taps : tap[c].step # "idle" => tap[c].alert \in Alerts
  BY DEF EmergencyTypeOK, States, AlertRows, TapAt

\* An alert keeps its facts while what is recorded and mailed about it stays, as
\* long as no tap newly holds it and the tap that mailed still does.
LEMMA AlertKept ==
    ASSUME NEW a, AlertFact(a), a \notin excused, a \notin excused',
           brevo' = brevo, alert'[a] = alert[a], mails'[a] = mails[a],
           \A d \in Taps :
              /\ Holds(d, a)' => Holds(d, a) /\ (TapAt(d, "mailed") => TapAt(d, "mailed")')
              /\ Holds(d, a) /\ TapAt(d, "mailed") => Holds(d, a)' /\ TapAt(d, "mailed")'
    PROVE  AlertFact(a)'
<1>1. Mailed(a)' = Mailed(a) /\ Recorded(a)' = Recorded(a)
  BY DEF Mailed, Recorded
<1>2. \A p \in Contacts : mails'[a][p] <= 1
  BY DEF AlertFact
<1>3. Mailed(a)' # {} =>
        Recorded(a)' \/ \E c \in Taps : Holds(c, a)' /\ TapAt(c, "mailed")'
  BY <1>1 DEF AlertFact
<1>4. brevo' => alert'[a].notified <= Cardinality(Mailed(a)')
  BY <1>1 DEF AlertFact
<1>5. \A c, d \in Taps : Holds(c, a)' /\ Holds(d, a)' => c = d
  BY DEF AlertFact
<1>6. \A c \in Taps : Holds(c, a)' =>
        ~Recorded(a)' /\ (~TapAt(c, "mailed")' => Mailed(a)' = {})
  BY <1>1 DEF AlertFact
<1> QED
  BY <1>2, <1>3, <1>4, <1>5, <1>6 DEF AlertFact

\* What was recorded and mailed stays, so an alert that nobody newly holds keeps
\* its facts.
LEMMA TapMoves ==
    ASSUME EmergencyInv, NEW c \in Taps, NEW r \in States,
           tap' = [tap EXCEPT ![c] = r], r.step # "idle" => r.alert \in Alerts,
           UNCHANGED <<brevo, contacts, cancelling, mails, alert>>,
           excused \subseteq excused', excused' \subseteq Alerts,
           \A a \in Alerts \ excused' : AlertFact(a)',
           r.step = "checked" => r.told = {},
           brevo /\ r.step = "mailed" => r.told \subseteq Mailed(r.alert)
    PROVE  EmergencyInv'
<1>1. \A d \in Taps : tap'[d] = IF d = c THEN r ELSE tap[d]
  BY Typed DEF EmergencyInv
<1>2. EmergencyTypeOK'
  <2>1. tap' \in [Taps -> States]
    BY Typed DEF EmergencyInv
  <2> QED
    BY <1>1, <2>1 DEF EmergencyInv, EmergencyTypeOK, States, TapAt
<1>3. \A a \in Alerts : AlertFact(a)'
  <2>1. \A a \in Alerts : brevo' => alert'[a].notified <= Cardinality(Mailed(a)')
    BY DEF EmergencyInv, SosSentOnce, Mailed
  <2> QED
    BY <2>1 DEF AlertFact
<1>4. \A d \in Taps : ToldFact(d)'
  BY <1>1 DEF EmergencyInv, TapsFollow, ToldFact, TapAt, Mailed
<1>5. (cancelling # NoAlert => Recorded(cancelling))'
  BY DEF EmergencyInv, TapsFollow, Recorded
<1>6. (SosSentOnce /\ TapsFollow)'
  BY <1>3, <1>4, <1>5 DEF SosSentOnce, TapsFollow, AlertFact, ToldFact
<1> QED
  BY <1>2, <1>6 DEF EmergencyInv

\* A tap that takes the next step, and goes on holding its alert.
LEMMA NextStep ==
    ASSUME EmergencyInv, NEW c \in Taps, NEW r \in States, tap[c].step # "idle",
           tap' = [tap EXCEPT ![c] = r], r.step # "idle", r.alert = tap[c].alert,
           tap[c].step = "mailed" => r.step = "mailed",
           UNCHANGED <<brevo, contacts, cancelling, mails, alert, excused>>
    PROVE  \A a \in Alerts \ excused' : AlertFact(a)'
<1>1. \A d \in Taps : tap'[d] = IF d = c THEN r ELSE tap[d]
  BY Typed DEF EmergencyInv
<1> TAKE a \in Alerts \ excused'
<1>2. AlertFact(a)
  BY Facts DEF EmergencyInv
<1>3. \A d \in Taps :
         /\ Holds(d, a)' <=> Holds(d, a)
         /\ Holds(d, a) /\ TapAt(d, "mailed") => TapAt(d, "mailed")'
  BY <1>1 DEF Holds, TapAt
<1>4. /\ Mailed(a)' = Mailed(a) /\ Recorded(a)' = Recorded(a)
      /\ UNCHANGED <<brevo, alert, mails>> /\ a \notin excused
  BY DEF Mailed, Recorded
<1> QED
  BY <1>2, <1>3, <1>4, AlertKept DEF Holds, TapAt

\* The steps of a tap before its mails, and its end, preserve the invariant.
LEMMA TapSteps ==
    ASSUME EmergencyInv, NEW c \in Taps,
           \/ \E a \in Alerts : TriggerSos(c, a)
           \/ NotifyNobody(c) \/ LoadContacts(c) \/ TapEnds(c)
    PROVE  EmergencyInv'
<1>0. /\ tap[c] \in States /\ contacts \subseteq Contacts /\ excused \subseteq Alerts
      /\ tap[c].step # "idle" => tap[c].alert \in Alerts
      /\ ToldFact(c)
  BY Typed, Facts DEF EmergencyInv, EmergencyTypeOK
<1>1. ASSUME NEW a \in Alerts, TriggerSos(c, a) PROVE EmergencyInv'
  <2> DEFINE r == [step |-> "checked", alert |-> a, told |-> {}]
  <2>1. /\ tap' = [tap EXCEPT ![c] = r] /\ TapAt(c, "idle") /\ ~Recorded(a)
        /\ UNCHANGED <<brevo, contacts, cancelling, mails, alert>>
        /\ excused' = IF \E d \in Taps : Holds(d, a) THEN excused \cup {a} ELSE excused
    BY <1>1 DEF TriggerSos
  <2>2. r \in States /\ r.step = "checked" /\ r.alert = a /\ r.told = {}
    BY DEF States
  <2> HIDE DEF r
  <2>3. \A d \in Taps : tap'[d] = IF d = c THEN r ELSE tap[d]
    BY <2>1, Typed DEF EmergencyInv
  <2>4. ASSUME NEW x \in Alerts \ excused' PROVE AlertFact(x)'
    <3>1. AlertFact(x) /\ x \notin excused /\ x \notin excused'
      BY <2>1, Facts DEF EmergencyInv
    <3>2. /\ Mailed(x)' = Mailed(x) /\ Recorded(x)' = Recorded(x)
          /\ brevo' = brevo /\ alert'[x] = alert[x] /\ mails'[x] = mails[x]
      BY <2>1 DEF Mailed, Recorded
    <3>3. CASE x = a
      <4>1. \A d \in Taps : ~Holds(d, x)
        BY <2>1, <3>3
      <4>2. Mailed(x) = {}
        BY <2>1, <3>1, <3>3, <4>1 DEF AlertFact
      <4>3. \A d \in Taps : Holds(d, x)' => d = c
        BY <2>3, <4>1 DEF Holds
      <4> QED
        BY <2>1, <3>1, <3>2, <3>3, <4>2, <4>3 DEF AlertFact
    <3>4. CASE x # a
      <4>1. \A d \in Taps :
               /\ Holds(d, x)' => Holds(d, x) /\ (TapAt(d, "mailed") => TapAt(d, "mailed")')
               /\ Holds(d, x) /\ TapAt(d, "mailed") => Holds(d, x)' /\ TapAt(d, "mailed")'
        BY <2>1, <2>2, <2>3, <3>4 DEF Holds, TapAt
      <4> QED
        BY <3>1, <3>2, <4>1, AlertKept DEF Holds, TapAt
    <3> QED
      BY <3>3, <3>4
  <2>5. excused \subseteq excused' /\ excused' \subseteq Alerts
    BY <1>0, <2>1
  <2> QED
    BY <2>1, <2>2, <2>4, <2>5, TapMoves
<1>2. CASE NotifyNobody(c)
  <2> DEFINE r == [tap[c] EXCEPT !.step = "mailed"]
  <2>1. /\ tap' = [tap EXCEPT ![c] = r] /\ TapAt(c, "checked")
        /\ UNCHANGED <<brevo, contacts, cancelling, mails, alert, excused>>
    BY <1>2 DEF NotifyNobody
  <2>2. r \in States /\ r.step = "mailed" /\ r.alert = tap[c].alert /\ r.told = tap[c].told
    BY <1>0 DEF States
  <2> HIDE DEF r
  <2>3. \A a \in Alerts \ excused' : AlertFact(a)'
    BY <2>1, <2>2, NextStep DEF TapAt
  <2>4. r.told = {} /\ r.alert \in Alerts
    BY <1>0, <2>1, <2>2 DEF ToldFact, TapAt
  <2> QED
    BY <1>0, <2>1, <2>2, <2>3, <2>4, TapMoves
<1>3. CASE LoadContacts(c)
  <2> DEFINE r == [tap[c] EXCEPT !.step = "loaded", !.told = contacts]
  <2>1. /\ tap' = [tap EXCEPT ![c] = r] /\ TapAt(c, "checked")
        /\ UNCHANGED <<brevo, contacts, cancelling, mails, alert, excused>>
    BY <1>3 DEF LoadContacts
  <2>2. r \in States /\ r.step = "loaded" /\ r.alert = tap[c].alert
    BY <1>0 DEF States
  <2> HIDE DEF r
  <2>3. \A a \in Alerts \ excused' : AlertFact(a)'
    BY <2>1, <2>2, NextStep DEF TapAt
  <2>4. r.alert \in Alerts
    BY <1>0, <2>1, <2>2 DEF TapAt
  <2> QED
    BY <1>0, <2>1, <2>2, <2>3, <2>4, TapMoves
<1>4. CASE TapEnds(c)
  <2>1. /\ tap' = [tap EXCEPT ![c] = Resting] /\ ~TapAt(c, "idle")
        /\ UNCHANGED <<brevo, contacts, cancelling, mails, alert>>
        /\ excused' = IF TapAt(c, "mailed") THEN excused \cup {tap[c].alert} ELSE excused
    BY <1>4 DEF TapEnds
  <2>2. Resting \in States /\ Resting.step = "idle"
    BY DEF States, Resting
  <2>3. \A d \in Taps : tap'[d] = IF d = c THEN Resting ELSE tap[d]
    BY <2>1, Typed DEF EmergencyInv
  <2>4. ASSUME NEW x \in Alerts \ excused' PROVE AlertFact(x)'
    <3>1. AlertFact(x) /\ x \notin excused /\ x \notin excused'
      BY <2>1, Facts DEF EmergencyInv
    <3>2. /\ Mailed(x)' = Mailed(x) /\ Recorded(x)' = Recorded(x)
          /\ brevo' = brevo /\ alert'[x] = alert[x] /\ mails'[x] = mails[x]
      BY <2>1 DEF Mailed, Recorded
    <3>3. \A d \in Taps :
             /\ Holds(d, x)' => Holds(d, x) /\ (TapAt(d, "mailed") => TapAt(d, "mailed")')
             /\ Holds(d, x) /\ TapAt(d, "mailed") => Holds(d, x)' /\ TapAt(d, "mailed")'
      BY <2>1, <2>2, <2>3 DEF Holds, TapAt
    <3> QED
      BY <3>1, <3>2, <3>3, AlertKept DEF Holds, TapAt
  <2>5. excused \subseteq excused' /\ excused' \subseteq Alerts
    BY <1>0, <2>1 DEF TapAt
  <2> QED
    BY <2>1, <2>2, <2>4, <2>5, TapMoves
<1> QED
  BY <1>1, <1>2, <1>3, <1>4

-----------------------------------------------------------------------------
(* The mails go out: the tap that holds the alert has mailed nobody before. *)

\* More people mailed are no fewer.
LEMMA MoreMailed ==
    ASSUME EmergencyAssumption, NEW S, NEW T, T \subseteq Contacts, S \subseteq T
    PROVE  Cardinality(S) \in Nat /\ Cardinality(T) \in Nat /\ Cardinality(S) <= Cardinality(T)
<1>1. IsFiniteSet(T)
  BY FS_Subset DEF EmergencyAssumption
<1> QED
  BY <1>1, FS_Subset, FS_CardinalityType

\* The mails preserve it.
LEMMA NotifySteps ==
    ASSUME EmergencyInv, NEW c \in Taps, NotifyContacts(c)
    PROVE  EmergencyInv'
<1>0. PICK a \in Alerts : a = tap[c].alert
  BY Typed DEF EmergencyInv, NotifyContacts, TapAt
<1>1. PICK delivered \in SUBSET tap[c].told, told \in SUBSET tap[c].told :
          /\ IF brevo THEN told \subseteq delivered
             ELSE delivered = {} /\ told = tap[c].told
          /\ mails' = [mails EXCEPT ![a] =
                [p \in Contacts |-> IF p \in delivered THEN Twice(@[p]) ELSE @[p]]]
          /\ tap' = [tap EXCEPT ![c] = [@ EXCEPT !.step = "mailed", !.told = told]]
  BY <1>0 DEF NotifyContacts
<1>2. /\ TapAt(c, "loaded") /\ UNCHANGED <<brevo, contacts, alert, cancelling, excused>>
  BY DEF NotifyContacts
<1>3. /\ tap[c] \in States /\ a \in Alerts /\ Holds(c, a)
  BY <1>0, <1>2, Typed DEF EmergencyInv, TapAt, Holds
<1> DEFINE r == [tap[c] EXCEPT !.step = "mailed", !.told = told]
<1>4. r \in States /\ r.step = "mailed" /\ r.alert = a /\ r.told = told
  BY <1>0, <1>1, <1>3 DEF States
<1>5. tap' = [tap EXCEPT ![c] = r]
  BY <1>1
<1> HIDE DEF r
<1>6. \A d \in Taps : tap'[d] = IF d = c THEN r ELSE tap[d]
  BY <1>5, Typed DEF EmergencyInv
<1>7. \A x \in Alerts, p \in Contacts : mails'[x][p] =
         IF x = a /\ p \in delivered THEN Twice(mails[x][p]) ELSE mails[x][p]
  BY <1>1, <1>3, Typed DEF EmergencyInv
<1>8. \A x \in Alerts : x # a => mails'[x] = mails[x]
  BY <1>1, <1>3, Typed DEF EmergencyInv
<1>9. /\ delivered \subseteq Contacts
      /\ \A x \in Alerts, p \in Contacts : mails[x][p] \in 0..2
  BY <1>1, <1>3, Typed DEF EmergencyInv, States
<1>10. \A n \in 0..2 : Twice(n) \in 0..2 /\ Twice(n) > 0 /\ (n = 0 => Twice(n) = 1)
  BY DEF Twice
<1>11. Mailed(a)' = Mailed(a) \cup delivered
  BY <1>3, <1>7, <1>9, <1>10 DEF Mailed
<1>12. \A x \in Alerts : x # a => Mailed(x)' = Mailed(x)
  BY <1>8 DEF Mailed
<1>13. \A d \in Taps, x \in Alerts :
          /\ Holds(d, x)' => Holds(d, x) /\ (TapAt(d, "mailed") => TapAt(d, "mailed")')
          /\ Holds(d, x) /\ TapAt(d, "mailed") => Holds(d, x)' /\ TapAt(d, "mailed")'
  BY <1>0, <1>2, <1>4, <1>6 DEF Holds, TapAt
<1>14. \A x : Recorded(x)' = Recorded(x)
  BY <1>2 DEF Recorded
<1>15. EmergencyTypeOK'
  <2>1. tap' \in [Taps -> States]
    BY <1>4, <1>5, Typed DEF EmergencyInv
  <2>2. mails' \in [Alerts -> [Contacts -> 0..2]]
    <3>1. [p \in Contacts |-> IF p \in delivered THEN Twice(mails[a][p]) ELSE mails[a][p]]
            \in [Contacts -> 0..2]
      BY <1>3, <1>9, <1>10
    <3> QED
      BY <1>1, <1>3, <3>1, Typed DEF EmergencyInv
  <2> QED
    BY <1>2, <1>3, <1>4, <1>6, <2>1, <2>2
       DEF EmergencyInv, EmergencyTypeOK, States, TapAt
<1>16. ASSUME NEW x \in Alerts PROVE AlertFact(x)'
  <2>1. AlertFact(x)
    BY Facts DEF EmergencyInv
  <2>2. CASE x = a
    <3>1. brevo' => alert'[x].notified <= Cardinality(Mailed(x)')
      <4>1. Mailed(x) \subseteq Mailed(x)' /\ Mailed(x)' \subseteq Contacts
        BY <1>11, <2>2 DEF Mailed
      <4>2. /\ Cardinality(Mailed(x)) \in Nat /\ Cardinality(Mailed(x)') \in Nat
            /\ Cardinality(Mailed(x)) <= Cardinality(Mailed(x)')
        BY <4>1, MoreMailed, EmergencyAssumption
      <4>3. alert[x].notified \in Nat /\ alert'[x] = alert[x] /\ brevo' = brevo
        BY <1>2, Typed DEF EmergencyInv, AlertRows
      <4>4. brevo => alert[x].notified <= Cardinality(Mailed(x))
        BY <2>1 DEF AlertFact
      <4> QED
        BY <4>2, <4>3, <4>4
    <3>2. CASE x \in excused
      BY <1>2, <3>1, <3>2 DEF AlertFact
    <3>3. CASE x \notin excused
      <4>1. Mailed(x) = {} /\ ~Recorded(x)
        BY <1>2, <1>3, <2>1, <2>2, <3>3 DEF AlertFact, TapAt
      <4>2. \A p \in Contacts : mails[x][p] = 0
        BY <1>9, <4>1 DEF Mailed
      <4>3. \A p \in Contacts : mails'[x][p] <= 1
        BY <1>7, <1>10, <4>2
      <4>4. Holds(c, x)' /\ TapAt(c, "mailed")'
        BY <1>3, <1>4, <1>6, <1>13, <2>2 DEF Holds, TapAt
      <4>5. \A d \in Taps : Holds(d, x)' => d = c
        <5>1. \A d \in Taps : Holds(d, x) /\ Holds(c, x) => d = c
          BY <2>1, <3>3 DEF AlertFact
        <5> QED
          BY <1>3, <1>13, <2>2, <5>1 DEF Holds, TapAt
      <4>6. ~Recorded(x)'
        BY <1>14, <4>1
      <4> QED
        BY <3>1, <4>3, <4>4, <4>5, <4>6 DEF AlertFact
    <3> QED
      BY <3>2, <3>3
  <2>3. CASE x # a
    <3>1. CASE x \in excused
      BY <1>2, <1>12, <2>1, <2>3, <3>1 DEF AlertFact
    <3>2. CASE x \notin excused
      <4>1. /\ brevo' = brevo /\ alert'[x] = alert[x] /\ mails'[x] = mails[x]
            /\ x \notin excused'
        BY <1>2, <1>8, <2>3, <3>2
      <4> QED
        BY <1>13, <2>1, <3>2, <4>1, AlertKept DEF Holds, TapAt
    <3> QED
      BY <3>1, <3>2
  <2> QED
    BY <2>2, <2>3
<1>17. ASSUME NEW d \in Taps PROVE ToldFact(d)'
  <2>1. ToldFact(d)
    BY Facts DEF EmergencyInv
  <2>2. CASE d = c
    <3>1. tap'[d] = r
      BY <1>6, <2>2
    <3>2. brevo => told \subseteq Mailed(a)'
      BY <1>1, <1>11
    <3> QED
      BY <1>2, <1>4, <3>1, <3>2 DEF ToldFact, TapAt, Mailed
  <2>3. CASE d # c
    <3>1. tap'[d] = tap[d]
      BY <1>6, <2>3
    <3>2. \A x \in Alerts : Mailed(x) \subseteq Mailed(x)'
      BY <1>11, <1>12
    <3>3. tap[d].step # "idle" => tap[d].alert \in Alerts
      BY Typed DEF EmergencyInv
    <3> QED
      BY <1>2, <2>1, <3>1, <3>2, <3>3 DEF ToldFact, TapAt, Mailed
  <2> QED
    BY <2>2, <2>3
<1>18. (cancelling # NoAlert => Recorded(cancelling))'
  BY <1>2 DEF EmergencyInv, TapsFollow, Recorded
<1>19. (SosSentOnce /\ TapsFollow)'
  BY <1>16, <1>17, <1>18 DEF SosSentOnce, TapsFollow, AlertFact, ToldFact
<1> QED
  BY <1>15, <1>19 DEF EmergencyInv

-----------------------------------------------------------------------------
(* The alert is inserted; a cancellation; new contacts.                    *)

\* The insert of the alert preserves it.
LEMMA SaveSteps ==
    ASSUME EmergencyInv, NEW c \in Taps, SaveAlert(c)
    PROVE  EmergencyInv'
<1>0. PICK a \in Alerts : a = tap[c].alert
  BY Typed DEF EmergencyInv, SaveAlert, TapAt
<1>1. /\ TapAt(c, "mailed")
      /\ alert' = IF Recorded(a) THEN alert
                  ELSE [alert EXCEPT ![a] =
                          [status |-> "ACTIVE", notified |-> Cardinality(tap[c].told)]]
      /\ tap' = [tap EXCEPT ![c] = Resting]
      /\ UNCHANGED <<brevo, contacts, cancelling, mails, excused>>
  BY <1>0 DEF SaveAlert
<1>2. Resting \in States /\ Resting.step = "idle"
  BY DEF States, Resting
<1>3. \A d \in Taps : tap'[d] = IF d = c THEN Resting ELSE tap[d]
  BY <1>1, Typed DEF EmergencyInv
<1>4. /\ tap[c] \in States /\ Holds(c, a)
      /\ ToldFact(c)
  BY <1>0, <1>1, Typed, Facts DEF EmergencyInv, Holds, TapAt
<1>5. Cardinality(tap[c].told) \in Nat
  <2>1. tap[c].told \subseteq Contacts
    BY <1>4 DEF States
  <2> QED
    BY <2>1, MoreMailed, EmergencyAssumption
<1>6. brevo => Cardinality(tap[c].told) <= Cardinality(Mailed(a))
  <2>1. brevo => tap[c].told \subseteq Mailed(a)
    BY <1>0, <1>1, <1>4 DEF ToldFact, TapAt
  <2>2. Mailed(a) \subseteq Contacts
    BY DEF Mailed
  <2> QED
    BY <2>1, <2>2, MoreMailed, EmergencyAssumption
<1> DEFINE row == [status |-> "ACTIVE", notified |-> Cardinality(tap[c].told)]
<1>7. row \in AlertRows /\ row # NoRow /\ row.notified = Cardinality(tap[c].told)
  BY <1>5 DEF AlertRows, NoRow
<1>8. alert' = IF Recorded(a) THEN alert ELSE [alert EXCEPT ![a] = row]
  BY <1>1
<1> HIDE DEF row
<1>9. \A x \in Alerts : alert'[x] = IF x = a /\ ~Recorded(a) THEN row ELSE alert[x]
  BY <1>8, Typed DEF EmergencyInv
<1>10. alert' \in [Alerts -> AlertRows]
  BY <1>7, <1>8, Typed DEF EmergencyInv
<1>11. \A x : Mailed(x)' = Mailed(x)
  BY <1>1 DEF Mailed
<1>12. Recorded(a)' /\ \A x \in Alerts : Recorded(x) => Recorded(x)'
  BY <1>7, <1>9 DEF Recorded
<1>13. \A d \in Taps, x \in Alerts :
          /\ Holds(d, x)' => Holds(d, x) /\ (TapAt(d, "mailed") => TapAt(d, "mailed")')
          /\ x # a /\ Holds(d, x) /\ TapAt(d, "mailed") =>
                Holds(d, x)' /\ TapAt(d, "mailed")'
  BY <1>0, <1>2, <1>3 DEF Holds, TapAt
<1>14. EmergencyTypeOK'
  <2>1. tap' \in [Taps -> States]
    BY <1>1, <1>2, Typed DEF EmergencyInv
  <2> QED
    BY <1>1, <1>2, <1>3, <1>10, <2>1
       DEF EmergencyInv, EmergencyTypeOK, States, AlertRows, TapAt
<1>15. ASSUME NEW x \in Alerts PROVE AlertFact(x)'
  <2>1. AlertFact(x)
    BY Facts DEF EmergencyInv
  <2>2. CASE x = a
    <3>1. brevo' => alert'[x].notified <= Cardinality(Mailed(x)')
      BY <1>1, <1>6, <1>7, <1>9, <1>11, <2>1, <2>2 DEF AlertFact
    <3>2. Recorded(x)' /\ mails'[x] = mails[x] /\ excused' = excused
      BY <1>1, <1>12, <2>2
    <3>3. x \notin excused => \A d \in Taps : ~Holds(d, x)'
      <4>1. x \notin excused => \A d \in Taps : Holds(d, x) => d = c
        BY <1>4, <2>1, <2>2 DEF AlertFact, Holds
      <4>2. ~Holds(c, x)'
        BY <1>2, <1>3 DEF Holds
      <4> QED
        BY <1>13, <4>1, <4>2 DEF Holds
    <3> QED
      BY <2>1, <3>1, <3>2, <3>3 DEF AlertFact
  <2>3. CASE x # a
    <3>1. /\ brevo' = brevo /\ alert'[x] = alert[x] /\ mails'[x] = mails[x]
          /\ excused' = excused
      BY <1>1, <1>9, <2>3
    <3>2. CASE x \in excused
      BY <1>11, <2>1, <3>1, <3>2 DEF AlertFact
    <3>3. CASE x \notin excused
      BY <1>13, <2>1, <2>3, <3>1, <3>3, AlertKept DEF Holds, TapAt
    <3> QED
      BY <3>2, <3>3
  <2> QED
    BY <2>2, <2>3
<1>16. ASSUME NEW d \in Taps PROVE ToldFact(d)'
  <2>1. ToldFact(d)
    BY Facts DEF EmergencyInv
  <2>2. CASE d = c
    BY <1>2, <1>3, <2>2 DEF ToldFact, TapAt
  <2>3. CASE d # c
    BY <1>1, <1>3, <2>1, <2>3 DEF ToldFact, TapAt, Mailed
  <2> QED
    BY <2>2, <2>3
<1>17. (cancelling # NoAlert => Recorded(cancelling))'
  <2>1. cancelling # NoAlert => cancelling \in Alerts /\ Recorded(cancelling)
    BY DEF EmergencyInv, EmergencyTypeOK, TapsFollow
  <2>2. cancelling' = cancelling
    BY <1>1
  <2> QED
    BY <1>7, <1>9, <2>1, <2>2 DEF Recorded
<1>18. (SosSentOnce /\ TapsFollow)'
  BY <1>15, <1>16, <1>17 DEF SosSentOnce, TapsFollow, AlertFact, ToldFact
<1> QED
  BY <1>14, <1>18 DEF EmergencyInv

\* A recorded alert stays recorded and keeps its count when it is cancelled.
LEMMA OtherSteps ==
    ASSUME EmergencyInv,
           \/ \E a \in Alerts : CancelLoad(a)
           \/ CancelSave \/ ReplaceContacts \/ UNCHANGED vars
    PROVE  EmergencyInv'
<1>0. /\ cancelling # NoAlert => cancelling \in Alerts /\ Recorded(cancelling)
      /\ alert \in [Alerts -> AlertRows]
  BY Typed DEF EmergencyInv, EmergencyTypeOK, TapsFollow
<1>1. CASE ReplaceContacts \/ UNCHANGED vars
  <2>1. /\ UNCHANGED <<brevo, alert, tap, cancelling, mails, excused>>
        /\ contacts' \subseteq Contacts
    BY <1>1 DEF ReplaceContacts, vars, EmergencyInv, EmergencyTypeOK
  <2> QED
    <3>1. EmergencyTypeOK'
      BY <2>1 DEF EmergencyInv, EmergencyTypeOK, TapAt
    <3>2. SosSentOnce'
      BY <2>1 DEF EmergencyInv, SosSentOnce, Mailed, Recorded, Holds, TapAt
    <3>3. TapsFollow'
      BY <2>1 DEF EmergencyInv, TapsFollow, Mailed, Recorded, Holds, TapAt
    <3> QED
      BY <3>1, <3>2, <3>3 DEF EmergencyInv
<1>2. ASSUME NEW a \in Alerts, CancelLoad(a) PROVE EmergencyInv'
  <2>1. /\ UNCHANGED <<brevo, contacts, alert, tap, mails, excused>> /\ cancelling' = a
    BY <1>2 DEF CancelLoad
  <2>2. Recorded(a)
    BY <1>2 DEF CancelLoad, Recorded, NoRow
  <2> QED
    <3>1. EmergencyTypeOK'
      BY <2>1 DEF EmergencyInv, EmergencyTypeOK, TapAt
    <3>2. SosSentOnce'
      BY <2>1 DEF EmergencyInv, SosSentOnce, Mailed, Recorded, Holds, TapAt
    <3>3. TapsFollow'
      BY <2>1, <2>2 DEF EmergencyInv, TapsFollow, Mailed, Recorded, Holds, TapAt
    <3> QED
      BY <3>1, <3>2, <3>3 DEF EmergencyInv
<1>3. CASE CancelSave
  <2>1. PICK a \in Alerts : a = cancelling
    BY <1>0, <1>3 DEF CancelSave
  <2> DEFINE row == [alert[a] EXCEPT !.status = "CANCELLED"]
  <2>2. /\ alert' = [alert EXCEPT ![a] = row] /\ cancelling' = NoAlert
        /\ UNCHANGED <<brevo, contacts, tap, mails, excused>>
    BY <1>3, <2>1 DEF CancelSave
  <2>3. row \in AlertRows /\ row # NoRow /\ row.notified = alert[a].notified
    BY <1>0 DEF AlertRows, NoRow
  <2> HIDE DEF row
  <2>4. \A x \in Alerts : /\ alert'[x].notified = alert[x].notified
                          /\ Recorded(x)' <=> Recorded(x)
    BY <1>0, <1>3, <2>1, <2>2, <2>3 DEF Recorded, CancelSave
  <2>5. alert' \in [Alerts -> AlertRows]
    BY <1>0, <2>2, <2>3
  <2>6. EmergencyTypeOK'
    BY <2>2, <2>5 DEF EmergencyInv, EmergencyTypeOK, AlertRows, TapAt
  <2>7. \A x : Mailed(x)' = Mailed(x)
    BY <2>2 DEF Mailed
  <2>8. SosSentOnce'
    BY <2>2, <2>4, <2>7 DEF EmergencyInv, SosSentOnce, Holds, TapAt
  <2>9. TapsFollow'
    BY <2>2, <2>4, <2>7 DEF EmergencyInv, TapsFollow, Holds, TapAt
  <2> QED
    BY <2>6, <2>8, <2>9 DEF EmergencyInv
<1> QED
  BY <1>1, <1>2, <1>3

-----------------------------------------------------------------------------
\* The invariant is inductive: every step of a tap, of a cancellation and of a
\* change of contacts keeps it (emergency.service).
THEOREM EmergencyHolds == Spec => []EmergencyInv
<1>1. Init => EmergencyInv
  BY InitEmergency
<1>2. EmergencyInv /\ [Next]_vars => EmergencyInv'
  <2> SUFFICES ASSUME EmergencyInv, [Next]_vars PROVE EmergencyInv'
    OBVIOUS
  <2>1. ASSUME NEW c \in Taps, Tap(c) PROVE EmergencyInv'
    BY <2>1, TapSteps, NotifySteps, SaveSteps DEF Tap
  <2>2. CASE (\E a \in Alerts : CancelLoad(a)) \/ CancelSave \/ ReplaceContacts
              \/ UNCHANGED vars
    BY <2>2, OtherSteps
  <2> QED
    BY <2>1, <2>2 DEF Next
<1> QED
  BY <1>1, <1>2, PTL DEF Spec

\* Every reachable state is well typed (emergency-alert.entity).
THEOREM EmergencyTypeCorrect == Spec => []EmergencyTypeOK
<1>1. EmergencyInv => EmergencyTypeOK
  BY DEF EmergencyInv
<1> QED
  BY <1>1, EmergencyHolds, PTL

\* However many taps, contacts and alerts there are: nobody is mailed twice about
\* an alert whose taps did not overlap and nobody is mailed about one that stays
\* unrecorded, and with a key an alert counts no more contacts than were mailed
\* (triggerSos(), notifyContacts()).
THEOREM SosIsSentOnce == Spec => []SosSentOnce
<1>1. EmergencyInv => SosSentOnce
  BY DEF EmergencyInv
<1> QED
  BY <1>1, EmergencyHolds, PTL
=============================================================================
